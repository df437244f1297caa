\* A walk through pages of two while projects come and go.
SPECIFICATION PagesSpec
CONSTANTS
  ProjectIds = {p1, p2, p3, p4}
  Stamps = {1, 2, 3, 4}
  Limit = 2
INVARIANTS PagesInv WalksAreFaithful
