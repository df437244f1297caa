\* Requests that may fail and overlap, and what holds while they do not.
SPECIFICATION SHSpec
CONSTANTS
  Users = {u1}
  MaxTime = 2
  Keys = {k1, k2}
  Req = {r1, r2}
  MayFail = TRUE
  NULL = NULL
INVARIANTS RotationRevokesFirst CalmInv OneTokenWhenCalm ResetEndsSessionsWhenCalm
PROPERTIES RevocationIsFinal ResetsAreLinked
SYMMETRY Symmetric
