--------------------------- MODULE MCAccessTokens ---------------------------
(* Instances of AccessTokens for TLC: tokens that live for one second.      *)
EXTENDS AccessTokens

OneSecond == [value |-> 1, unit |-> "s"]
=============================================================================
