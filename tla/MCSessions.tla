----------------------------- MODULE MCSessions -----------------------------
(* Instances of SessionHistory for TLC.                                    *)
EXTENDS SessionHistory, TLC

Symmetric == Permutations(Keys) \cup Permutations(Req) \cup Permutations(Users)
=============================================================================
