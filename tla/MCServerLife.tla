---------------------------- MODULE MCServerLife ----------------------------
(* Instances of ServerLife for TLC: the values are in the .cfg files.       *)
EXTENDS ServerLife
=============================================================================
