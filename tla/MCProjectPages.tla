--------------------------- MODULE MCProjectPages ---------------------------
(* Instances of ProjectPages for TLC: the values are in the .cfg file.      *)
EXTENDS ProjectPages
=============================================================================
