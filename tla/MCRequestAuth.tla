--------------------------- MODULE MCRequestAuth ---------------------------
(* Small instances of RequestAuth for TLC.                                 *)
EXTENDS RequestAuth, TLC

RequestSymmetry == Permutations(Requests)
=============================================================================
