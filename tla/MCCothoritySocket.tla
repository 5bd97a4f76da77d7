-------------------------- MODULE MCCothoritySocket --------------------------
(* Model-checking instance of CothoritySocket: the requests are model       *)
(* values, interchangeable for safety checking.                             *)
EXTENDS CothoritySocket, TLC

RequestSymmetry == Permutations(Requests)
=============================================================================
