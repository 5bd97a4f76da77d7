------------------------------ MODULE MCAuthPage ------------------------------
(* Model-checking instance of AuthPage: two files, interchangeable.        *)
EXTENDS AuthPage, TLC

FileSymmetry == Permutations(Files)
=============================================================================
