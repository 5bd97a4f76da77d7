------------------------------ MODULE MCRPSession ------------------------------
(* Model-checking instance of RPSession: the tabs are interchangeable.     *)
EXTENDS RPSession, TLC

TabSymmetry == Permutations(Tabs)
=============================================================================
