------------------------------ MODULE MCSchema ------------------------------
(* Schema instantiated for TLC: one bytes and one string content, the     *)
(* sint32 values around zero where zigzag changes sign handling.          *)
EXTENDS Schema

MCInt32Vals == {-1, 0, 1}

=============================================================================
