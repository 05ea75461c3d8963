--------------------------- MODULE MCStripeBilling ---------------------------
(* The instances of StripeBilling that TLC checks.                         *)
EXTENDS StripeBilling, TLC

MCSymmetry == Permutations(Sub) \cup Permutations(Check)
=============================================================================
