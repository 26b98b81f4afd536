---------------------------- MODULE MCSlogLogger ----------------------------
(* Numbers of eight bits; the units of the program are alike.                *)
EXTENDS SlogLogger

MCSigned == {-128, -10}
UnitSymmetry == Permutations(Units)
=============================================================================
