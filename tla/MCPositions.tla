------------------------------ MODULE MCPositions ------------------------------
(* Two devices and a list of up to three elements.  Elements, and devices, are *)
(* alike.                                                                      *)
EXTENDS Positions, TLC

Alike == Permutations(Elem) \cup Permutations(Device)
==============================================================================
