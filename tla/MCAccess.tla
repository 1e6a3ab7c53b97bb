------------------------------- MODULE MCAccess -------------------------------
(* Browsers behind one address; a browser's requests are interchangeable.      *)
EXTENDS Access, TLC

CONSTANTS a1

OneAddr == [b \in Browser |-> a1]
Alike == Permutations(Slots)
==============================================================================
