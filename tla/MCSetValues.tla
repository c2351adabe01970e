----------------------------- MODULE MCSetValues -----------------------------
(* Instances of SetValues for TLC: the WiFi component and two others that are *)
(* interchangeable, and two radios.                                           *)
EXTENDS SetValues, TLC

CONSTANTS a, b

Symmetry == Permutations({a, b}) \cup Permutations(Radios)
==============================================================================
