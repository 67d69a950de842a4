------------------------------ MODULE MCGates ------------------------------
(* Instances of Gates for TLC. *)
EXTENDS Gates

CONSTANTS q1, q2, s1, s2

SiteSymmetry == Permutations({s1, s2})
Symmetry == Permutations({q1, q2}) \cup SiteSymmetry
=============================================================================
