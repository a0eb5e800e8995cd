---------------------------- MODULE MCAcceptance ----------------------------
(* A request, one with another fingerprint and one under another policy.     *)
EXTENDS Acceptance, TLC

CONSTANTS p1, p2, p3, a1
MCRequests == {[fp |-> "f", policy |-> "x"], [fp |-> "g", policy |-> "x"], [fp |-> "f", policy |-> "y"]}
Symmetry == Permutations({p1, p2, p3})
=============================================================================
