-------------------------- MODULE MCApprovalSocket --------------------------
EXTENDS ApprovalSocket, TLC
CONSTANTS h1, h2
Symmetry == Permutations({h1, h2})
=============================================================================
