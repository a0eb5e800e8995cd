--------------------------- MODULE MCRelayServer ---------------------------
EXTENDS RelayServer, TLC
CONSTANTS q1, c1, c2, c3
Symmetry == Permutations({c1, c2, c3})
=============================================================================
