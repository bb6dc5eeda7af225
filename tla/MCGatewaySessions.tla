------------------------ MODULE MCGatewaySessions ------------------------
EXTENDS GatewaySessions, TLC
Symmetry == Permutations(Conns) \cup Permutations(Keys)
=============================================================================
