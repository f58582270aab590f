------------------------- MODULE MCTcpPortsChecker -------------------------
EXTENDS TcpPortsChecker, TLC

CONSTANTS g1, g2, g3

MCGoroutines == {g1, g2, g3}
MCTwoGoroutines == {g1, g2}

\* The settings give every group a period of ten seconds at least.
MCPeriods == [d \in 1 .. N |-> 1]

MCPorts == [d \in 1 .. N |-> {80, 443}]

Symmetry == Permutations(MCGoroutines)
=============================================================================
