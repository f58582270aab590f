----------------------- MODULE MCFreeDiskSpaceChecker -----------------------
EXTENDS FreeDiskSpaceChecker, TLC

CONSTANTS g1, g2, g3, g4

MCManyGoroutines == {g1, g2, g3, g4}

\* The settings give no period: every end of a check starts the next ones.
MCPeriods == [d \in 1 .. N |-> -1]

Symmetry == Permutations(MCManyGoroutines)
=============================================================================
