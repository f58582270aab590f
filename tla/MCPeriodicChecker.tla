------------------------- MODULE MCPeriodicChecker -------------------------
EXTENDS PeriodicChecker

CONSTANTS g1, g2, g3

MCGoroutines == {g1, g2, g3}

\* Periods of one and of two units of time.
MCPeriods == [d \in 1 .. N |-> d]
=============================================================================
