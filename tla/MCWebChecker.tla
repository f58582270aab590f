---------------------------- MODULE MCWebChecker ----------------------------
EXTENDS WebChecker, TLC

CONSTANTS g1, g2, g3, new, empty

MCGoroutines == {g1, g2, g3}

\* One period; the settings give every site a period of ten seconds at least.
MCPeriods == [d \in 1 .. N |-> 1]

\* Two content items, one that compares two groups and one that compares one.
MCContent == [d \in 1 .. N |-> << <<1, 2>>, <<2>> >>]

\* The page that stays: everything on it is new to a program that has just started.
MCStill == [d \in 1 .. N |-> [k \in 1 .. 2 |-> [group \in 1 .. 2 |-> new]]]

Symmetry == Permutations(MCGoroutines)
=============================================================================
