-------------------------- MODULE MCProcessWatcher --------------------------
EXTENDS ProcessWatcher

CONSTANTS r1, default

\* The second process is a fork of the first.
MCFork == [p \in Pids |-> IF p = 2 THEN 1 ELSE 0]

MCExe == [p \in Pids |-> "server"]
=============================================================================
