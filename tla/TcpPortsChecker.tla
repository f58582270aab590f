-------------------------- MODULE TcpPortsChecker --------------------------
(***************************************************************************)
(* The TCP ports checker: the scheduler of PeriodicChecker, and what its   *)
(* goroutines do.  A device is a group of ports.  A check dials each port, *)
(* then compares what it found with the ports known to be open, under the  *)
(* lock of the group, and saves and notifies as the other checkers do.     *)
(*                                                                         *)
(* The goroutine that saves ranges over the groups by value: it copies the *)
(* lock of a group as it is at that moment, and locks the copy, which      *)
(* nobody else knows of.                                                   *)
(***************************************************************************)
EXTENDS PeriodicChecker, Sequences, FiniteSetsExt

CONSTANT Ports          \* PortsX, the ports of each group

ASSUME PortsAssumption ==
  \A d \in Devices : /\ Ports[d] # {}
                     /\ Ports[d] \subseteq Nat
                     /\ \A p \in Ports[d] : p <= 65535

VARIABLES
  open,                 \* LastCheckStatus of each group: the ports known to be open
  locked,               \* LastCheckStatusLock of each group
  file,                 \* the state file: a set of open ports for each group, or
                        \* <<>> for no file
  stage,                \* where a goroutine that checks, saves or notifies is
  status,               \* the local status of a check: the ports that answered
  dropDetected,         \* the local of that name
  copied,               \* the lock in the copy that a saving goroutine works on
  toSave,               \* the groups that it has collected
  answered,             \* history: the ports of each group that answered last
  lost                  \* history: the check at work found a port closed that
                        \* answered the check before, and has told nobody

tcpVars == <<open, locked, file, stage, status, dropDetected, copied, toSave,
             answered, lost>>
vars == <<checkerVars, tcpVars>>

AllPorts == UNION {Ports[d] : d \in Devices}

Stages == {"none", "dial", "compare", "locked", "save", "notify", "finish",
           "copy", "collect", "log", "over"}

\* The Sum64 of a hash that nothing was written to, as in the other checkers.
HashCode(d) == 0

----------------------------------------------------------------------------
\* What a save says of a group: the index of the port that is written never moves,
\* so that only the last port is left, and it is always open.
SavedPorts(d) == {Max(Ports[d])}

\* loadState: a group takes the ports of the first item with its HashCode.
LoadedPorts(d) ==
  LET same == {j \in DOMAIN file : HashCode(j) = HashCode(d)}
  IN  IF same = {} THEN {} ELSE file[Min(same)]

\* Mutant: only when no port is left the group has dropped.
DroppedAll(d, up) == IF up = {} THEN Ports[d] \cap open[d] ELSE {}

\* The ports that were open and did not answer, ...
Dropped(d, up) == (Ports[d] \cap open[d]) \ up

\* ... and those that answered and were not.
Risen(d, up) == up \ open[d]

----------------------------------------------------------------------------
Init ==
  /\ CheckerInit
  /\ open = [d \in Devices |-> {}]
  /\ locked = [d \in Devices |-> FALSE]
  /\ file = <<>>
  /\ stage = [g \in Goroutines |-> "none"]
  /\ status = [g \in Goroutines |-> {}]
  /\ dropDetected = [g \in Goroutines |-> FALSE]
  /\ copied = [g \in Goroutines |-> FALSE]
  /\ toSave = [g \in Goroutines |-> <<>>]
  /\ answered = [d \in Devices |-> {}]
  /\ lost = [d \in Devices |-> FALSE]

\* The goroutine that checkTcpPorts starts begins to dial.
Visit ==
  /\ VisitDue
  /\ stage' = [g \in Goroutines |->
                 IF pc[g] = "free" /\ pc'[g] = "measure" THEN "dial" ELSE stage[g]]
  /\ UNCHANGED <<open, locked, file, status, dropDetected, copied, toSave,
                 answered, lost>>

\* The ports are dialled one after the other, each by a goroutine that is waited
\* for; nobody sees the answers before the last one is in.
Dial(g, up) ==
  /\ stage[g] = "dial"
  /\ status' = [status EXCEPT ![g] = up]
  /\ stage' = [stage EXCEPT ![g] = "compare"]
  /\ answered' = [answered EXCEPT ![dev[g]] = up]
  /\ lost' = [lost EXCEPT ![dev[g]] = answered[dev[g]] \ up # {}]
  /\ UNCHANGED <<checkerVars, open, locked, file, dropDetected, copied, toSave>>

LockStatus(g) ==
  /\ stage[g] = "compare"
  /\ ~locked[dev[g]]
  /\ locked' = [locked EXCEPT ![dev[g]] = TRUE]
  /\ stage' = [stage EXCEPT ![g] = "locked"]
  /\ UNCHANGED <<checkerVars, open, file, status, dropDetected, copied, toSave,
                 answered, lost>>

\* The ports are compared and the lock is given back.
Compare(g) ==
  /\ stage[g] = "locked"
  /\ LET d == dev[g]
         up == status[g]
         doSave == Dropped(d, up) \cup Risen(d, up) # {}
     IN
       /\ open' = [open EXCEPT ![d] = (@ \ Dropped(d, up)) \cup up]
       /\ locked' = [locked EXCEPT ![d] = FALSE]
       /\ dropDetected' = [dropDetected EXCEPT ![g] = Dropped(d, up) # {}]
       /\ stage' = [stage EXCEPT ![g] = IF doSave THEN "save" ELSE "finish"]
  /\ status' = [status EXCEPT ![g] = {}]
  /\ UNCHANGED <<checkerVars, file, copied, toSave, answered, lost>>

AfterSave(g) == IF dropDetected[g] THEN "notify" ELSE "finish"

\* runSaveState.
StartSave(g) ==
  /\ stage[g] = "save"
  /\ \/ \E h \in Goroutines :
          /\ Spawn(g, h)
          /\ stage' = [stage EXCEPT ![g] = AfterSave(g), ![h] = "copy"]
     \/ /\ rundown
        /\ stage' = [stage EXCEPT ![g] = AfterSave(g)]
        /\ UNCHANGED checkerVars
  /\ UNCHANGED <<open, locked, file, status, dropDetected, copied, toSave,
                 answered, lost>>

StartNotify(g) ==
  /\ stage[g] = "notify"
  /\ \/ \E h \in Goroutines :
          /\ Spawn(g, h)
          /\ stage' = [stage EXCEPT ![g] = "finish", ![h] = "log"]
          /\ lost' = [lost EXCEPT ![dev[g]] = FALSE]
     \/ /\ rundown
        /\ stage' = [stage EXCEPT ![g] = "finish"]
        /\ UNCHANGED <<checkerVars, lost>>
  /\ UNCHANGED <<open, locked, file, status, dropDetected, copied, toSave, answered>>

EndCheck(g) ==
  /\ stage[g] = "finish"
  /\ Finish(g)
  /\ stage' = [stage EXCEPT ![g] = "none"]
  /\ dropDetected' = [dropDetected EXCEPT ![g] = FALSE]
  /\ lost' = [lost EXCEPT ![dev[g]] = FALSE]
  /\ UNCHANGED <<open, locked, file, status, copied, toSave, answered>>

----------------------------------------------------------------------------
\* saveState takes a copy of the next group, its lock included, ...
CopyItem(g) ==
  /\ stage[g] = "copy"
  /\ Len(toSave[g]) < N
  /\ copied' = [copied EXCEPT ![g] = locked[Len(toSave[g]) + 1]]
  /\ stage' = [stage EXCEPT ![g] = "collect"]
  /\ UNCHANGED <<checkerVars, open, locked, file, status, dropDetected, toSave,
                 answered, lost>>

\* ... and locks the copy: a lock that was copied while it was held is never free.
Collect(g) ==
  /\ stage[g] = "collect"
  /\ ~copied[g]
  /\ toSave' = [toSave EXCEPT ![g] = Append(@, SavedPorts(Len(@) + 1))]
  /\ stage' = [stage EXCEPT ![g] = "copy"]
  /\ UNCHANGED <<checkerVars, open, locked, file, status, dropDetected, copied,
                 answered, lost>>

WriteFile(g) ==
  /\ stage[g] = "copy"
  /\ Len(toSave[g]) = N
  /\ file' = toSave[g]
  /\ toSave' = [toSave EXCEPT ![g] = <<>>]
  /\ stage' = [stage EXCEPT ![g] = "over"]
  /\ UNCHANGED <<checkerVars, open, locked, status, dropDetected, copied,
                 answered, lost>>

EndChild(g) ==
  /\ stage[g] \in {"log", "over"}
  /\ Release(g)
  /\ stage' = [stage EXCEPT ![g] = "none"]
  /\ UNCHANGED <<open, locked, file, status, dropDetected, copied, toSave,
                 answered, lost>>

EndWorker(g) ==
  /\ pc[g] = "release"
  /\ Release(g)
  /\ UNCHANGED tcpVars

----------------------------------------------------------------------------
\* The program is started again: everything but the file begins anew.
StartAgain ==
  /\ Restart
  /\ open' = [d \in Devices |-> LoadedPorts(d)]
  /\ locked' = [d \in Devices |-> FALSE]
  /\ stage' = [g \in Goroutines |-> "none"]
  /\ status' = [g \in Goroutines |-> {}]
  /\ dropDetected' = [g \in Goroutines |-> FALSE]
  /\ copied' = [g \in Goroutines |-> FALSE]
  /\ toSave' = [g \in Goroutines |-> <<>>]
  /\ answered' = [d \in Devices |-> {}]
  /\ lost' = [d \in Devices |-> FALSE]
  /\ UNCHANGED file

\* The steps of the scheduler that concern it alone.
Scheduler ==
  /\ \/ RunStep \/ Select \/ StopStep \/ Tick
     \/ Scan \/ BeginWait \/ VisitBusy \/ VisitNotDue \/ EndVisit
     \/ \E g \in Goroutines : GiveUpSignal(g)
  /\ UNCHANGED tcpVars

\* The steps of a check and of the goroutines that it starts.
GoStep(g) ==
  \/ /\ dev[g] \in Devices
     /\ \E up \in SUBSET Ports[dev[g]] : Dial(g, up)
  \/ LockStatus(g)
  \/ Compare(g)
  \/ StartSave(g)
  \/ StartNotify(g)
  \/ EndCheck(g)
  \/ CopyItem(g)
  \/ Collect(g)
  \/ WriteFile(g)
  \/ EndChild(g)
  \/ EndWorker(g)

Next ==
  \/ Scheduler
  \/ Visit
  \/ \E g \in Goroutines : GoStep(g)
  \/ StartAgain

\* From an empty state directory.
Spec == Init /\ [][Next]_vars

(***************************************************************************)
(* The fairness of the scheduler; every goroutine that can go on goes on,  *)
(* and a dial ends, because it has a time limit.                           *)
(***************************************************************************)
Fairness ==
  /\ WF_vars(Scheduler /\ (RunStep \/ Scan \/ BeginWait \/ VisitBusy \/ VisitNotDue
                           \/ EndVisit))
  /\ WF_vars(Visit)
  /\ SF_vars(Scheduler /\ WaitTimer)
  /\ SF_vars(Scheduler /\ WaitShutdown)
  /\ \A g \in Goroutines :
       /\ SF_vars(Scheduler /\ WaitCheckDone(g))
       /\ WF_vars(Scheduler /\ GiveUpSignal(g))
       /\ WF_vars(GoStep(g))
  /\ WF_vars(Scheduler /\ (StopRundown \/ StopDrained))
  /\ WF_vars(Scheduler /\ Tick)

FairSpec == Spec /\ Fairness

----------------------------------------------------------------------------
TypeOK ==
  /\ CheckerTypeOK
  /\ open \in [Devices -> SUBSET AllPorts]
  /\ locked \in [Devices -> BOOLEAN]
  /\ file \in {<<>>} \cup [Devices -> SUBSET AllPorts]
  /\ stage \in [Goroutines -> Stages]
  /\ status \in [Goroutines -> SUBSET AllPorts]
  /\ dropDetected \in [Goroutines -> BOOLEAN]
  /\ copied \in [Goroutines -> BOOLEAN]
  /\ toSave \in [Goroutines -> Seq(SUBSET AllPorts)]
  /\ \A g \in Goroutines : /\ Len(toSave[g]) <= N
                           /\ stage[g] = "collect" => Len(toSave[g]) < N
  /\ answered \in [Devices -> SUBSET AllPorts]
  /\ lost \in [Devices -> BOOLEAN]

\* A check that finds a port closed which answered the check before ends only when
\* the user was told that the group has a problem, or the module is stopping,
\* whatever the other ports of the group do (checkTcpPorts).
DropIsTold ==
  \A g \in Goroutines :
    (stage[g] = "finish" /\ lost[dev[g]]) => rundown
=============================================================================
