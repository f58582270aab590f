------------------------ MODULE FreeDiskSpaceChecker ------------------------
(***************************************************************************)
(* The free disk space checker: the scheduler of PeriodicChecker, and what *)
(* its goroutines do.  A check measures a device and swaps its             *)
(* LastCheckStatus; when the status changed it starts a goroutine that     *)
(* saves the status of every device, and when it went from 1 to 0 another  *)
(* one that notifies.  The program can be stopped and started again: the   *)
(* state file is what it then knows.                                       *)
(***************************************************************************)
EXTENDS PeriodicChecker, Sequences, FiniteSetsExt

ASSUME DevicesAssumption == N > 0

VARIABLES
  status,               \* LastCheckStatus of each device
  file,                 \* the state file: a Boolean per device, <<>> for no file
  stage,                \* where a goroutine that checks, saves or notifies is
  fell,                 \* the locals of a check: oldStatus = 1, newStatus = 0
  snap,                 \* the items that a saving goroutine has collected
  told,                 \* history: the user was told that a device is low, and
                        \* no check has found enough space since
  overlap,              \* history: two goroutines were saving at a time
  restarted             \* history: the program was started again

fdsVars == <<status, file, stage, fell, snap, told, overlap, restarted>>
vars == <<checkerVars, fdsVars>>

Stages == {"none", "measure", "save", "notify", "finish", "collect", "log", "over"}

\* The Sum64 of a hash that nothing was written to: h.Sum appends to its
\* argument, and the device, channel and severity never reach the hash.
HashCode(d) == 0

----------------------------------------------------------------------------
Init ==
  /\ CheckerInit
  /\ status = [d \in Devices |-> 1]
  /\ file = <<>>
  /\ stage = [g \in Goroutines |-> "none"]
  /\ fell = [g \in Goroutines |-> FALSE]
  /\ snap = [g \in Goroutines |-> <<>>]
  /\ told = [d \in Devices |-> FALSE]
  /\ overlap = FALSE
  /\ restarted = FALSE

\* The goroutine that checkDevices starts begins to measure.
Visit ==
  /\ VisitDue
  /\ stage' = [g \in Goroutines |->
                 IF pc[g] = "free" /\ pc'[g] = "measure" THEN "measure" ELSE stage[g]]
  /\ UNCHANGED <<status, file, fell, snap, told, overlap, restarted>>

\* Mutant: old and new status are mixed up.
MeasureInverted(g, newStatus) ==
  /\ stage[g] = "measure"
  /\ LET oldStatus == status[dev[g]] IN
       /\ status' = [status EXCEPT ![dev[g]] = newStatus]
       /\ fell' = [fell EXCEPT ![g] = oldStatus = 0 /\ newStatus = 1]
       /\ stage' = [stage EXCEPT ![g] =
                      IF oldStatus # newStatus THEN "save" ELSE "finish"]
  /\ told' = [told EXCEPT ![dev[g]] = @ /\ newStatus = 0]
  /\ UNCHANGED <<checkerVars, file, snap, overlap, restarted>>

\* Mutant: every check that fails notifies.
MeasureRepeats(g, newStatus) ==
  /\ stage[g] = "measure"
  /\ status' = [status EXCEPT ![dev[g]] = newStatus]
  /\ fell' = [fell EXCEPT ![g] = newStatus = 0]
  /\ stage' = [stage EXCEPT ![g] = IF newStatus = 0 THEN "save" ELSE "finish"]
  /\ told' = [told EXCEPT ![dev[g]] = @ /\ newStatus = 0]
  /\ UNCHANGED <<checkerVars, file, snap, overlap, restarted>>

\* The space is measured and the status swapped.
Measure(g, newStatus) ==
  /\ stage[g] = "measure"
  /\ LET oldStatus == status[dev[g]] IN
       /\ status' = [status EXCEPT ![dev[g]] = newStatus]
       /\ fell' = [fell EXCEPT ![g] = oldStatus = 1 /\ newStatus = 0]
       /\ stage' = [stage EXCEPT ![g] =
                      IF oldStatus # newStatus THEN "save" ELSE "finish"]
  /\ told' = [told EXCEPT ![dev[g]] = @ /\ newStatus = 0]
  /\ UNCHANGED <<checkerVars, file, snap, overlap, restarted>>

AfterSave(g) == IF fell[g] THEN "notify" ELSE "finish"

\* Mutant: the goroutine that saves takes no reference.
StartSaveUnprotected(g) ==
  /\ stage[g] = "save"
  /\ \E h \in Free :
       /\ pc' = [pc EXCEPT ![h] = "child"]
       /\ stage' = [stage EXCEPT ![g] = AfterSave(g), ![h] = "collect"]
  /\ overlap' = (overlap \/ \E k \in Goroutines : stage[k] = "collect")
  /\ UNCHANGED <<loopVars, deviceVars, dev, rundownVars, stop, age,
                 status, file, fell, snap, told, restarted>>

\* runSaveState.
StartSave(g) ==
  /\ stage[g] = "save"
  /\ \/ \E h \in Goroutines :
          /\ Spawn(g, h)
          /\ stage' = [stage EXCEPT ![g] = AfterSave(g), ![h] = "collect"]
          /\ overlap' = (overlap \/ \E k \in Goroutines : stage[k] = "collect")
     \/ /\ rundown
        /\ stage' = [stage EXCEPT ![g] = AfterSave(g)]
        /\ UNCHANGED <<checkerVars, overlap>>
  /\ UNCHANGED <<status, file, fell, snap, told, restarted>>

StartNotify(g) ==
  /\ stage[g] = "notify"
  /\ \/ \E h \in Goroutines :
          /\ Spawn(g, h)
          /\ stage' = [stage EXCEPT ![g] = "finish", ![h] = "log"]
          /\ told' = [told EXCEPT ![dev[g]] = TRUE]
     \/ /\ rundown
        /\ stage' = [stage EXCEPT ![g] = "finish"]
        /\ UNCHANGED <<checkerVars, told>>
  /\ UNCHANGED <<status, file, fell, snap, overlap, restarted>>

EndCheck(g) ==
  /\ stage[g] = "finish"
  /\ Finish(g)
  /\ stage' = [stage EXCEPT ![g] = "none"]
  /\ fell' = [fell EXCEPT ![g] = FALSE]
  /\ UNCHANGED <<status, file, snap, told, overlap, restarted>>

----------------------------------------------------------------------------
\* saveState reads one device after the other; the checks go on meanwhile.
Collect(g) ==
  /\ stage[g] = "collect"
  /\ Len(snap[g]) < N
  /\ snap' = [snap EXCEPT ![g] = Append(@, status[Len(@) + 1] # 0)]
  /\ UNCHANGED <<checkerVars, status, file, stage, fell, told, overlap, restarted>>

\* ... and writes the file.  Nothing orders two goroutines that save.
WriteFile(g) ==
  /\ stage[g] = "collect"
  /\ Len(snap[g]) = N
  /\ file' = snap[g]
  /\ snap' = [snap EXCEPT ![g] = <<>>]
  /\ stage' = [stage EXCEPT ![g] = "over"]
  /\ UNCHANGED <<checkerVars, status, fell, told, overlap, restarted>>

\* The goroutine that saved ends, or the one that notifies has called the
\* logger and ends.
EndChild(g) ==
  /\ stage[g] \in {"log", "over"}
  /\ Release(g)
  /\ stage' = [stage EXCEPT ![g] = "none"]
  /\ UNCHANGED <<status, file, fell, snap, told, overlap, restarted>>

EndWorker(g) ==
  /\ pc[g] = "release"
  /\ Release(g)
  /\ UNCHANGED fdsVars

----------------------------------------------------------------------------
\* loadState: a device takes the status of the first item with its HashCode.
LoadedStatus(d) ==
  LET same == {j \in DOMAIN file : HashCode(j) = HashCode(d)}
  IN  IF same = {} THEN 1 ELSE IF file[Min(same)] THEN 1 ELSE 0

\* The program is started again: everything but the file (and the history)
\* begins anew.
StartAgain ==
  /\ Restart
  /\ status' = [d \in Devices |-> LoadedStatus(d)]
  /\ stage' = [g \in Goroutines |-> "none"]
  /\ fell' = [g \in Goroutines |-> FALSE]
  /\ snap' = [g \in Goroutines |-> <<>>]
  /\ restarted' = TRUE
  /\ UNCHANGED <<file, told, overlap>>

----------------------------------------------------------------------------
\* The steps of the scheduler that concern it alone.
Scheduler ==
  /\ \/ RunStep \/ Select \/ StopStep \/ Tick
     \/ Scan \/ BeginWait \/ VisitBusy \/ VisitNotDue \/ EndVisit
     \/ \E g \in Goroutines : GiveUpSignal(g)
  /\ UNCHANGED fdsVars

Next ==
  \/ Scheduler
  \/ Visit
  \/ \E g \in Goroutines :
       \/ \E newStatus \in 0 .. 1 : Measure(g, newStatus)
       \/ StartSave(g)
       \/ StartNotify(g)
       \/ EndCheck(g)
       \/ Collect(g)
       \/ WriteFile(g)
       \/ EndChild(g)
       \/ EndWorker(g)
  \/ StartAgain

\* From an empty state directory.
Spec == Init /\ [][Next]_vars

----------------------------------------------------------------------------
TypeOK ==
  /\ CheckerTypeOK
  /\ status \in [Devices -> 0 .. 1]
  /\ file \in {<<>>} \cup [Devices -> BOOLEAN]
  /\ stage \in [Goroutines -> Stages]
  /\ fell \in [Goroutines -> BOOLEAN]
  /\ snap \in [Goroutines -> Seq(BOOLEAN)]
  /\ \A g \in Goroutines : Len(snap[g]) <= N
  /\ told \in [Devices -> BOOLEAN]
  /\ overlap \in BOOLEAN
  /\ restarted \in BOOLEAN

RepeatsNotice ==
  \E g \in Goroutines :
    stage[g] # "log" /\ stage'[g] = "log" /\ told[dev'[g]]

\* "notify only if status changed from true to false": a device that was reported
\* low is not reported again before a check has found enough space, as long as the
\* program is not started again (the swap of LastCheckStatus in checkDevices).
NotifyOncePerDrop == [][~restarted => ~RepeatsNotice]_vars

\* In the program's first life, a check that found too little space ends only when
\* the user has been told, by it or by an earlier one, or the module is stopping.
LowSpaceIsTold ==
  \A g \in Goroutines :
    (stage[g] = "finish" /\ status[dev[g]] = 0 /\ ~restarted)
       => (told[dev[g]] \/ rundown)

\* What the user was told is in the state file when Stop returns, so that the
\* next life does not tell it again: a check asks for its save before its notice,
\* and r.Wait waits for the save.  It takes that no two saves ever overlapped, and
\* one device only: with more, loadState gives a device the status of another.
ToldIsSaved ==
  (N = 1 /\ stop = "stopped" /\ ~overlap) =>
     \A d \in Devices : told[d] => (file # <<>> /\ ~file[d])
=============================================================================
