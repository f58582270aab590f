-------------------------- MODULE PeriodicChecker --------------------------
(***************************************************************************)
(* The scheduler that the free disk space, web and TCP port checkers share *)
(* (the same code three times; the names are the first one's).  A loop     *)
(* looks for the shortest time to wait, selects over the shutdown signal,  *)
(* a timer and the end of a check, and then visits every device: one whose *)
(* time has come is checked by a goroutine of its own, the others are told *)
(* how much time went by.  A check may start further goroutines (save the  *)
(* state, send a notification), clears the device's CheckInProgress and    *)
(* offers its end to the loop on the unbuffered channel checkDone.         *)
(*                                                                         *)
(* The rundown protection is the abstract one of module Rundown: a         *)
(* reference count and a flag, each operation one step.                    *)
(*                                                                         *)
(* Time is discrete.  It passes at any point, and only `waited', the time  *)
(* since the loop began to wait, is measured by the code.  `age' is a      *)
(* history variable: the time since the last check of a device began.      *)
(* Both stop counting at Horizon, a time no period reaches.                *)
(***************************************************************************)
EXTENDS Integers, FiniteSets

CONSTANTS
  N,                    \* the devices are 1 .. N, in the order of the settings
  CheckPeriod,          \* the period of each; -1 when the settings give none
  Goroutines,           \* places for goroutines: bounds how many are alive
  MaxChildren,          \* bounds how many of them are started by checks
  Horizon,              \* clocks saturate here
  MaxBacklog            \* no time passes while more ended checks are unreceived

Devices == 1 .. N

ASSUME CheckerAssumption ==
  /\ N \in Nat
  /\ Horizon \in Nat
  /\ CheckPeriod \in [Devices -> -1 .. Horizon]
  /\ IsFiniteSet(Goroutines)
  /\ MaxChildren \in Nat
  /\ MaxBacklog \in Nat

VARIABLES
  loop,                 \* the program point of the loop goroutine
  idx,                  \* its loop variable, counting down
  timeToWait,           \* the shortest time to wait it found
  elapsed,              \* the argument of checkDevices
  waited,               \* the time since it began to wait
  next,                 \* NextCheckPeriod of each device
  inProgress,           \* CheckInProgress of each device
  pc, dev,              \* the program point of each goroutine and its device
  refs, rundown,        \* the rundown protection
  stop,                 \* the program point of Stop
  age                   \* history: time since the last check of each began

loopVars == <<loop, idx, timeToWait, elapsed, waited>>
deviceVars == <<next, inProgress>>
goVars == <<pc, dev>>
rundownVars == <<refs, rundown>>
checkerVars == <<loopVars, deviceVars, goVars, rundownVars, stop, age>>

LoopPoints == {"off", "entered", "scan", "wait", "visit", "exited"}
GoPoints == {"free", "measure", "signal", "release", "child"}
StopPoints == {"idle", "signalled", "draining", "stopped"}

\* Stop has forgotten the module and closed shutdownSignal.
ShuttingDown == stop # "idle"

At(point) == {g \in Goroutines : pc[g] = point}
Free == At("free")
Alive == Goroutines \ Free
Running == loop \in {"scan", "wait", "visit"}

----------------------------------------------------------------------------
CheckerInit ==
  /\ loop = "off"
  /\ idx = 0
  /\ timeToWait = -1
  /\ elapsed = 0
  /\ waited = 0
  /\ next = [d \in Devices |-> 0]
  /\ inProgress = [d \in Devices |-> FALSE]
  /\ pc = [g \in Goroutines |-> "free"]
  /\ dev = [g \in Goroutines |-> 0]
  /\ refs = 0
  /\ rundown = FALSE
  /\ stop = "idle"
  /\ age = [d \in Devices |-> Horizon]

----------------------------------------------------------------------------
\* Run reads the pointer to the module, then asks for a reference.
RunEnter ==
  /\ loop = "off"
  /\ ~ShuttingDown
  /\ loop' = "entered"
  /\ UNCHANGED <<idx, timeToWait, elapsed, waited, deviceVars, goVars,
                 rundownVars, stop, age>>

BeginScan ==
  /\ loop' = "scan"
  /\ idx' = N

RunAcquire ==
  /\ loop = "entered"
  /\ \/ /\ ~rundown
        /\ refs' = refs + 1
        /\ BeginScan
     \/ /\ rundown
        /\ loop' = "exited"
        /\ UNCHANGED <<idx, refs>>
  /\ UNCHANGED <<timeToWait, elapsed, waited, deviceVars, goVars, rundown, stop,
                 age>>

----------------------------------------------------------------------------
\* The search for the next device to check, one device after the other.
Scan ==
  /\ loop = "scan"
  /\ idx > 0
  /\ timeToWait' = IF /\ ~inProgress[idx]
                      /\ timeToWait < 0 \/ timeToWait > next[idx]
                   THEN next[idx]
                   ELSE timeToWait
  /\ idx' = idx - 1
  /\ UNCHANGED <<loop, elapsed, waited, deviceVars, goVars, rundownVars, stop,
                 age>>

BeginWait ==
  /\ loop = "scan"
  /\ idx = 0
  /\ loop' = "wait"
  /\ UNCHANGED <<idx, timeToWait, elapsed, waited, deviceVars, goVars,
                 rundownVars, stop, age>>

\* checkDevices begins.  The clock and timeToWait are started anew before they
\* are looked at again.
BeginVisit(time) ==
  /\ loop' = "visit"
  /\ idx' = N
  /\ elapsed' = time
  /\ waited' = 0
  /\ timeToWait' = -1

\* The timer of the select.  The devices are told the time asked for, not the
\* time that went by.
WaitTimer ==
  /\ loop = "wait"
  /\ timeToWait >= 0
  /\ waited >= timeToWait
  /\ BeginVisit(timeToWait)
  /\ UNCHANGED <<deviceVars, goVars, rundownVars, stop, age>>

\* The loop receives the end of a check on checkDone.
WaitCheckDone(g) ==
  /\ loop = "wait"
  /\ pc[g] = "signal"
  /\ pc' = [pc EXCEPT ![g] = "release"]
  /\ BeginVisit(waited)
  /\ UNCHANGED <<dev, deviceVars, rundownVars, stop, age>>

\* The loop leaves and gives its reference back.
WaitShutdown ==
  /\ loop = "wait"
  /\ ShuttingDown
  /\ loop' = "exited"
  /\ refs' = refs - 1
  /\ UNCHANGED <<idx, timeToWait, elapsed, waited, deviceVars, goVars, rundown,
                 stop, age>>

----------------------------------------------------------------------------
\* checkDevices on a device that is being checked: the compare-and-swap fails.
VisitBusy ==
  /\ loop = "visit"
  /\ idx > 0
  /\ inProgress[idx]
  /\ idx' = idx - 1
  /\ UNCHANGED <<loop, timeToWait, elapsed, waited, deviceVars, goVars,
                 rundownVars, stop, age>>

\* Mutant: CheckInProgress is not looked at.
DueUnlocked(d) == elapsed >= next[d]

Due(d) == ~inProgress[d] /\ elapsed >= next[d]

\* Mutant: the timer of the device is not reset.
VisitDueNoReset ==
  /\ loop = "visit"
  /\ idx > 0
  /\ Due(idx)
  /\ \/ /\ ~rundown
        /\ \E g \in Free :
             /\ pc' = [pc EXCEPT ![g] = "measure"]
             /\ dev' = [dev EXCEPT ![g] = idx]
        /\ refs' = refs + 1
        /\ inProgress' = [inProgress EXCEPT ![idx] = TRUE]
        /\ age' = [age EXCEPT ![idx] = 0]
     \/ /\ rundown
        /\ UNCHANGED <<inProgress, goVars, refs, age>>
  /\ idx' = idx - 1
  /\ UNCHANGED <<loop, timeToWait, elapsed, waited, next, rundown, stop>>

VisitDue ==
  /\ loop = "visit"
  /\ idx > 0
  /\ Due(idx)
  /\ next' = [next EXCEPT ![idx] = CheckPeriod[idx]]
  /\ \/ /\ ~rundown
        /\ \E g \in Free :
             /\ pc' = [pc EXCEPT ![g] = "measure"]
             /\ dev' = [dev EXCEPT ![g] = idx]
        /\ refs' = refs + 1
        /\ inProgress' = [inProgress EXCEPT ![idx] = TRUE]
        /\ age' = [age EXCEPT ![idx] = 0]
     \/ /\ rundown
        /\ UNCHANGED <<inProgress, goVars, refs, age>>
  /\ idx' = idx - 1
  /\ UNCHANGED <<loop, timeToWait, elapsed, waited, rundown, stop>>

VisitNotDue ==
  /\ loop = "visit"
  /\ idx > 0
  /\ ~inProgress[idx]
  /\ elapsed < next[idx]
  /\ next' = [next EXCEPT ![idx] = next[idx] - elapsed]
  /\ idx' = idx - 1
  /\ UNCHANGED <<loop, timeToWait, elapsed, waited, inProgress, goVars,
                 rundownVars, stop, age>>

EndVisit ==
  /\ loop = "visit"
  /\ idx = 0
  /\ elapsed' = 0
  /\ BeginScan
  /\ UNCHANGED <<timeToWait, waited, deviceVars, goVars, rundownVars, stop, age>>

----------------------------------------------------------------------------
\* Mutant: a reference is counted although the rundown has begun.
SpawnLate(g, h) ==
  /\ pc[g] = "measure"
  /\ pc[h] = "free"
  /\ Cardinality(At("child")) < MaxChildren
  /\ pc' = [pc EXCEPT ![h] = "child"]
  /\ dev' = [dev EXCEPT ![h] = dev[g]]
  /\ refs' = refs + 1
  /\ UNCHANGED <<loopVars, deviceVars, rundown, stop, age>>

\* A check starts one more goroutine for its device, when it gets a reference.
Spawn(g, h) ==
  /\ pc[g] = "measure"
  /\ pc[h] = "free"
  /\ Cardinality(At("child")) < MaxChildren
  /\ ~rundown
  /\ pc' = [pc EXCEPT ![h] = "child"]
  /\ dev' = [dev EXCEPT ![h] = dev[g]]
  /\ refs' = refs + 1
  /\ UNCHANGED <<loopVars, deviceVars, rundown, stop, age>>

\* Mutant: CheckInProgress is not cleared.
FinishUncleared(g) ==
  /\ pc[g] = "measure"
  /\ dev' = [dev EXCEPT ![g] = 0]
  /\ pc' = [pc EXCEPT ![g] = "signal"]
  /\ UNCHANGED <<loopVars, deviceVars, rundownVars, stop, age>>

\* A check has measured: it leaves its device alone from here on (0 is no
\* device) and offers its end to the loop.
Finish(g) ==
  /\ pc[g] = "measure"
  /\ inProgress' = [inProgress EXCEPT ![dev[g]] = FALSE]
  /\ dev' = [dev EXCEPT ![g] = 0]
  /\ pc' = [pc EXCEPT ![g] = "signal"]
  /\ UNCHANGED <<loopVars, next, rundownVars, stop, age>>

\* Mutant: the goroutine returns on the shutdown signal without its Release.
GiveUpSignalLeaks(g) ==
  /\ pc[g] = "signal"
  /\ ShuttingDown
  /\ pc' = [pc EXCEPT ![g] = "free"]
  /\ UNCHANGED <<loopVars, deviceVars, dev, rundownVars, stop, age>>

\* Mutant: the select of the goroutine has no case for the shutdown signal.
NeverGivesUp(g) == FALSE

\* The loop may be gone: the shutdown signal ends the offer.
GiveUpSignal(g) ==
  /\ pc[g] = "signal"
  /\ ShuttingDown
  /\ pc' = [pc EXCEPT ![g] = "release"]
  /\ UNCHANGED <<loopVars, deviceVars, dev, rundownVars, stop, age>>

Release(g) ==
  /\ pc[g] \in {"release", "child"}
  /\ pc' = [pc EXCEPT ![g] = "free"]
  /\ dev' = [dev EXCEPT ![g] = 0]
  /\ refs' = refs - 1
  /\ UNCHANGED <<loopVars, deviceVars, rundown, stop, age>>

----------------------------------------------------------------------------
\* Stop forgets the module (so that only one Stop goes on) and closes
\* shutdownSignal; a Run that comes later finds no module.
StopSignal ==
  /\ stop = "idle"
  /\ stop' = "signalled"
  /\ UNCHANGED <<loopVars, deviceVars, goVars, rundownVars, age>>

\* r.Wait begins: no reference is given any more.
StopRundown ==
  /\ stop = "signalled"
  /\ rundown' = TRUE
  /\ stop' = "draining"
  /\ UNCHANGED <<loopVars, deviceVars, goVars, refs, age>>

\* Mutant: checkDone is closed without waiting.
StopWithoutWait ==
  /\ stop = "draining"
  /\ stop' = "stopped"
  /\ UNCHANGED <<loopVars, deviceVars, goVars, rundownVars, age>>

\* r.Wait returns and Stop closes checkDone.
StopDrained ==
  /\ stop = "draining"
  /\ refs = 0
  /\ stop' = "stopped"
  /\ UNCHANGED <<loopVars, deviceVars, goVars, rundownVars, age>>

\* The program is started again after a Stop.
Restart ==
  /\ stop = "stopped"
  /\ loop' = "off" /\ idx' = 0 /\ timeToWait' = -1 /\ elapsed' = 0 /\ waited' = 0
  /\ next' = [d \in Devices |-> 0]
  /\ inProgress' = [d \in Devices |-> FALSE]
  /\ pc' = [g \in Goroutines |-> "free"]
  /\ dev' = [g \in Goroutines |-> 0]
  /\ refs' = 0 /\ rundown' = FALSE /\ stop' = "idle"
  /\ age' = [d \in Devices |-> Horizon]

----------------------------------------------------------------------------
Later(t) == IF t < Horizon THEN t + 1 ELSE t

Tick ==
  /\ Cardinality(At("signal")) <= MaxBacklog
  /\ age' = [d \in Devices |-> Later(age[d])]
  /\ waited' = IF loop = "wait" THEN Later(waited) ELSE waited
  /\ UNCHANGED <<loop, idx, timeToWait, elapsed, deviceVars, goVars,
                 rundownVars, stop>>

----------------------------------------------------------------------------
RunStep == RunEnter \/ RunAcquire
LoopStep == Scan \/ BeginWait \/ VisitBusy \/ VisitDue \/ VisitNotDue \/ EndVisit
Select == WaitTimer \/ WaitShutdown \/ \E g \in Goroutines : WaitCheckDone(g)
CheckStep ==
  \E g \in Goroutines :
    \/ \E h \in Goroutines : Spawn(g, h)
    \/ Finish(g)
    \/ GiveUpSignal(g)
    \/ Release(g)
StopStep == StopSignal \/ StopRundown \/ StopDrained

CheckerNext ==
  RunStep \/ LoopStep \/ Select \/ CheckStep \/ StopStep \/ Restart \/ Tick

CheckerSpec == CheckerInit /\ [][CheckerNext]_checkerVars

(***************************************************************************)
(* Goroutines that can run are run.  The select statement picks one of the *)
(* ready cases at random, so a case that is ready again and again is taken *)
(* some time; a measurement ends (the operating system answers).  Nothing  *)
(* makes the user call Stop, or start the program again.                   *)
(***************************************************************************)
CheckerFairness ==
  /\ WF_checkerVars(RunStep)
  /\ WF_checkerVars(LoopStep)
  /\ SF_checkerVars(WaitTimer)
  /\ SF_checkerVars(WaitShutdown)
  /\ \A g \in Goroutines :
       /\ SF_checkerVars(WaitCheckDone(g))
       /\ WF_checkerVars(Finish(g))
       /\ WF_checkerVars(GiveUpSignal(g) \/ Release(g))
  /\ WF_checkerVars(StopRundown \/ StopDrained)
  /\ WF_checkerVars(Tick)

FairCheckerSpec == CheckerSpec /\ CheckerFairness

----------------------------------------------------------------------------
CheckerTypeOK ==
  /\ loop \in LoopPoints
  /\ idx \in 0 .. N
  /\ timeToWait \in -1 .. Horizon
  /\ elapsed \in 0 .. Horizon
  /\ waited \in 0 .. Horizon
  /\ next \in [Devices -> -1 .. Horizon]
  /\ inProgress \in [Devices -> BOOLEAN]
  /\ pc \in [Goroutines -> GoPoints]
  /\ dev \in [Goroutines -> 0 .. N]
  /\ refs \in Nat
  /\ rundown \in BOOLEAN
  /\ stop \in StopPoints
  /\ age \in [Devices -> 0 .. Horizon]

\* A device is never checked again before its CheckPeriod has gone by, whatever
\* mixture of timers and ended checks made the loop count its time down
\* (checkDevices, Run).
CheckSpacing ==
  [][\A d \in Devices :
       (~inProgress[d] /\ inProgress'[d]) => age[d] >= CheckPeriod[d]]_checkerVars

\* CheckInProgress is up exactly while one goroutine, and no second one, checks
\* the device (the compare-and-swap of checkDevices).
OneCheckPerDevice ==
  /\ \A d \in Devices : inProgress[d] <=> \E g \in At("measure") : dev[g] = d
  /\ \A g, h \in At("measure") : dev[g] = dev[h] => g = h

\* The references are those of the loop and of the goroutines alive: none is
\* leaked on an early return and none is given back twice.
RefsAreExact ==
  refs = Cardinality(Alive) + (IF Running THEN 1 ELSE 0)

\* When Stop closes checkDone nobody can send on it or receive from it, and no
\* goroutine of the module is left: a send would be a panic.
QuietWhenClosed ==
  stop = "stopped" => (Alive = {} /\ ~Running /\ \A d \in Devices : ~inProgress[d])

\* The loop and its goroutines use the rundown protection as module Rundown promises
\* it: the calls that hold it are they themselves, none takes it once Stop has begun
\* the rundown, and Stop closes checkDone when the last has given it back.  A new life
\* of the program has a new one.
Call(g) == <<"check", g>>
RunCall == <<"run", 0>>
Holders == {Call(g) : g \in Alive} \cup (IF Running THEN {RunCall} ELSE {})

Protection == INSTANCE Rundown WITH
  Calls <- {Call(g) : g \in Goroutines} \cup {RunCall},
  active <- rundown,
  holders <- Holders,
  drained <- stop = "stopped"

UsesRundown ==
  Protection!Init /\ [][Protection!Next \/ Restart]_(Protection!vars)

\* Stop returns: the loop and the checks that wait for each other on checkDone
\* all hear of the shutdown.
StopReturns == (stop = "signalled") ~> (stop = "stopped")

\* Every device of a running module is checked again and again, also when the
\* checks of the others keep ending.
CheckedForever ==
  \A d \in Devices : []<>((\E g \in At("measure") : dev[g] = d) \/ ShuttingDown)
=============================================================================
