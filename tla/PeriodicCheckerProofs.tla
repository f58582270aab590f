------------------------ MODULE PeriodicCheckerProofs ------------------------
(***************************************************************************)
(* What module PeriodicChecker states of the scheduler, proved for any     *)
(* number of devices, any periods and any number of goroutines.  IInv is   *)
(* inductive; its parts are proved one after the other, each from those    *)
(* that come before it.                                                    *)
(***************************************************************************)
EXTENDS PeriodicChecker, FiniteSetTheorems, TLAPS

\* The rundown is on exactly once Stop has asked for it.
RundownFollowsStop == rundown <=> stop \in {"draining", "stopped"}

\* A goroutine that measures has a device.
MeasuresDevice == \A g \in At("measure") : dev[g] \in Devices

\* The clock of the select starts anew before the devices are visited.
ClockIsReset == loop = "visit" => waited = 0

\* The part of its period that a device has been credited with: what was taken
\* off NextCheckPeriod, and what this visit, or the wait that goes on, will take.
Credit(d) ==
  CheckPeriod[d] - next[d]
    + (IF loop = "visit" THEN (IF d <= idx THEN elapsed ELSE 0) ELSE waited)

\* No device is credited with more time than went by since its last check.
CreditIsEarned ==
  \A d \in Devices : age[d] >= CheckPeriod[d] \/ Credit(d) <= age[d]

IInv ==
  /\ CheckerTypeOK
  /\ RefsAreExact
  /\ MeasuresDevice
  /\ OneCheckPerDevice
  /\ RundownFollowsStop
  /\ QuietWhenClosed
  /\ ClockIsReset
  /\ CreditIsEarned

----------------------------------------------------------------------------
\* A nonempty set of numbers has a least one.
LEMMA LeastExists ==
  ASSUME NEW S \in SUBSET Nat, S # {}
  PROVE  \E x \in S : \A y \in S : x =< y
<1> DEFINE R == {ss \in Nat \X Nat : ss[1] < ss[2]}
<1>1. IsWellFoundedOn(R, Nat)
  BY NatLessThanWellFounded DEF OpToRel
<1>2. PICK x \in S : \A y \in S : ~(<<y, x>> \in R)
  BY <1>1, WFMin, Zenon
<1>3. \A y \in S : ~(y < x)
  BY <1>2
<1>4. QED
  BY <1>3

\* The goroutines alive are finitely many.
LEMMA AliveIsFinite ==
  /\ IsFiniteSet(Alive)
  /\ Cardinality(Alive) \in Nat
  /\ Cardinality(Alive) = 0 <=> Alive = {}
<1>1. Alive \in SUBSET Goroutines
  BY DEF Alive
<1>2. IsFiniteSet(Alive)
  BY <1>1, CheckerAssumption, FS_Subset
<1>3. QED
  BY <1>2, FS_CardinalityType, FS_EmptySet

\* One more goroutine alive.
LEMMA Started ==
  ASSUME CheckerTypeOK, NEW g \in Goroutines, pc[g] = "free",
         NEW point \in GoPoints \ {"free"}, pc' = [pc EXCEPT ![g] = point]
  PROVE  Cardinality(Alive') = Cardinality(Alive) + 1
<1>1. Alive' = Alive \cup {g} /\ g \notin Alive
  BY DEF Alive, Free, At, CheckerTypeOK
<1>2. QED
  BY <1>1, AliveIsFinite, FS_AddElement

\* One goroutine less.
LEMMA Ended ==
  ASSUME CheckerTypeOK, NEW g \in Goroutines, pc[g] # "free",
         pc' = [pc EXCEPT ![g] = "free"]
  PROVE  Cardinality(Alive') = Cardinality(Alive) - 1 /\ Cardinality(Alive) > 0
<1>1. Alive' = Alive \ {g} /\ g \in Alive
  BY DEF Alive, Free, At, CheckerTypeOK
<1>2. QED
  BY <1>1, AliveIsFinite, FS_RemoveElement

\* A goroutine that goes on is as alive as before.
LEMMA WentOn ==
  ASSUME CheckerTypeOK, NEW g \in Goroutines, pc[g] # "free",
         NEW point \in GoPoints \ {"free"}, pc' = [pc EXCEPT ![g] = point]
  PROVE  Alive' = Alive
BY DEF Alive, Free, At, CheckerTypeOK

----------------------------------------------------------------------------
\* The references: a step changes their number as it changes who is alive.
LEMMA RefsStep ==
  ASSUME CheckerTypeOK, RefsAreExact, [CheckerNext]_checkerVars
  PROVE  RefsAreExact'
<1> USE DEF RefsAreExact
<1>1. CASE RunEnter \/ Scan \/ BeginWait \/ WaitTimer \/ VisitBusy \/ VisitNotDue
           \/ EndVisit \/ StopStep \/ Tick \/ UNCHANGED checkerVars
  <2>1. pc' = pc /\ refs' = refs /\ (Running' <=> Running)
    BY <1>1 DEF RunEnter, Scan, BeginWait, WaitTimer, BeginVisit, VisitBusy,
                VisitNotDue, EndVisit, BeginScan, StopStep, StopSignal, StopRundown,
                StopDrained, Tick, Running, checkerVars, loopVars, goVars,
                rundownVars
  <2>2. Alive' = Alive
    BY <2>1 DEF Alive, Free, At
  <2>3. QED
    BY <2>1, <2>2
<1>2. CASE RunAcquire
  <2>1. pc' = pc /\ ~Running
    BY <1>2 DEF RunAcquire, Running, goVars
  <2>2. Alive' = Alive
    BY <2>1 DEF Alive, Free, At
  <2>3. QED
    BY <1>2, <2>1, <2>2, AliveIsFinite DEF RunAcquire, BeginScan, Running
<1>3. ASSUME NEW g \in Goroutines, WaitCheckDone(g) PROVE RefsAreExact'
  <2>1. Alive' = Alive
    BY <1>3, WentOn DEF WaitCheckDone, GoPoints
  <2>2. refs' = refs /\ Running /\ Running'
    BY <1>3 DEF WaitCheckDone, BeginVisit, Running, rundownVars
  <2>3. QED
    BY <2>1, <2>2
<1>4. CASE WaitShutdown
  <2>1. pc' = pc /\ Running /\ ~Running' /\ refs' = refs - 1
    BY <1>4 DEF WaitShutdown, Running, goVars
  <2>2. Alive' = Alive
    BY <2>1 DEF Alive, Free, At
  <2>3. QED
    BY <2>1, <2>2, AliveIsFinite
<1>5. CASE VisitDue
  <2>1. Running /\ Running'
    BY <1>5 DEF VisitDue, Running
  <2>2. CASE rundown
    <3>1. pc' = pc /\ refs' = refs
      BY <1>5, <2>2 DEF VisitDue, goVars
    <3>2. Alive' = Alive
      BY <3>1 DEF Alive, Free, At
    <3>3. QED
      BY <2>1, <3>1, <3>2
  <2>3. CASE ~rundown
    <3>1. PICK g \in Goroutines :
            pc[g] = "free" /\ pc' = [pc EXCEPT ![g] = "measure"]
      BY <1>5, <2>3 DEF VisitDue, Free, At
    <3>2. refs' = refs + 1
      BY <1>5, <2>3 DEF VisitDue
    <3>3. Cardinality(Alive') = Cardinality(Alive) + 1
      BY <3>1, Started DEF GoPoints
    <3>4. QED
      BY <2>1, <3>2, <3>3, AliveIsFinite
  <2>4. QED
    BY <2>2, <2>3
<1>6. ASSUME NEW g \in Goroutines, NEW h \in Goroutines, Spawn(g, h)
      PROVE  RefsAreExact'
  <2>1. Cardinality(Alive') = Cardinality(Alive) + 1
    BY <1>6, Started DEF Spawn, GoPoints
  <2>2. refs' = refs + 1 /\ (Running' <=> Running)
    BY <1>6 DEF Spawn, Running, loopVars
  <2>3. QED
    BY <2>1, <2>2, AliveIsFinite
<1>7. ASSUME NEW g \in Goroutines, Finish(g) \/ GiveUpSignal(g)
      PROVE  RefsAreExact'
  <2>1. Alive' = Alive
    BY <1>7, WentOn DEF Finish, GiveUpSignal, GoPoints
  <2>2. refs' = refs /\ (Running' <=> Running)
    BY <1>7 DEF Finish, GiveUpSignal, Running, loopVars, rundownVars
  <2>3. QED
    BY <2>1, <2>2
<1>8. ASSUME NEW g \in Goroutines, Release(g) PROVE RefsAreExact'
  <2>1. Cardinality(Alive') = Cardinality(Alive) - 1
    BY <1>8, Ended DEF Release
  <2>2. refs' = refs - 1 /\ (Running' <=> Running)
    BY <1>8 DEF Release, Running, loopVars
  <2>3. QED
    BY <2>1, <2>2, AliveIsFinite
<1>9. CASE Restart
  <2>1. Alive' = {}
    BY <1>9 DEF Restart, Alive, Free, At
  <2>2. refs' = 0 /\ ~Running'
    BY <1>9 DEF Restart, Running
  <2>3. QED
    BY <2>1, <2>2, FS_EmptySet
<1>10. QED
  BY <1>1, <1>2, <1>3, <1>4, <1>5, <1>6, <1>7, <1>8, <1>9
     DEF CheckerNext, RunStep, LoopStep, Select, CheckStep

----------------------------------------------------------------------------
\* The types, in four groups.  The loop's clock and the times it hands to the
\* devices stay below Horizon, and what is taken off NextCheckPeriod never takes
\* it below zero.
LoopTypes ==
  /\ loop \in LoopPoints
  /\ idx \in 0 .. N
  /\ timeToWait \in -1 .. Horizon
  /\ elapsed \in 0 .. Horizon
  /\ waited \in 0 .. Horizon

DeviceTypes ==
  /\ next \in [Devices -> -1 .. Horizon]
  /\ inProgress \in [Devices -> BOOLEAN]
  /\ age \in [Devices -> 0 .. Horizon]

GoTypes ==
  /\ pc \in [Goroutines -> GoPoints]
  /\ dev \in [Goroutines -> 0 .. N]

StopTypes == refs \in Nat /\ rundown \in BOOLEAN /\ stop \in StopPoints

\* The type invariant is the conjunction of the groups.
LEMMA TypeGroups ==
  CheckerTypeOK <=> LoopTypes /\ DeviceTypes /\ GoTypes /\ StopTypes
BY DEF CheckerTypeOK, LoopTypes, DeviceTypes, GoTypes, StopTypes

\* The same in the next state.
LEMMA TypeGroupsNext ==
  CheckerTypeOK' <=> LoopTypes' /\ DeviceTypes' /\ GoTypes' /\ StopTypes'
BY DEF CheckerTypeOK, LoopTypes, DeviceTypes, GoTypes, StopTypes

\* A device number is one of the indices that the loop goes through.
LEMMA IndexIsDevice ==
  ASSUME LoopTypes, idx > 0
  PROVE  idx \in Devices /\ idx - 1 \in 0 .. N
BY CheckerAssumption DEF LoopTypes, Devices

\* The loop keeps its types.
LEMMA LoopTypesStep ==
  ASSUME LoopTypes, DeviceTypes, [CheckerNext]_checkerVars
  PROVE  LoopTypes'
<1> USE DEF LoopTypes, LoopPoints
<1>1. N \in Nat /\ Horizon \in Nat
  BY CheckerAssumption
<1>2. CASE RunStep
  BY <1>1, <1>2 DEF RunStep, RunEnter, RunAcquire, BeginScan
<1>3. CASE Scan
  <2>1. next[idx] \in -1 .. Horizon
    BY <1>3, IndexIsDevice DEF Scan, DeviceTypes
  <2>2. QED
    BY <1>3, <2>1, IndexIsDevice DEF Scan
<1>4. CASE BeginWait \/ WaitShutdown
  BY <1>4 DEF BeginWait, WaitShutdown
<1>5. CASE WaitTimer \/ \E g \in Goroutines : WaitCheckDone(g)
  BY <1>1, <1>5 DEF WaitTimer, WaitCheckDone, BeginVisit
<1>6. CASE VisitBusy \/ VisitDue \/ VisitNotDue
  BY <1>6, IndexIsDevice DEF VisitBusy, VisitDue, VisitNotDue
<1>7. CASE EndVisit
  BY <1>1, <1>7 DEF EndVisit, BeginScan
<1>8. CASE CheckStep \/ StopStep \/ UNCHANGED checkerVars
  BY <1>8 DEF CheckStep, Spawn, Finish, GiveUpSignal, Release, StopStep,
              StopSignal, StopRundown, StopDrained, loopVars, checkerVars
<1>9. CASE Restart
  BY <1>1, <1>9 DEF Restart
<1>10. CASE Tick
  BY <1>1, <1>10 DEF Tick, Later
<1>11. QED
  BY <1>2, <1>3, <1>4, <1>5, <1>6, <1>7, <1>8, <1>9, <1>10
     DEF CheckerNext, LoopStep, Select

\* The devices keep their types: VisitNotDue subtracts only what is less.
LEMMA DeviceTypesStep ==
  ASSUME LoopTypes, DeviceTypes, [CheckerNext]_checkerVars
  PROVE  DeviceTypes'
<1> USE DEF DeviceTypes
<1>1. CASE \/ RunStep \/ Scan \/ BeginWait \/ Select \/ VisitBusy \/ EndVisit
           \/ StopStep \/ UNCHANGED checkerVars
  BY <1>1 DEF RunStep, RunEnter, RunAcquire, Scan, BeginWait, Select, WaitTimer,
              WaitShutdown, WaitCheckDone, VisitBusy, EndVisit, StopStep,
              StopSignal, StopRundown, StopDrained, deviceVars, checkerVars
<1>2. CASE VisitDue
  <2>1. CheckPeriod[idx] \in -1 .. Horizon
    BY <1>2, IndexIsDevice, CheckerAssumption DEF VisitDue
  <2>2. next' \in [Devices -> -1 .. Horizon]
    BY <1>2, <2>1 DEF VisitDue
  <2>3. inProgress' \in [Devices -> BOOLEAN]
    BY <1>2 DEF VisitDue
  <2>4. 0 \in 0 .. Horizon
    BY CheckerAssumption
  <2>5. age' \in [Devices -> 0 .. Horizon]
    BY <1>2, <2>4 DEF VisitDue
  <2>6. QED
    BY <2>2, <2>3, <2>5
<1>3. CASE VisitNotDue
  <2>1. next[idx] - elapsed \in -1 .. Horizon
    BY <1>3, IndexIsDevice, CheckerAssumption DEF VisitNotDue, LoopTypes
  <2>2. next' \in [Devices -> -1 .. Horizon]
    BY <1>3, <2>1 DEF VisitNotDue
  <2>3. UNCHANGED <<inProgress, age>>
    BY <1>3 DEF VisitNotDue
  <2>4. QED
    BY <2>2, <2>3
<1>4. CASE CheckStep
  BY <1>4 DEF CheckStep, Spawn, Finish, GiveUpSignal, Release, deviceVars
<1>5. CASE Restart
  <2>1. Horizon \in 0 .. Horizon /\ 0 \in -1 .. Horizon
    BY CheckerAssumption
  <2>2. QED
    BY <1>5, <2>1 DEF Restart
<1>6. CASE Tick
  <2>1. \A t \in 0 .. Horizon : Later(t) \in 0 .. Horizon
    BY CheckerAssumption DEF Later
  <2>2. age' \in [Devices -> 0 .. Horizon] /\ UNCHANGED deviceVars
    BY <1>6, <2>1 DEF Tick
  <2>3. QED
    BY <2>2 DEF deviceVars
<1>7. QED
  BY <1>1, <1>2, <1>3, <1>4, <1>5, <1>6 DEF CheckerNext, LoopStep

\* The goroutines keep their types.
LEMMA GoTypesStep ==
  ASSUME LoopTypes, GoTypes, [CheckerNext]_checkerVars
  PROVE  GoTypes'
<1> USE DEF GoTypes, GoPoints
<1>1. 0 \in 0 .. N
  BY CheckerAssumption
<1>2. CASE \/ RunStep \/ Scan \/ BeginWait \/ WaitTimer \/ WaitShutdown
           \/ VisitBusy \/ VisitNotDue \/ EndVisit \/ StopStep \/ Tick
           \/ UNCHANGED checkerVars
  <2>1. UNCHANGED <<pc, dev>>
    BY <1>2 DEF RunStep, RunEnter, RunAcquire, Scan, BeginWait, WaitTimer,
                WaitShutdown, VisitBusy, VisitNotDue, EndVisit, StopStep,
                StopSignal, StopRundown, StopDrained, Tick, goVars, checkerVars
  <2>2. QED
    BY <2>1
<1>3. ASSUME NEW g \in Goroutines,
             WaitCheckDone(g) \/ Finish(g) \/ GiveUpSignal(g) \/ Release(g)
      PROVE  GoTypes'
  <2>1. pc' \in [Goroutines -> GoPoints]
    BY <1>3 DEF WaitCheckDone, Finish, GiveUpSignal, Release
  <2>2. dev' \in [Goroutines -> 0 .. N]
    BY <1>1, <1>3 DEF WaitCheckDone, Finish, GiveUpSignal, Release
  <2>3. QED
    BY <2>1, <2>2
<1>4. CASE VisitDue
  BY <1>4 DEF VisitDue, LoopTypes, goVars
<1>5. ASSUME NEW g \in Goroutines, NEW h \in Goroutines, Spawn(g, h)
      PROVE  GoTypes'
  BY <1>5 DEF Spawn
<1>6. CASE Restart
  <2>1. pc' \in [Goroutines -> GoPoints]
    BY <1>6 DEF Restart
  <2>2. dev' \in [Goroutines -> 0 .. N]
    BY <1>1, <1>6 DEF Restart
  <2>3. QED
    BY <2>1, <2>2
<1>7. QED
  BY <1>2, <1>3, <1>4, <1>5, <1>6 DEF CheckerNext, LoopStep, Select, CheckStep

\* The rundown keeps its types: nothing is given back that was not taken.
LEMMA StopTypesStep ==
  ASSUME StopTypes, CheckerTypeOK, RefsAreExact, [CheckerNext]_checkerVars
  PROVE  StopTypes'
<1>1. refs' \in Nat
  <2>1. RefsAreExact'
    BY RefsStep
  <2>2. Alive' \in SUBSET Goroutines
    BY DEF Alive
  <2>3. Cardinality(Alive') \in Nat
    BY <2>2, CheckerAssumption, FS_Subset, FS_CardinalityType
  <2>4. QED
    BY <2>1, <2>3 DEF RefsAreExact
<1>2. rundown' \in BOOLEAN /\ stop' \in StopPoints
  BY DEF StopTypes, StopPoints, CheckerNext, RunStep, RunEnter, RunAcquire,
         LoopStep, Scan, BeginWait, VisitBusy, VisitDue, VisitNotDue, EndVisit,
         Select, WaitTimer, WaitShutdown, WaitCheckDone, CheckStep, Spawn, Finish,
         GiveUpSignal, Release, StopStep, StopSignal, StopRundown, StopDrained,
         Restart, Tick, rundownVars, checkerVars
<1>3. QED
  BY <1>1, <1>2 DEF StopTypes

\* Every step keeps the types.
LEMMA TypeStep ==
  ASSUME CheckerTypeOK, RefsAreExact, [CheckerNext]_checkerVars
  PROVE  CheckerTypeOK'
BY TypeGroups, TypeGroupsNext, LoopTypesStep, DeviceTypesStep, GoTypesStep,
   StopTypesStep

----------------------------------------------------------------------------
\* One check per device: only the visit of a device whose flag is down starts a
\* check of it, and only the end of that check takes the flag down.
LEMMA OneCheckStep ==
  ASSUME CheckerTypeOK, MeasuresDevice, OneCheckPerDevice,
         [CheckerNext]_checkerVars
  PROVE  MeasuresDevice' /\ OneCheckPerDevice'
<1> USE DEF CheckerTypeOK, MeasuresDevice, OneCheckPerDevice, At
<1>1. CASE \/ RunStep \/ Scan \/ BeginWait \/ WaitTimer \/ WaitShutdown
           \/ VisitBusy \/ VisitNotDue \/ EndVisit \/ StopStep \/ Tick
           \/ UNCHANGED checkerVars
  <2>1. UNCHANGED <<pc, dev, inProgress>>
    BY <1>1 DEF RunStep, RunEnter, RunAcquire, Scan, BeginWait, WaitTimer,
                WaitShutdown, VisitBusy, VisitNotDue, EndVisit, StopStep,
                StopSignal, StopRundown, StopDrained, Tick, checkerVars,
                deviceVars, goVars
  <2>2. QED
    BY <2>1
<1>2. ASSUME NEW g \in Goroutines,
             WaitCheckDone(g) \/ GiveUpSignal(g) \/ Release(g)
      PROVE  MeasuresDevice' /\ OneCheckPerDevice'
  <2>1. /\ \A h \in Goroutines : pc'[h] = "measure" <=> pc[h] = "measure"
        /\ \A h \in At("measure") : dev'[h] = dev[h]
        /\ inProgress' = inProgress
    BY <1>2 DEF WaitCheckDone, BeginVisit, GiveUpSignal, Release, deviceVars
  <2>2. QED
    BY <2>1
<1>3. CASE VisitDue
  <2>1. CASE rundown
    BY <1>3, <2>1 DEF VisitDue, goVars
  <2>2. CASE ~rundown
    <3>1. PICK g \in Goroutines :
            /\ pc[g] = "free"
            /\ pc' = [pc EXCEPT ![g] = "measure"]
            /\ dev' = [dev EXCEPT ![g] = idx]
      BY <1>3, <2>2 DEF VisitDue, Free
    <3>2. /\ idx \in Devices
          /\ ~inProgress[idx]
          /\ inProgress' = [inProgress EXCEPT ![idx] = TRUE]
      BY <1>3, <2>2, CheckerAssumption DEF VisitDue, Due, Devices
    <3>3. \A h \in At("measure") : dev[h] # idx
      BY <3>2
    <3>4. \A h \in Goroutines : /\ pc'[h] = "measure" <=> (pc[h] = "measure" \/ h = g)
                                /\ dev'[h] = IF h = g THEN idx ELSE dev[h]
      BY <3>1
    <3>5. At("measure")' = At("measure") \cup {g} /\ g \notin At("measure")
      BY <3>1
    <3>6. MeasuresDevice'
      BY <3>2, <3>4, <3>5
    <3>7. \A d \in Devices : inProgress'[d] <=> (inProgress[d] \/ d = idx)
      BY <3>2
    <3>8. OneCheckPerDevice'
      BY <3>1, <3>2, <3>3, <3>4, <3>7
    <3>9. QED
      BY <3>6, <3>8
  <2>3. QED
    BY <2>1, <2>2
<1>4. ASSUME NEW g \in Goroutines, NEW h \in Goroutines, Spawn(g, h)
      PROVE  MeasuresDevice' /\ OneCheckPerDevice'
  <2>1. /\ \A k \in Goroutines : pc'[k] = "measure" <=> pc[k] = "measure"
        /\ \A k \in At("measure") : dev'[k] = dev[k]
        /\ inProgress' = inProgress
    BY <1>4 DEF Spawn, deviceVars
  <2>2. QED
    BY <2>1
<1>5. ASSUME NEW g \in Goroutines, Finish(g)
      PROVE  MeasuresDevice' /\ OneCheckPerDevice'
  <2>1. /\ g \in At("measure")
        /\ dev[g] \in Devices
        /\ inProgress' = [inProgress EXCEPT ![dev[g]] = FALSE]
    BY <1>5 DEF Finish
  <2>2. \A h \in Goroutines : /\ pc'[h] = "measure" <=> (pc[h] = "measure" /\ h # g)
                              /\ h # g => dev'[h] = dev[h]
    BY <1>5 DEF Finish
  <2>3. \A h \in At("measure") : h # g => dev[h] # dev[g]
    BY <2>1
  <2>4. QED
    BY <2>1, <2>2, <2>3
<1>6. CASE Restart
  BY <1>6 DEF Restart
<1>7. QED
  BY <1>1, <1>2, <1>3, <1>4, <1>5, <1>6
     DEF CheckerNext, LoopStep, Select, CheckStep

----------------------------------------------------------------------------
\* Only Stop turns the rundown on, and only a new start turns it off.
LEMMA RundownStep ==
  ASSUME RundownFollowsStop, [CheckerNext]_checkerVars
  PROVE  RundownFollowsStop'
<1> USE DEF RundownFollowsStop
<1>1. CASE StopStep
  BY <1>1 DEF StopStep, StopSignal, StopRundown, StopDrained, rundownVars
<1>2. CASE Restart
  BY <1>2 DEF Restart
<1>3. CASE \/ RunStep \/ LoopStep \/ Select \/ CheckStep \/ Tick
           \/ UNCHANGED checkerVars
  BY <1>3 DEF RunStep, RunEnter, RunAcquire, LoopStep, Scan, BeginWait, VisitBusy,
              VisitDue, VisitNotDue, EndVisit, Select, WaitTimer, WaitShutdown,
              WaitCheckDone, CheckStep, Spawn, Finish, GiveUpSignal, Release, Tick,
              rundownVars, checkerVars
<1>4. QED
  BY <1>1, <1>2, <1>3 DEF CheckerNext

\* Without a reference nobody is left, so nobody measures.
LEMMA NoRefsNobody ==
  ASSUME CheckerTypeOK, RefsAreExact, OneCheckPerDevice, refs = 0
  PROVE  Alive = {} /\ ~Running /\ \A d \in Devices : ~inProgress[d]
<1>1. Alive = {} /\ ~Running
  BY AliveIsFinite DEF RefsAreExact
<1>2. At("measure") = {}
  BY <1>1 DEF Alive, Free, At
<1>3. QED
  BY <1>1, <1>2 DEF OneCheckPerDevice, CheckerTypeOK

\* Once Stop has returned the rundown refuses every reference: nobody comes back.
LEMMA QuietStep ==
  ASSUME CheckerTypeOK, RefsAreExact, OneCheckPerDevice, RundownFollowsStop,
         QuietWhenClosed, [CheckerNext]_checkerVars
  PROVE  QuietWhenClosed'
<1> USE DEF QuietWhenClosed
<1>1. CASE stop = "stopped"
  <2>1. /\ \A g \in Goroutines : pc[g] = "free"
        /\ ~Running
        /\ rundown
    BY <1>1 DEF Alive, Free, At, RundownFollowsStop
  <2>2. CASE RunEnter \/ RunAcquire \/ StopStep \/ Tick \/ UNCHANGED checkerVars
    <3>1. UNCHANGED <<pc, inProgress>> /\ ~Running'
      BY <1>1, <2>1, <2>2
         DEF RunEnter, RunAcquire, StopStep, StopSignal, StopRundown, StopDrained,
             Tick, Running, ShuttingDown, deviceVars, goVars, loopVars, checkerVars
    <3>2. QED
      BY <1>1, <3>1 DEF Alive, Free, At
  <2>3. CASE Restart
    BY <2>3 DEF Restart
  <2>4. ~LoopStep /\ ~Select
    BY <2>1 DEF LoopStep, Scan, BeginWait, VisitBusy, VisitDue, VisitNotDue,
                EndVisit, Select, WaitTimer, WaitShutdown, WaitCheckDone, Running
  <2>5. ~CheckStep
    BY <2>1 DEF CheckStep, Spawn, Finish, GiveUpSignal, Release
  <2>6. QED
    BY <2>2, <2>3, <2>4, <2>5 DEF CheckerNext, RunStep
<1>2. CASE stop # "stopped"
  <2>1. CASE StopDrained
    <3>1. /\ UNCHANGED <<pc, inProgress, loop>>
          /\ Alive = {} /\ ~Running /\ \A d \in Devices : ~inProgress[d]
      BY <2>1, NoRefsNobody DEF StopDrained, deviceVars, goVars, loopVars
    <3>2. QED
      BY <3>1 DEF Alive, Free, At, Running
  <2>2. CASE ~StopDrained
    <3>1. stop' # "stopped"
      BY <1>2, <2>2
         DEF CheckerNext, RunStep, RunEnter, RunAcquire, LoopStep, Scan, BeginWait,
             VisitBusy, VisitDue, VisitNotDue, EndVisit, Select, WaitTimer,
             WaitShutdown, WaitCheckDone, CheckStep, Spawn, Finish, GiveUpSignal,
             Release, StopStep, StopSignal, StopRundown, Restart, Tick, checkerVars
    <3>2. QED
      BY <3>1
  <2>3. QED
    BY <2>1, <2>2
<1>3. QED
  BY <1>1, <1>2

\* The clock of the select runs in the select alone.
LEMMA ClockStep ==
  ASSUME ClockIsReset, [CheckerNext]_checkerVars
  PROVE  ClockIsReset'
BY DEF ClockIsReset, CheckerNext, RunStep, RunEnter, RunAcquire, BeginScan,
       LoopStep, Scan, BeginWait, VisitBusy, VisitDue, VisitNotDue, EndVisit,
       Select, WaitTimer, WaitShutdown, WaitCheckDone, BeginVisit, CheckStep,
       Spawn, Finish, GiveUpSignal, Release, StopStep, StopSignal, StopRundown,
       StopDrained, Restart, Tick, loopVars, checkerVars

----------------------------------------------------------------------------
\* The credit of a device that did not begin a check grows by no more than its
\* age does.
LEMMA StillEarned ==
  ASSUME CheckerTypeOK, CheckerTypeOK', CreditIsEarned,
         \A d \in Devices :
           \/ age'[d] >= CheckPeriod[d]
           \/ age'[d] >= age[d] /\ Credit(d)' <= Credit(d) + (age'[d] - age[d])
  PROVE  CreditIsEarned'
<1> SUFFICES ASSUME NEW d \in Devices
             PROVE  age'[d] >= CheckPeriod[d] \/ Credit(d)' <= age'[d]
  BY DEF CreditIsEarned
<1>1. /\ age[d] \in Int /\ age'[d] \in Int /\ CheckPeriod[d] \in Int
      /\ next[d] \in Int /\ next'[d] \in Int
  BY CheckerAssumption DEF CheckerTypeOK
<1>2. Credit(d) \in Int /\ Credit(d)' \in Int
  BY <1>1, CheckerAssumption DEF Credit, CheckerTypeOK
<1>3. age[d] >= CheckPeriod[d] \/ Credit(d) <= age[d]
  BY DEF CreditIsEarned
<1> HIDE DEF Credit
<1>4. QED
  BY <1>1, <1>2, <1>3

\* No step credits a device with time that did not go by.
LEMMA CreditStep ==
  ASSUME CheckerTypeOK, CheckerTypeOK', ClockIsReset, CreditIsEarned,
         [CheckerNext]_checkerVars
  PROVE  CreditIsEarned'
<1> DEFINE Kept(d) ==
      \/ age'[d] >= CheckPeriod[d]
      \/ age'[d] >= age[d] /\ Credit(d)' <= Credit(d) + (age'[d] - age[d])
<1>1. ASSUME NEW d \in Devices
      PROVE  /\ d \in Nat /\ age[d] \in 0 .. Horizon /\ CheckPeriod[d] \in -1 .. Horizon
             /\ next[d] \in -1 .. Horizon /\ next'[d] \in -1 .. Horizon
             /\ age'[d] \in 0 .. Horizon
  BY <1>1, CheckerAssumption DEF CheckerTypeOK, Devices
<1>2. /\ idx \in Int /\ elapsed \in Nat /\ waited \in Nat /\ N \in Nat
      /\ idx' \in Int /\ elapsed' \in Nat /\ waited' \in Nat /\ Horizon \in Nat
      /\ waited <= Horizon
  BY CheckerAssumption DEF CheckerTypeOK
<1>3. CASE RunStep \/ Scan \/ BeginWait \/ WaitShutdown \/ CheckStep \/ StopStep
           \/ UNCHANGED checkerVars
  <2>1. /\ UNCHANGED <<next, age, waited, elapsed>>
        /\ loop # "visit" => loop' # "visit"
        /\ loop = "visit" => loop' = "visit" /\ idx' = idx
    BY <1>3 DEF RunStep, RunEnter, RunAcquire, BeginScan, Scan, BeginWait,
                WaitShutdown, CheckStep, Spawn, Finish, GiveUpSignal, Release,
                StopStep, StopSignal, StopRundown, StopDrained, loopVars,
                deviceVars, checkerVars
  <2>2. ASSUME NEW d \in Devices PROVE Kept(d)
    <3>1. Credit(d)' = Credit(d) /\ age'[d] = age[d]
      BY <2>1 DEF Credit
    <3>2. Credit(d) \in Int
      BY <1>1, <1>2 DEF Credit
    <3>3. QED
      BY <1>1, <3>1, <3>2
  <2>3. QED
    BY <2>2, StillEarned
<1>4. CASE WaitTimer \/ \E g \in Goroutines : WaitCheckDone(g)
  <2>1. /\ UNCHANGED <<next, age>>
        /\ loop = "wait" /\ loop' = "visit" /\ idx' = N /\ elapsed' <= waited
    BY <1>2, <1>4 DEF WaitTimer, WaitCheckDone, BeginVisit, deviceVars, CheckerTypeOK
  <2>2. ASSUME NEW d \in Devices PROVE Kept(d)
    BY <1>1, <1>2, <2>1 DEF Credit
  <2>3. QED
    BY <2>2, StillEarned
<1>5. CASE VisitBusy \/ EndVisit
  <2>1. /\ UNCHANGED <<next, age, waited>> /\ loop = "visit" /\ waited = 0
        /\ \/ loop' = "visit" /\ idx' = idx - 1 /\ elapsed' = elapsed
           \/ loop' = "scan"
    BY <1>5 DEF VisitBusy, EndVisit, BeginScan, deviceVars, ClockIsReset
  <2>2. ASSUME NEW d \in Devices PROVE Kept(d)
    BY <1>1, <1>2, <2>1 DEF Credit
  <2>3. QED
    BY <2>2, StillEarned
<1>6. CASE VisitNotDue
  <2>1. /\ loop = "visit" /\ loop' = "visit" /\ idx' = idx - 1
        /\ UNCHANGED <<age, elapsed>>
        /\ next' = [next EXCEPT ![idx] = next[idx] - elapsed]
    BY <1>6 DEF VisitNotDue
  <2>2. ASSUME NEW d \in Devices PROVE Kept(d)
    <3>1. next'[d] = IF d = idx THEN next[d] - elapsed ELSE next[d]
      BY <2>1 DEF CheckerTypeOK
    <3>2. QED
      BY <1>1, <1>2, <2>1, <3>1 DEF Credit
  <2>3. QED
    BY <2>2, StillEarned
<1>7. CASE VisitDue
  <2>1. /\ loop = "visit" /\ loop' = "visit" /\ idx' = idx - 1
        /\ elapsed' = elapsed
        /\ next' = [next EXCEPT ![idx] = CheckPeriod[idx]]
        /\ age' = [age EXCEPT ![idx] = 0] \/ age' = age
    BY <1>7 DEF VisitDue
  <2>2. ASSUME NEW d \in Devices
        PROVE  age'[d] >= CheckPeriod[d] \/ Credit(d)' <= age'[d]
    <3>1. CASE d = idx
      <4>1. next'[d] = CheckPeriod[d] /\ ~(d <= idx')
        BY <1>1, <1>2, <2>1, <3>1 DEF CheckerTypeOK
      <4>2. Credit(d)' = 0
        BY <1>1, <2>1, <4>1 DEF Credit
      <4>3. QED
        BY <1>1, <4>2
    <3>2. CASE d # idx
      <4>1. next'[d] = next[d] /\ age'[d] = age[d]
        BY <2>1, <3>2 DEF CheckerTypeOK
      <4>2. Credit(d)' <= Credit(d) /\ Credit(d) \in Int /\ Credit(d)' \in Int
        BY <1>1, <1>2, <2>1, <4>1 DEF Credit
      <4>3. age[d] >= CheckPeriod[d] \/ Credit(d) <= age[d]
        BY DEF CreditIsEarned
      <4>4. QED
        BY <1>1, <4>1, <4>2, <4>3
    <3>3. QED
      BY <3>1, <3>2
  <2>3. QED
    BY <2>2 DEF CreditIsEarned
<1>8. CASE Restart
  <2>1. ASSUME NEW d \in Devices PROVE age'[d] >= CheckPeriod[d]
    <3>1. age'[d] = Horizon
      BY <1>8 DEF Restart
    <3>2. QED
      BY <1>1, <1>2, <3>1
  <2>2. QED
    BY <2>1 DEF CreditIsEarned
<1>9. CASE Tick
  <2>1. /\ UNCHANGED <<loop, idx, elapsed, next>>
        /\ age' = [d \in Devices |-> Later(age[d])]
        /\ waited' = IF loop = "wait" THEN Later(waited) ELSE waited
    BY <1>9 DEF Tick, deviceVars
  <2>2. waited <= waited' /\ waited' <= waited + 1
    BY <1>2, <2>1 DEF Later
  <2>3. ASSUME NEW d \in Devices PROVE Kept(d)
    <3>1. age'[d] = Later(age[d])
      BY <2>1
    <3>2. age'[d] >= CheckPeriod[d] \/ age'[d] = age[d] + 1
      BY <1>1, <1>2, <3>1 DEF Later
    <3>3. Credit(d)' <= Credit(d) + 1
      BY <1>1, <1>2, <2>1, <2>2 DEF Credit
    <3>4. Credit(d) \in Int /\ Credit(d)' \in Int
      BY <1>1, <1>2 DEF Credit
    <3>5. QED
      BY <1>1, <3>2, <3>3, <3>4
  <2>4. QED
    BY <2>3, StillEarned
<1>10. QED
  BY <1>3, <1>4, <1>5, <1>6, <1>7, <1>8, <1>9
     DEF CheckerNext, LoopStep, Select

\* A check begins only when the whole period has been credited, hence has gone by.
LEMMA SpacingStep ==
  ASSUME CheckerTypeOK, CreditIsEarned, [CheckerNext]_checkerVars,
         NEW d \in Devices, ~inProgress[d], inProgress'[d]
  PROVE  age[d] >= CheckPeriod[d]
<1>1. ~(RunStep \/ Scan \/ BeginWait \/ EndVisit \/ VisitBusy \/ VisitNotDue
        \/ Select \/ StopStep \/ Tick \/ UNCHANGED checkerVars)
  BY DEF RunStep, RunEnter, RunAcquire, Scan, BeginWait, EndVisit, VisitBusy,
         VisitNotDue, Select, WaitTimer, WaitShutdown, WaitCheckDone, StopStep,
         StopSignal, StopRundown, StopDrained, Tick, deviceVars, checkerVars
<1>2. ~CheckStep /\ ~Restart
  BY DEF CheckStep, Spawn, Finish, GiveUpSignal, Release, Restart, deviceVars,
         CheckerTypeOK
<1>3. VisitDue
  BY <1>1, <1>2 DEF CheckerNext, LoopStep
<1>4. d = idx /\ loop = "visit" /\ elapsed >= next[d]
  BY <1>3 DEF VisitDue, Due, deviceVars, CheckerTypeOK
<1>5. Credit(d) >= CheckPeriod[d]
  BY <1>4, CheckerAssumption DEF Credit, CheckerTypeOK
<1>6. age[d] >= CheckPeriod[d] \/ Credit(d) <= age[d]
  BY DEF CreditIsEarned
<1>7. age[d] \in Int /\ CheckPeriod[d] \in Int /\ Credit(d) \in Int
  BY CheckerAssumption DEF Credit, CheckerTypeOK
<1>8. QED
  BY <1>5, <1>6, <1>7

----------------------------------------------------------------------------
(***************************************************************************)
(* The rundown protection is used as module Rundown promises it: a step    *)
(* that starts a goroutine is an Enter of its call, one that ends it a     *)
(* Leave, the loop is a call as well, and Stop begins and ends the rundown.*)
(***************************************************************************)
\* A step that changes neither the calls nor the rundown is a stutter.
LEMMA SameHolders ==
  ASSUME UNCHANGED rundown, Alive' = Alive, Running' <=> Running,
         stop' = "stopped" <=> stop = "stopped"
  PROVE  UNCHANGED Protection!vars
BY DEF Protection!vars, Holders

\* A goroutine that begins enters.
LEMMA StartEnters ==
  ASSUME CheckerTypeOK, NEW g \in Goroutines, pc[g] = "free", ~rundown,
         NEW point \in GoPoints \ {"free"}, pc' = [pc EXCEPT ![g] = point],
         UNCHANGED <<rundown, stop>>, Running' <=> Running
  PROVE  Protection!Next
<1>1. Alive' = Alive \cup {g} /\ g \notin Alive
  BY DEF Alive, Free, At, CheckerTypeOK
<1>2. Holders' = Holders \cup {Call(g)} /\ Call(g) \notin Holders
  BY <1>1 DEF Holders, Call, RunCall
<1>3. Protection!Enter(Call(g))
  BY <1>2 DEF Protection!Enter
<1>4. QED
  BY <1>3 DEF Protection!Next

\* A goroutine that ends leaves.
LEMMA EndLeaves ==
  ASSUME CheckerTypeOK, NEW g \in Goroutines, pc[g] # "free",
         pc' = [pc EXCEPT ![g] = "free"],
         UNCHANGED <<rundown, stop>>, Running' <=> Running
  PROVE  Protection!Next
<1>1. Alive' = Alive \ {g} /\ g \in Alive
  BY DEF Alive, Free, At, CheckerTypeOK
<1>2. Holders' = Holders \ {Call(g)} /\ Call(g) \in Holders
  BY <1>1 DEF Holders, Call, RunCall
<1>3. Protection!Leave(Call(g))
  BY <1>2 DEF Protection!Leave
<1>4. QED
  BY <1>3 DEF Protection!Next

\* The loop enters when it begins and leaves when it ends.
LEMMA LoopEnters ==
  ASSUME Alive' = Alive, UNCHANGED <<rundown, stop>>,
         \/ ~rundown /\ ~Running /\ Running'
         \/ Running /\ ~Running'
  PROVE  Protection!Next
<1>1. RunCall \notin {Call(g) : g \in Alive}
  BY DEF RunCall, Call
<1>2. CASE ~rundown /\ ~Running /\ Running'
  <2>1. Holders' = Holders \cup {RunCall} /\ RunCall \notin Holders
    BY <1>1, <1>2 DEF Holders, Call, RunCall
  <2>2. Protection!Enter(RunCall)
    BY <1>2, <2>1 DEF Protection!Enter
  <2>3. QED
    BY <2>2 DEF Protection!Next
<1>3. CASE Running /\ ~Running'
  <2>1. Holders' = Holders \ {RunCall} /\ RunCall \in Holders
    BY <1>1, <1>3 DEF Holders, Call, RunCall
  <2>2. Protection!Leave(RunCall)
    BY <2>1 DEF Protection!Leave
  <2>3. QED
    BY <2>2 DEF Protection!Next
<1>4. QED
  BY <1>2, <1>3

\* Every step is one of the abstract rundown, a stutter, or the start of a new life.
LEMMA UsesStep ==
  ASSUME IInv, [CheckerNext]_checkerVars
  PROVE  [Protection!Next \/ Restart]_(Protection!vars)
<1> USE DEF IInv
<1>1. CASE RunEnter \/ Scan \/ BeginWait \/ WaitTimer \/ VisitBusy \/ VisitNotDue
           \/ EndVisit \/ StopSignal \/ Tick \/ UNCHANGED checkerVars
  <2>1. /\ UNCHANGED <<pc, rundown>>
        /\ Running' <=> Running
        /\ stop' = "stopped" <=> stop = "stopped"
    BY <1>1 DEF RunEnter, Scan, BeginWait, WaitTimer, BeginVisit, VisitBusy,
                VisitNotDue, EndVisit, BeginScan, StopSignal, Tick, Running,
                checkerVars, loopVars, goVars, rundownVars
  <2>2. Alive' = Alive
    BY <2>1 DEF Alive, Free, At
  <2>3. QED
    BY <2>1, <2>2, SameHolders
<1>2. CASE RunAcquire
  <2>1. pc' = pc /\ ~Running /\ UNCHANGED <<rundown, stop>>
    BY <1>2 DEF RunAcquire, Running, goVars
  <2>2. Alive' = Alive
    BY <2>1 DEF Alive, Free, At
  <2>3. CASE ~rundown
    <3>1. Running'
      BY <1>2, <2>3 DEF RunAcquire, BeginScan, Running
    <3>2. QED
      BY <2>1, <2>2, <2>3, <3>1, LoopEnters
  <2>4. CASE rundown
    <3>1. ~Running'
      BY <1>2, <2>4 DEF RunAcquire, Running
    <3>2. QED
      BY <2>1, <2>2, <3>1, SameHolders
  <2>5. QED
    BY <2>3, <2>4
<1>3. ASSUME NEW g \in Goroutines, WaitCheckDone(g) \/ Finish(g) \/ GiveUpSignal(g)
      PROVE  UNCHANGED Protection!vars
  <2>1. Alive' = Alive
    BY <1>3, WentOn DEF WaitCheckDone, Finish, GiveUpSignal, GoPoints
  <2>2. UNCHANGED <<rundown, stop>> /\ (Running' <=> Running)
    BY <1>3 DEF WaitCheckDone, Finish, GiveUpSignal, BeginVisit, Running, rundownVars,
                loopVars
  <2>3. QED
    BY <2>1, <2>2, SameHolders
<1>4. CASE WaitShutdown
  <2>1. pc' = pc /\ Running /\ ~Running' /\ UNCHANGED <<rundown, stop>>
    BY <1>4 DEF WaitShutdown, Running, goVars
  <2>2. Alive' = Alive
    BY <2>1 DEF Alive, Free, At
  <2>3. QED
    BY <2>1, <2>2, LoopEnters
<1>5. CASE VisitDue
  <2>1. Running /\ Running' /\ UNCHANGED <<rundown, stop>>
    BY <1>5 DEF VisitDue, Running
  <2>2. CASE rundown
    <3>1. pc' = pc
      BY <1>5, <2>2 DEF VisitDue, goVars
    <3>2. Alive' = Alive
      BY <3>1 DEF Alive, Free, At
    <3>3. QED
      BY <2>1, <3>2, SameHolders
  <2>3. CASE ~rundown
    <3>1. PICK g \in Goroutines :
            pc[g] = "free" /\ pc' = [pc EXCEPT ![g] = "measure"]
      BY <1>5, <2>3 DEF VisitDue, Free, At
    <3>2. QED
      BY <2>1, <2>3, <3>1, StartEnters DEF GoPoints
  <2>4. QED
    BY <2>2, <2>3
<1>6. ASSUME NEW g \in Goroutines, NEW h \in Goroutines, Spawn(g, h)
      PROVE  Protection!Next
  <2>1. /\ pc[h] = "free" /\ ~rundown /\ pc' = [pc EXCEPT ![h] = "child"]
        /\ UNCHANGED <<rundown, stop>> /\ (Running' <=> Running)
    BY <1>6 DEF Spawn, Running, loopVars
  <2>2. QED
    BY <2>1, StartEnters DEF GoPoints
<1>7. ASSUME NEW g \in Goroutines, Release(g) PROVE Protection!Next
  <2>1. /\ pc[g] # "free" /\ pc' = [pc EXCEPT ![g] = "free"]
        /\ UNCHANGED <<rundown, stop>> /\ (Running' <=> Running)
    BY <1>7 DEF Release, Running, loopVars
  <2>2. QED
    BY <2>1, EndLeaves
<1>8. CASE StopRundown
  <2>1. Holders' = Holders
    BY <1>8 DEF StopRundown, Holders, Alive, Free, At, Running, goVars, loopVars
  <2>2. Protection!Begin
    BY <1>8, <2>1 DEF StopRundown, RundownFollowsStop, Protection!Begin
  <2>3. QED
    BY <2>2 DEF Protection!Next
<1>9. CASE StopDrained
  <2>1. Holders' = Holders
    BY <1>9 DEF StopDrained, Holders, Alive, Free, At, Running, goVars, loopVars
  <2>2. Holders = {}
    BY <1>9, NoRefsNobody DEF StopDrained, Holders
  <2>3. Protection!End
    BY <1>9, <2>1, <2>2 DEF StopDrained, RundownFollowsStop, rundownVars, Protection!End
  <2>4. QED
    BY <2>3 DEF Protection!Next
<1>10. QED
  BY <1>1, <1>2, <1>3, <1>4, <1>5, <1>6, <1>7, <1>8, <1>9
     DEF CheckerNext, RunStep, LoopStep, Select, CheckStep, StopStep

----------------------------------------------------------------------------
\* The program starts with nothing credited that was not earned.
LEMMA InitIInv == CheckerInit => IInv
<1> SUFFICES ASSUME CheckerInit PROVE IInv
  OBVIOUS
<1>1. N \in Nat /\ Horizon \in Nat
  BY CheckerAssumption
<1>2. LoopTypes /\ StopTypes
  <2>1. -1 \in -1 .. Horizon /\ 0 \in 0 .. Horizon /\ 0 \in 0 .. N
    BY <1>1
  <2>2. LoopTypes
    BY <2>1 DEF CheckerInit, LoopTypes, LoopPoints
  <2>3. StopTypes
    BY DEF CheckerInit, StopTypes, StopPoints
  <2>4. QED
    BY <2>2, <2>3
<1>3. DeviceTypes
  <2>1. 0 \in -1 .. Horizon /\ Horizon \in 0 .. Horizon
    BY <1>1
  <2>2. QED
    BY <2>1 DEF CheckerInit, DeviceTypes
<1>4. GoTypes
  <2>1. 0 \in 0 .. N
    BY <1>1
  <2>2. pc \in [Goroutines -> GoPoints]
    BY DEF CheckerInit, GoPoints
  <2>3. dev \in [Goroutines -> 0 .. N]
    BY <2>1 DEF CheckerInit
  <2>4. QED
    BY <2>2, <2>3 DEF GoTypes
<1>5. CheckerTypeOK
  BY <1>2, <1>3, <1>4, TypeGroups
<1>6. Alive = {} /\ ~Running /\ refs = 0
  BY DEF CheckerInit, Alive, Free, At, Running
<1>7. RefsAreExact
  BY <1>6, FS_EmptySet DEF RefsAreExact
<1>8. MeasuresDevice /\ OneCheckPerDevice
  BY DEF CheckerInit, MeasuresDevice, OneCheckPerDevice, At
<1>9. RundownFollowsStop /\ QuietWhenClosed /\ ClockIsReset
  BY DEF CheckerInit, RundownFollowsStop, QuietWhenClosed, ClockIsReset
<1>10. CreditIsEarned
  <2>1. ASSUME NEW d \in Devices PROVE age[d] >= CheckPeriod[d]
    <3>1. age[d] = Horizon /\ CheckPeriod[d] \in -1 .. Horizon
      BY CheckerAssumption DEF CheckerInit
    <3>2. QED
      BY <1>1, <3>1
  <2>2. QED
    BY <2>1 DEF CreditIsEarned
<1>11. QED
  BY <1>5, <1>7, <1>8, <1>9, <1>10 DEF IInv

\* Every step keeps every part of the invariant.
LEMMA NextIInv == IInv /\ [CheckerNext]_checkerVars => IInv'
<1> SUFFICES ASSUME IInv, [CheckerNext]_checkerVars PROVE IInv'
  OBVIOUS
<1>1. CheckerTypeOK' /\ RefsAreExact'
  BY TypeStep, RefsStep DEF IInv
<1>2. MeasuresDevice' /\ OneCheckPerDevice'
  BY OneCheckStep DEF IInv
<1>3. RundownFollowsStop' /\ QuietWhenClosed'
  BY RundownStep, QuietStep DEF IInv
<1>4. ClockIsReset' /\ CreditIsEarned'
  BY <1>1, ClockStep, CreditStep DEF IInv
<1>5. QED
  BY <1>1, <1>2, <1>3, <1>4 DEF IInv

\* The inductive invariant of the scheduler.
THEOREM Invariance == CheckerSpec => []IInv
BY InitIInv, NextIInv, PTL DEF CheckerSpec

\* The scheduler's variables have their types: no NextCheckPeriod is taken below
\* zero, and no reference is given back that was not taken.
THEOREM TypeCorrect == CheckerSpec => []CheckerTypeOK
<1>1. IInv => CheckerTypeOK
  BY DEF IInv
<1>2. QED
  BY <1>1, Invariance, PTL

\* Every reference of Run, checkDevices and runSaveState is given back once.
THEOREM RefsCorrect == CheckerSpec => []RefsAreExact
<1>1. IInv => RefsAreExact
  BY DEF IInv
<1>2. QED
  BY <1>1, Invariance, PTL

\* No device is checked by two goroutines.
THEOREM OneCheck == CheckerSpec => []OneCheckPerDevice
<1>1. IInv => OneCheckPerDevice
  BY DEF IInv
<1>2. QED
  BY <1>1, Invariance, PTL

\* When Stop closes checkDone nobody is left to send on it.
THEOREM Quiet == CheckerSpec => []QuietWhenClosed
<1>1. IInv => QuietWhenClosed
  BY DEF IInv
<1>2. QED
  BY <1>1, Invariance, PTL

\* No device is checked again before its period has gone by, for any number of
\* devices and any periods.
THEOREM Spacing == CheckerSpec => CheckSpacing
<1>1. IInv /\ [CheckerNext]_checkerVars
        => [\A d \in Devices :
              (~inProgress[d] /\ inProgress'[d]) => age[d] >= CheckPeriod[d]]_checkerVars
  BY SpacingStep DEF IInv
<1>2. QED
  BY <1>1, Invariance, PTL DEF CheckerSpec, CheckSpacing

\* The loop and its goroutines take references of the rundown protection only before
\* the rundown, and Stop goes on only when all were given back (r.Acquire, r.Release
\* and r.Wait of the three checkers).
THEOREM Protected == CheckerSpec => UsesRundown
<1>1. CheckerInit => Protection!Init
  BY DEF CheckerInit, Protection!Init, Holders, Alive, Free, At, Running
<1>2. IInv /\ [CheckerNext]_checkerVars => [Protection!Next \/ Restart]_(Protection!vars)
  BY UsesStep
<1>3. QED
  BY <1>1, <1>2, Invariance, PTL DEF CheckerSpec, UsesRundown
=============================================================================
