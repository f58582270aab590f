--------------------- MODULE FreeDiskSpaceCheckerProofs ---------------------
(***************************************************************************)
(* The free disk space checker does its work in the steps of               *)
(* PeriodicChecker, and therefore has its safety properties for any number *)
(* of devices.  What it tells the user is told once, is not lost, and is   *)
(* in the file.                                                            *)
(***************************************************************************)
EXTENDS FreeDiskSpaceChecker, PeriodicCheckerProofs

\* The stages that a goroutine which checks goes through, and the other ones.
Checking == {"measure", "save", "notify", "finish"}
Helping == {"collect", "log", "over"}

StageFollowsPc ==
  \A g \in Goroutines :
    /\ stage[g] \in Checking <=> pc[g] = "measure"
    /\ stage[g] \in Helping <=> pc[g] = "child"

\* A check that found the space gone below the minimum and has not notified yet.
Falling(g) == stage[g] \in {"save", "notify"} /\ fell[g]

NotifiesWhatFell == \A g \in Goroutines : stage[g] = "notify" => fell[g]

\* In the first life of the program the user has been told of a device that is
\* low, or is about to be, by one check alone.
NoticeOwed ==
  ~restarted =>
    /\ \A g \in Goroutines : Falling(g) => status[dev[g]] = 0 /\ ~told[dev[g]]
    /\ \A d \in Devices : told[d] => status[d] = 0
    /\ \A d \in Devices :
         status[d] = 0 => \/ told[d] \/ rundown
                          \/ \E g \in Goroutines : Falling(g) /\ dev[g] = d

\* Only a goroutine that saves has collected items.
CollectsAlone == \A g \in Goroutines : stage[g] # "collect" => snap[g] = <<>>

\* The user was told that the device is low, or a check is about to tell it.
Reported(d) == told[d] \/ (~rundown /\ \E g \in Goroutines : stage[g] = "notify")

\* What a goroutine that saves has collected says nothing but that it is low.
SavesLow(g) == snap[g] = <<>> \/ snap[g] = <<FALSE>>

\* With one device, and as long as no two saves overlapped, what is reported is
\* in the file or in every copy that is on its way to the file.
ReportIsKept ==
  \A d \in Devices : Reported(d) =>
    /\ status[d] = 0
    /\ \A g \in Goroutines : stage[g] = "collect" => SavesLow(g)
    /\ file = <<FALSE>> \/ \E g \in Goroutines : stage[g] = "collect"

FallsLow == \A g \in Goroutines : Falling(g) => status[dev[g]] = 0

SaveOwed == (N = 1 /\ ~overlap) => FallsLow /\ ReportIsKept

SaveInv == CollectsAlone /\ SaveOwed

FdsInv ==
  /\ TypeOK
  /\ StageFollowsPc
  /\ NotifiesWhatFell
  /\ NoticeOwed

\* A step of the checker is a step of the scheduler or leaves it alone.
LEMMA NextImplements == [Next]_vars => [CheckerNext]_checkerVars
<1> SUFFICES ASSUME [Next]_vars PROVE [CheckerNext]_checkerVars
  OBVIOUS
<1>1. CASE Scheduler
  BY <1>1 DEF Scheduler, CheckerNext, LoopStep, CheckStep
<1>2. CASE Visit
  BY <1>2 DEF Visit, CheckerNext, LoopStep
<1>3. ASSUME NEW g \in Goroutines, NEW newStatus \in 0 .. 1, Measure(g, newStatus)
      PROVE  [CheckerNext]_checkerVars
  BY <1>3 DEF Measure
<1>4. ASSUME NEW g \in Goroutines, StartSave(g) \/ StartNotify(g)
      PROVE  [CheckerNext]_checkerVars
  BY <1>4 DEF StartSave, StartNotify, CheckerNext, CheckStep
<1>5. ASSUME NEW g \in Goroutines, EndCheck(g)
      PROVE  [CheckerNext]_checkerVars
  BY <1>5 DEF EndCheck, CheckerNext, CheckStep
<1>6. ASSUME NEW g \in Goroutines, Collect(g) \/ WriteFile(g)
      PROVE  [CheckerNext]_checkerVars
  BY <1>6 DEF Collect, WriteFile
<1>7. ASSUME NEW g \in Goroutines, EndChild(g) \/ EndWorker(g)
      PROVE  [CheckerNext]_checkerVars
  BY <1>7 DEF EndChild, EndWorker, CheckerNext, CheckStep
<1>8. CASE StartAgain
  BY <1>8 DEF StartAgain, CheckerNext
<1>9. CASE UNCHANGED vars
  BY <1>9 DEF vars
<1>10. QED
  BY <1>1, <1>2, <1>3, <1>4, <1>5, <1>6, <1>7, <1>8, <1>9 DEF Next

\* Every behaviour of the checker is one of the scheduler: its steps are steps of the
\* scheduler that do more, so that what is proved of the scheduler carries over.
LEMMA Implements == Spec => CheckerSpec
<1>1. Init => CheckerInit
  BY DEF Init
<1>2. QED
  BY <1>1, NextImplements, PTL DEF Spec, CheckerSpec

\* ... and the inductive invariant of the scheduler with it.
THEOREM SchedulerInvariance == Spec => []IInv
BY Implements, Invariance, PTL

\* The free disk space checker inherits what the scheduler guarantees: no device is
\* checked before its period is over or by two goroutines, references are taken only
\* before the rundown, and nothing is left when Stop closes checkDone
\* (checkDevices, Run and Stop of freediskspacechecker.go).
THEOREM KeepsSchedule ==
  Spec => [](OneCheckPerDevice /\ QuietWhenClosed) /\ CheckSpacing /\ UsesRundown
BY Implements, OneCheck, Quiet, Spacing, Protected, PTL

----------------------------------------------------------------------------
\* The variables of the checker but those of the scheduler.
FdsTypes ==
  /\ status \in [Devices -> 0 .. 1]
  /\ file \in {<<>>} \cup [Devices -> BOOLEAN]
  /\ stage \in [Goroutines -> Stages]
  /\ fell \in [Goroutines -> BOOLEAN]
  /\ snap \in [Goroutines -> Seq(BOOLEAN)]
  /\ \A g \in Goroutines : Len(snap[g]) <= N
  /\ told \in [Devices -> BOOLEAN]
  /\ overlap \in BOOLEAN
  /\ restarted \in BOOLEAN

\* The type invariant is the scheduler's and this one.
LEMMA TypeParts ==
  /\ TypeOK <=> CheckerTypeOK /\ FdsTypes
  /\ TypeOK' <=> CheckerTypeOK' /\ FdsTypes'
BY DEF TypeOK, FdsTypes

\* A goroutine that measures works for a device.
LEMMA MeasuredDevice ==
  ASSUME IInv, StageFollowsPc, NEW g \in Goroutines, stage[g] \in Checking
  PROVE  pc[g] = "measure" /\ dev[g] \in Devices
BY DEF IInv, StageFollowsPc, MeasuresDevice, At

\* loadState takes the status from the file or leaves it at 1.
LEMMA LoadedStatusType ==
  ASSUME NEW d \in Devices
  PROVE  LoadedStatus(d) \in 0 .. 1
BY DEF LoadedStatus

\* Every step keeps the types of the checker.
LEMMA FdsTypesStep ==
  ASSUME IInv, FdsTypes, StageFollowsPc, [Next]_vars
  PROVE  FdsTypes'
<1> USE DEF FdsTypes, Stages
<1>1. CASE Scheduler \/ UNCHANGED vars \/ \E g \in Goroutines : EndWorker(g)
  BY <1>1 DEF Scheduler, EndWorker, fdsVars, vars
<1>2. CASE Visit
  BY <1>2 DEF Visit
<1>3. ASSUME NEW g \in Goroutines, NEW newStatus \in 0 .. 1, Measure(g, newStatus)
      PROVE  FdsTypes'
  BY <1>3 DEF Measure
<1>4. ASSUME NEW g \in Goroutines, StartSave(g) PROVE FdsTypes'
  <2>1. stage' \in [Goroutines -> Stages] /\ overlap' \in BOOLEAN
    BY <1>4 DEF StartSave, AfterSave
  <2>2. QED
    BY <1>4, <2>1 DEF StartSave
<1>5. ASSUME NEW g \in Goroutines, StartNotify(g) PROVE FdsTypes'
  <2>1. stage' \in [Goroutines -> Stages] /\ told' \in [Devices -> BOOLEAN]
    BY <1>5 DEF StartNotify
  <2>2. QED
    BY <1>5, <2>1 DEF StartNotify
<1>6. ASSUME NEW g \in Goroutines, EndCheck(g) PROVE FdsTypes'
  BY <1>6 DEF EndCheck
<1>7. ASSUME NEW g \in Goroutines, Collect(g) PROVE FdsTypes'
  <2>1. snap[g] \in Seq(BOOLEAN) /\ Len(snap[g]) \in Nat /\ Len(snap[g]) < N
    BY <1>7 DEF Collect
  <2>2. PICK b \in BOOLEAN : snap' = [snap EXCEPT ![g] = Append(snap[g], b)]
    BY <1>7 DEF Collect
  <2>3. /\ Append(snap[g], b) \in Seq(BOOLEAN)
        /\ Len(Append(snap[g], b)) <= N
    BY <2>1, CheckerAssumption
  <2>4. QED
    BY <1>7, <2>2, <2>3 DEF Collect
<1>8. ASSUME NEW g \in Goroutines, WriteFile(g) PROVE FdsTypes'
  <2>1. snap[g] \in [Devices -> BOOLEAN]
    BY <1>8 DEF WriteFile, Devices
  <2>2. <<>> \in Seq(BOOLEAN) /\ Len(<<>>) <= N
    BY CheckerAssumption
  <2>3. /\ snap' \in [Goroutines -> Seq(BOOLEAN)]
        /\ \A h \in Goroutines : Len(snap'[h]) <= N
    BY <1>8, <2>2 DEF WriteFile
  <2>4. file' \in [Devices -> BOOLEAN] /\ stage' \in [Goroutines -> Stages]
    BY <1>8, <2>1 DEF WriteFile
  <2>5. QED
    BY <1>8, <2>3, <2>4 DEF WriteFile
<1>9. ASSUME NEW g \in Goroutines, EndChild(g) PROVE FdsTypes'
  BY <1>9 DEF EndChild
<1>10. CASE StartAgain
  <2>1. <<>> \in Seq(BOOLEAN) /\ Len(<<>>) <= N
    BY CheckerAssumption
  <2>2. /\ snap' \in [Goroutines -> Seq(BOOLEAN)]
        /\ \A h \in Goroutines : Len(snap'[h]) <= N
    BY <1>10, <2>1 DEF StartAgain
  <2>3. status' \in [Devices -> 0 .. 1]
    BY <1>10, LoadedStatusType DEF StartAgain
  <2>4. QED
    BY <1>10, <2>2, <2>3 DEF StartAgain
<1>11. QED
  BY <1>1, <1>2, <1>3, <1>4, <1>5, <1>6, <1>7, <1>8, <1>9, <1>10 DEF Next

----------------------------------------------------------------------------
\* What a goroutine does fits what the scheduler knows of it.
LEMMA StageStep ==
  ASSUME CheckerTypeOK, FdsTypes, StageFollowsPc, [Next]_vars
  PROVE  StageFollowsPc'
<1> USE DEF StageFollowsPc, Checking, Helping, CheckerTypeOK, FdsTypes
<1>1. CASE Scheduler
  <2>1. \A g \in Goroutines : /\ pc'[g] = "measure" <=> pc[g] = "measure"
                              /\ pc'[g] = "child" <=> pc[g] = "child"
    BY <1>1 DEF Scheduler, RunStep, RunEnter, RunAcquire, Select, WaitTimer,
                WaitShutdown, WaitCheckDone, StopStep, StopSignal, StopRundown,
                StopDrained, Tick, Scan, BeginWait, VisitBusy, VisitNotDue,
                EndVisit, GiveUpSignal, goVars
  <2>2. stage' = stage
    BY <1>1 DEF Scheduler, fdsVars
  <2>3. QED
    BY <2>1, <2>2
<1>2. CASE Visit
  <2>1. CASE pc' = pc
    BY <1>2, <2>1 DEF Visit
  <2>2. ASSUME NEW g \in Goroutines, pc[g] = "free",
               pc' = [pc EXCEPT ![g] = "measure"]
        PROVE  StageFollowsPc'
    BY <1>2, <2>2 DEF Visit
  <2>3. QED
    BY <1>2, <2>1, <2>2 DEF Visit, VisitDue, Free, At, goVars
<1>3. ASSUME NEW g \in Goroutines, NEW newStatus \in 0 .. 1, Measure(g, newStatus)
      PROVE  StageFollowsPc'
  BY <1>3 DEF Measure, checkerVars, goVars
<1>4. ASSUME NEW g \in Goroutines, NEW h \in Goroutines, Spawn(g, h),
             stage[g] \in {"save", "notify"},
             NEW mine \in {"notify", "finish"}, NEW its \in {"collect", "log"},
             stage' = [stage EXCEPT ![g] = mine, ![h] = its]
      PROVE  StageFollowsPc'
  BY <1>4 DEF Spawn
<1>5. ASSUME NEW g \in Goroutines, StartSave(g) PROVE StageFollowsPc'
  <2>1. CASE rundown /\ stage' = [stage EXCEPT ![g] = AfterSave(g)] /\ pc' = pc
    BY <1>5, <2>1 DEF StartSave, AfterSave
  <2>2. CASE \E h \in Goroutines :
               /\ Spawn(g, h)
               /\ stage' = [stage EXCEPT ![g] = AfterSave(g), ![h] = "collect"]
    BY <1>4, <1>5, <2>2 DEF StartSave, AfterSave
  <2>3. QED
    BY <1>5, <2>1, <2>2 DEF StartSave, checkerVars, goVars
<1>6. ASSUME NEW g \in Goroutines, StartNotify(g) PROVE StageFollowsPc'
  <2>1. CASE rundown /\ stage' = [stage EXCEPT ![g] = "finish"] /\ pc' = pc
    BY <1>6, <2>1 DEF StartNotify
  <2>2. CASE \E h \in Goroutines :
               /\ Spawn(g, h)
               /\ stage' = [stage EXCEPT ![g] = "finish", ![h] = "log"]
    BY <1>4, <1>6, <2>2 DEF StartNotify
  <2>3. QED
    BY <1>6, <2>1, <2>2 DEF StartNotify, checkerVars, goVars
<1>7. ASSUME NEW g \in Goroutines, EndCheck(g) PROVE StageFollowsPc'
  BY <1>7 DEF EndCheck, Finish
<1>8. ASSUME NEW g \in Goroutines, Collect(g) \/ WriteFile(g)
      PROVE  StageFollowsPc'
  BY <1>8 DEF Collect, WriteFile, checkerVars, goVars
<1>9. ASSUME NEW g \in Goroutines, EndChild(g) PROVE StageFollowsPc'
  BY <1>9 DEF EndChild, Release
<1>10. ASSUME NEW g \in Goroutines, EndWorker(g) PROVE StageFollowsPc'
  BY <1>10 DEF EndWorker, Release, fdsVars
<1>11. CASE StartAgain
  BY <1>11 DEF StartAgain, Restart
<1>12. CASE UNCHANGED vars
  BY <1>12 DEF vars, fdsVars, checkerVars, goVars
<1>13. QED
  BY <1>1, <1>2, <1>3, <1>5, <1>6, <1>7, <1>8, <1>9, <1>10, <1>11, <1>12 DEF Next

\* A check reaches its notice only when the device fell below its minimum.
LEMMA NotifiesStep ==
  ASSUME IInv, FdsTypes, StageFollowsPc, NotifiesWhatFell, [Next]_vars
  PROVE  NotifiesWhatFell'
<1> USE DEF NotifiesWhatFell, FdsTypes
<1>1. CASE Scheduler \/ UNCHANGED vars \/ \E g \in Goroutines : EndWorker(g)
  BY <1>1 DEF Scheduler, EndWorker, fdsVars, vars
<1>2. CASE Visit
  BY <1>2 DEF Visit
<1>3. ASSUME NEW g \in Goroutines, NEW newStatus \in 0 .. 1, Measure(g, newStatus)
      PROVE  NotifiesWhatFell'
  BY <1>3 DEF Measure
<1>4. ASSUME NEW g \in Goroutines, StartSave(g) \/ StartNotify(g)
      PROVE  NotifiesWhatFell'
  BY <1>4 DEF StartSave, StartNotify, AfterSave
<1>5. ASSUME NEW g \in Goroutines,
             EndCheck(g) \/ Collect(g) \/ WriteFile(g) \/ EndChild(g)
      PROVE  NotifiesWhatFell'
  BY <1>5 DEF EndCheck, Collect, WriteFile, EndChild
<1>6. CASE StartAgain
  BY <1>6 DEF StartAgain
<1>7. QED
  BY <1>1, <1>2, <1>3, <1>4, <1>5, <1>6 DEF Next

----------------------------------------------------------------------------
\* A step that neither measures nor notifies leaves what is owed as it is.
LEMMA NothingNew ==
  ASSUME NoticeOwed, UNCHANGED <<status, told, restarted>>, rundown => rundown',
         \A g \in Goroutines : Falling(g)' <=> Falling(g),
         \A g \in Goroutines : Falling(g) => dev'[g] = dev[g]
  PROVE  NoticeOwed'
<1> HIDE DEF Falling
<1>1. QED
  BY DEF NoticeOwed

\* Only one goroutine checks a device.
LEMMA OneChecks ==
  ASSUME IInv, StageFollowsPc, NEW g \in Goroutines, NEW h \in Goroutines,
         stage[g] \in Checking, stage[h] \in Checking, dev[g] = dev[h]
  PROVE  g = h
BY MeasuredDevice DEF IInv, OneCheckPerDevice, At

\* The swap of LastCheckStatus: who sees it fall owes the notice.
LEMMA MeasureOwes ==
  ASSUME IInv, FdsTypes, StageFollowsPc, NoticeOwed,
         NEW g \in Goroutines, NEW newStatus \in 0 .. 1, Measure(g, newStatus)
  PROVE  NoticeOwed'
<1> DEFINE d == dev[g]
<1> SUFFICES ASSUME ~restarted PROVE NoticeOwed'
  BY DEF NoticeOwed, Measure
<1>1. /\ stage[g] = "measure" /\ d \in Devices
      /\ UNCHANGED <<dev, rundown, restarted>>
    BY MeasuredDevice DEF Measure, Checking, checkerVars, goVars, rundownVars
<1>2. /\ \A e \in Devices : status'[e] = IF e = d THEN newStatus ELSE status[e]
      /\ \A e \in Devices : told'[e] = IF e = d THEN told[e] /\ newStatus = 0 ELSE told[e]
  BY <1>1 DEF Measure, FdsTypes
<1>3. \A h \in Goroutines :
        Falling(h)' <=> IF h = g THEN status[d] = 1 /\ newStatus = 0 ELSE Falling(h)
  <2>1. /\ fell' = [fell EXCEPT ![g] = status[d] = 1 /\ newStatus = 0]
        /\ stage' = [stage EXCEPT ![g] = IF status[d] # newStatus THEN "save"
                                         ELSE "finish"]
    BY DEF Measure
  <2>2. ASSUME NEW h \in Goroutines, h # g PROVE Falling(h)' <=> Falling(h)
    BY <2>1, <2>2 DEF Falling, FdsTypes
  <2>3. stage'[g] = (IF status[d] # newStatus THEN "save" ELSE "finish")
    BY <2>1 DEF FdsTypes
  <2>4. fell'[g] <=> (status[d] = 1 /\ newStatus = 0)
    BY <2>1 DEF FdsTypes
  <2>5. Falling(g)' <=> (status[d] = 1 /\ newStatus = 0)
    BY <2>3, <2>4 DEF Falling
  <2>6. QED
    BY <2>2, <2>5
<1>4. ASSUME NEW h \in Goroutines, h # g, Falling(h)
      PROVE  dev[h] \in Devices /\ dev[h] # d
  BY <1>1, <1>4, MeasuredDevice, OneChecks DEF Falling, Checking
<1>5. ~Falling(g)
  BY <1>1 DEF Falling
<1>6. status[d] \in 0 .. 1 /\ told[d] \in BOOLEAN
  BY <1>1 DEF FdsTypes
<1> HIDE DEF d, Falling
<1>7. ASSUME NEW h \in Goroutines, Falling(h)'
      PROVE  status'[dev'[h]] = 0 /\ ~told'[dev'[h]]
  <2>1. CASE h = g
    BY <1>1, <1>2, <1>3, <1>6, <1>7, <2>1 DEF NoticeOwed, d
  <2>2. CASE h # g
    BY <1>1, <1>2, <1>3, <1>4, <1>7, <2>2 DEF NoticeOwed
  <2>3. QED
    BY <2>1, <2>2
<1>8. ASSUME NEW e \in Devices, told'[e] PROVE status'[e] = 0
  BY <1>2, <1>8 DEF NoticeOwed
<1>9. ASSUME NEW e \in Devices, status'[e] = 0
      PROVE  \/ told'[e] \/ rundown'
             \/ \E h \in Goroutines : Falling(h)' /\ dev'[h] = e
  <2>1. CASE e = d /\ status[d] = 1
    <3>1. Falling(g)' /\ dev'[g] = e
      BY <1>1, <1>2, <1>3, <1>9, <2>1 DEF d
    <3>2. QED
      BY <3>1
  <2>2. CASE e = d /\ status[d] # 1
    <3>1. status[d] = 0 /\ newStatus = 0
      BY <1>2, <1>6, <1>9, <2>2
    <3>2. ~\E h \in Goroutines : Falling(h) /\ dev[h] = d
      BY <1>4, <1>5
    <3>3. told[d] \/ rundown
      BY <1>1, <3>1, <3>2 DEF NoticeOwed
    <3>4. QED
      BY <1>1, <1>2, <2>2, <3>1, <3>3
  <2>3. CASE e # d
    <3>1. status[e] = 0 /\ told'[e] = told[e]
      BY <1>2, <1>9, <2>3
    <3>2. told[e] \/ rundown \/ \E h \in Goroutines : Falling(h) /\ dev[h] = e
      BY <3>1 DEF NoticeOwed
    <3>3. QED
      BY <1>1, <1>3, <1>5, <3>1, <3>2
  <2>4. QED
    BY <2>1, <2>2, <2>3
<1>10. QED
  BY <1>7, <1>8, <1>9 DEF NoticeOwed

\* The notice itself: what was owed is told, or the module is stopping.
LEMMA NotifyOwes ==
  ASSUME IInv, FdsTypes, StageFollowsPc, NotifiesWhatFell, NoticeOwed,
         NEW g \in Goroutines, StartNotify(g)
  PROVE  NoticeOwed'
<1> DEFINE d == dev[g]
<1> SUFFICES ASSUME ~restarted PROVE NoticeOwed'
  BY DEF NoticeOwed, StartNotify
<1>1. stage[g] = "notify" /\ d \in Devices /\ Falling(g)
  BY MeasuredDevice DEF StartNotify, Checking, Falling, NotifiesWhatFell
<1>2. status' = status /\ restarted' = restarted /\ rundown' = rundown
  BY DEF StartNotify, Spawn, checkerVars, rundownVars
<1>3. \A h \in Goroutines : Falling(h)' <=> (h # g /\ Falling(h))
  BY DEF StartNotify, Spawn, Falling, FdsTypes, StageFollowsPc, Checking
<1>4. \A h \in Goroutines : Falling(h) => dev'[h] = dev[h] /\ dev[h] \in Devices
  <2>1. \A h \in Goroutines : Falling(h) => pc[h] = "measure" /\ dev[h] \in Devices
    BY MeasuredDevice DEF Falling, Checking
  <2>2. QED
    BY <2>1 DEF StartNotify, Spawn, checkerVars, goVars, IInv, CheckerTypeOK
<1>5. \/ told' = [told EXCEPT ![d] = TRUE]
      \/ told' = told /\ rundown
  BY DEF StartNotify
<1>6. \A h \in Goroutines : h # g /\ Falling(h) => dev[h] # d
  BY <1>1, OneChecks DEF Falling, Checking
<1>7. status[d] = 0
  BY <1>1 DEF NoticeOwed
<1> HIDE DEF d, Falling
<1>8. ASSUME NEW h \in Goroutines, Falling(h)'
      PROVE  status'[dev'[h]] = 0 /\ ~told'[dev'[h]]
  <2>1. h # g /\ Falling(h) /\ dev'[h] = dev[h] /\ dev[h] # d /\ dev[h] \in Devices
    BY <1>3, <1>4, <1>6, <1>8
  <2>2. status[dev[h]] = 0 /\ ~told[dev[h]]
    BY <2>1 DEF NoticeOwed
  <2>3. QED
    BY <1>2, <1>5, <2>1, <2>2 DEF FdsTypes
<1>9. ASSUME NEW e \in Devices, told'[e] PROVE status'[e] = 0
  BY <1>2, <1>5, <1>7, <1>9 DEF NoticeOwed, FdsTypes
<1>10. ASSUME NEW e \in Devices, status'[e] = 0
       PROVE  \/ told'[e] \/ rundown'
              \/ \E h \in Goroutines : Falling(h)' /\ dev'[h] = e
  <2>1. CASE rundown
    BY <1>2, <2>1
  <2>2. CASE ~rundown
    <3>1. \A f \in Devices : told'[f] = (f = d \/ told[f])
      BY <1>5, <2>2 DEF FdsTypes
    <3>2. CASE e = d
      BY <3>1, <3>2
    <3>3. CASE e # d
      <4>1. told[e] \/ \E h \in Goroutines : Falling(h) /\ dev[h] = e
        BY <1>2, <1>10, <2>2 DEF NoticeOwed
      <4>2. CASE told[e]
        BY <3>1, <4>2
      <4>3. CASE \E h \in Goroutines : Falling(h) /\ dev[h] = e
        BY <1>3, <1>4, <3>3, <4>3 DEF d
      <4>4. QED
        BY <4>1, <4>2, <4>3
    <3>4. QED
      BY <3>2, <3>3
  <2>3. QED
    BY <2>1, <2>2
<1>11. QED
  BY <1>8, <1>9, <1>10 DEF NoticeOwed

\* Every step keeps the account of the notices that are owed.
LEMMA NoticeStep ==
  ASSUME IInv, FdsTypes, StageFollowsPc, NotifiesWhatFell, NoticeOwed, [Next]_vars
  PROVE  NoticeOwed'
<1>0. \A g \in Goroutines : Falling(g) => pc[g] = "measure"
  BY MeasuredDevice DEF Falling, Checking
<1>1. CASE Scheduler
  <2>1. UNCHANGED <<status, told, restarted, stage, fell>>
    BY <1>1 DEF Scheduler, fdsVars
  <2>2. dev' = dev /\ (rundown => rundown')
    BY <1>1 DEF Scheduler, RunStep, RunEnter, RunAcquire, Select, WaitTimer,
                WaitShutdown, WaitCheckDone, StopStep, StopSignal, StopRundown,
                StopDrained, Tick, Scan, BeginWait, VisitBusy, VisitNotDue,
                EndVisit, GiveUpSignal, goVars, rundownVars
  <2>3. QED
    BY <2>1, <2>2, NothingNew DEF Falling
<1>2. CASE Visit
  <2>1. /\ UNCHANGED <<status, told, restarted, fell, rundown>>
        /\ \A g \in Goroutines : pc[g] # "free" =>
              stage'[g] = stage[g] /\ dev'[g] = dev[g]
    BY <1>2 DEF Visit, VisitDue, Free, At, goVars, FdsTypes, IInv, CheckerTypeOK
  <2>2. \A g \in Goroutines : pc[g] = "free" => stage'[g] \in {"measure", stage[g]}
    BY <1>2 DEF Visit
  <2>3. \A g \in Goroutines : Falling(g)' <=> Falling(g)
    BY <1>0, <2>1, <2>2 DEF Falling
  <2>4. QED
    BY <1>0, <2>1, <2>3, NothingNew
<1>3. ASSUME NEW g \in Goroutines, NEW newStatus \in 0 .. 1, Measure(g, newStatus)
      PROVE  NoticeOwed'
  BY <1>3, MeasureOwes
<1>4. ASSUME NEW g \in Goroutines, StartSave(g) PROVE NoticeOwed'
  <2>1. /\ UNCHANGED <<status, told, restarted, fell, rundown>>
        /\ \A h \in Goroutines : pc[h] = "measure" => dev'[h] = dev[h]
    BY <1>4 DEF StartSave, Spawn, checkerVars, goVars, rundownVars, IInv,
                CheckerTypeOK
  <2>2. \A h \in Goroutines : Falling(h)' <=> Falling(h)
    BY <1>4 DEF StartSave, Spawn, AfterSave, Falling, FdsTypes, StageFollowsPc,
                Checking
  <2>3. QED
    BY <1>0, <2>1, <2>2, NothingNew
<1>5. ASSUME NEW g \in Goroutines, StartNotify(g) PROVE NoticeOwed'
  BY <1>5, NotifyOwes
<1>6. ASSUME NEW g \in Goroutines, EndCheck(g) \/ EndChild(g) PROVE NoticeOwed'
  <2>1. /\ UNCHANGED <<status, told, restarted, rundown>>
        /\ \A h \in Goroutines : h # g => dev'[h] = dev[h]
    BY <1>6 DEF EndCheck, EndChild, Finish, Release, rundownVars, IInv, CheckerTypeOK
  <2>2. ~Falling(g)
    BY <1>6 DEF EndCheck, EndChild, Falling
  <2>3. \A h \in Goroutines : Falling(h)' <=> Falling(h)
    BY <1>6, <2>2 DEF EndCheck, EndChild, Falling, FdsTypes
  <2>4. QED
    BY <2>1, <2>2, <2>3, NothingNew
<1>7. ASSUME NEW g \in Goroutines, Collect(g) \/ WriteFile(g)
      PROVE  NoticeOwed'
  <2>1. UNCHANGED <<status, told, restarted, fell, rundown, dev>>
    BY <1>7 DEF Collect, WriteFile, checkerVars, goVars, rundownVars
  <2>2. \A h \in Goroutines : Falling(h)' <=> Falling(h)
    BY <1>7 DEF Collect, WriteFile, Falling, FdsTypes
  <2>3. QED
    BY <2>1, <2>2, NothingNew
<1>8. ASSUME NEW g \in Goroutines, EndWorker(g) PROVE NoticeOwed'
  <2>1. UNCHANGED <<status, told, restarted, fell, stage, rundown>>
    BY <1>8 DEF EndWorker, Release, fdsVars
  <2>2. \A h \in Goroutines : pc[h] = "measure" => dev'[h] = dev[h]
    BY <1>8 DEF EndWorker, Release, IInv, CheckerTypeOK
  <2>3. \A h \in Goroutines : Falling(h)' <=> Falling(h)
    BY <2>1 DEF Falling
  <2>4. QED
    BY <1>0, <2>1, <2>2, <2>3, NothingNew
<1>9. CASE StartAgain
  BY <1>9 DEF StartAgain, NoticeOwed
<1>10. CASE UNCHANGED vars
  <2>1. UNCHANGED <<status, told, restarted, fell, stage, rundown, dev>>
    BY <1>10 DEF vars, fdsVars, checkerVars, goVars, rundownVars
  <2>2. QED
    BY <2>1, NothingNew DEF Falling
<1>11. QED
  BY <1>1, <1>2, <1>3, <1>4, <1>5, <1>6, <1>7, <1>8, <1>9, <1>10 DEF Next

----------------------------------------------------------------------------
\* At first every status is 1 and nobody is told anything.
LEMMA InitFdsInv == Init => FdsInv
<1> SUFFICES ASSUME Init PROVE FdsInv
  OBVIOUS
<1>1. CheckerTypeOK
  BY InitIInv DEF Init, IInv
<1>2. FdsTypes
  <2>1. <<>> \in Seq(BOOLEAN) /\ Len(<<>>) <= N
    BY CheckerAssumption
  <2>2. snap \in [Goroutines -> Seq(BOOLEAN)] /\ \A g \in Goroutines : Len(snap[g]) <= N
    BY <2>1 DEF Init
  <2>3. status \in [Devices -> 0 .. 1] /\ told \in [Devices -> BOOLEAN]
    BY DEF Init
  <2>4. file \in {<<>>} \cup [Devices -> BOOLEAN]
    BY DEF Init
  <2>5. stage \in [Goroutines -> Stages] /\ fell \in [Goroutines -> BOOLEAN]
    BY DEF Init, Stages
  <2>6. overlap \in BOOLEAN /\ restarted \in BOOLEAN
    BY DEF Init
  <2>7. QED
    BY <2>2, <2>3, <2>4, <2>5, <2>6 DEF FdsTypes
<1>3. StageFollowsPc /\ NotifiesWhatFell
  BY DEF Init, CheckerInit, StageFollowsPc, Checking, Helping, NotifiesWhatFell
<1>4. NoticeOwed
  BY DEF Init, NoticeOwed, Falling
<1>5. QED
  BY <1>1, <1>2, <1>3, <1>4, TypeParts DEF FdsInv

\* Every step keeps the invariant of the checker, given the scheduler's.
LEMMA NextFdsInv == IInv /\ IInv' /\ FdsInv /\ [Next]_vars => FdsInv'
<1> SUFFICES ASSUME IInv, IInv', FdsInv, [Next]_vars PROVE FdsInv'
  OBVIOUS
<1>1. FdsTypes /\ CheckerTypeOK /\ StageFollowsPc /\ NotifiesWhatFell /\ NoticeOwed
  BY TypeParts DEF FdsInv
<1>2. FdsTypes' /\ CheckerTypeOK'
  BY <1>1, FdsTypesStep DEF IInv
<1>3. StageFollowsPc' /\ NotifiesWhatFell' /\ NoticeOwed'
  BY <1>1, StageStep, NotifiesStep, NoticeStep
<1>4. QED
  BY <1>2, <1>3, TypeParts DEF FdsInv

\* The inductive invariant of the free disk space checker.
THEOREM FdsInvariance == Spec => []FdsInv
BY InitFdsInv, NextFdsInv, SchedulerInvariance, PTL DEF Spec

\* The checker's variables have their types.
THEOREM FdsTypeCorrect == Spec => []TypeOK
<1>1. FdsInv => TypeOK
  BY DEF FdsInv
<1>2. QED
  BY <1>1, FdsInvariance, PTL

\* A check that found too little space ends only when the user was told, or the
\* module is stopping: no interleaving of checks, saves and Stop loses the notice
\* of the first life of the program.
THEOREM LowIsTold == Spec => []LowSpaceIsTold
<1>1. IInv /\ FdsInv => LowSpaceIsTold
  <2> SUFFICES ASSUME IInv, FdsInv, NEW g \in Goroutines,
                      stage[g] = "finish", status[dev[g]] = 0, ~restarted
               PROVE  told[dev[g]] \/ rundown
    BY DEF LowSpaceIsTold
  <2>1. StageFollowsPc /\ NoticeOwed
    BY DEF FdsInv
  <2>2. dev[g] \in Devices
    BY <2>1, MeasuredDevice DEF Checking
  <2>3. ASSUME NEW h \in Goroutines, Falling(h), dev[h] = dev[g] PROVE FALSE
    <3>1. stage[h] \in {"save", "notify"}
      BY <2>3 DEF Falling
    <3>2. h = g
      BY <2>1, <2>3, <3>1, OneChecks DEF Checking
    <3>3. QED
      BY <3>1, <3>2
  <2>4. QED
    BY <2>1, <2>2, <2>3 DEF NoticeOwed
<1>2. QED
  BY <1>1, SchedulerInvariance, FdsInvariance, PTL

\* The user is told of a drop once, until a check has found enough space.
THEOREM OneNotice == Spec => NotifyOncePerDrop
<1>1. IInv /\ FdsInv /\ [Next]_vars => [~restarted => ~RepeatsNotice]_vars
  <2> SUFFICES ASSUME IInv, FdsInv, Next, ~restarted, NEW h \in Goroutines,
                      stage[h] # "log", stage'[h] = "log", told[dev'[h]]
               PROVE  FALSE
    BY DEF RepeatsNotice
  <2>1. FdsTypes /\ StageFollowsPc /\ NotifiesWhatFell /\ NoticeOwed
    BY TypeParts DEF FdsInv
  <2>2. PICK g \in Goroutines : StartNotify(g)
    <3>1. ~(Scheduler \/ Visit \/ StartAgain \/ \E g \in Goroutines : EndWorker(g))
      BY DEF Scheduler, Visit, StartAgain, EndWorker, fdsVars
    <3>2. ASSUME NEW g \in Goroutines, NEW newStatus \in 0 .. 1,
                 Measure(g, newStatus)
          PROVE  FALSE
      BY <2>1, <3>2 DEF Measure, FdsTypes
    <3>3. ASSUME NEW g \in Goroutines, StartSave(g) PROVE FALSE
      BY <2>1, <3>3 DEF StartSave, AfterSave, FdsTypes
    <3>4. ASSUME NEW g \in Goroutines,
                 EndCheck(g) \/ Collect(g) \/ WriteFile(g) \/ EndChild(g)
          PROVE  FALSE
      BY <2>1, <3>4 DEF EndCheck, Collect, WriteFile, EndChild, FdsTypes
    <3>5. QED
      BY <3>1, <3>2, <3>3, <3>4 DEF Next
  <2>3. Falling(g)
    BY <2>1, <2>2 DEF StartNotify, Falling, NotifiesWhatFell
  <2>4. dev'[h] = dev[g]
    BY <2>1, <2>2 DEF StartNotify, Spawn, FdsTypes, IInv, CheckerTypeOK
  <2>5. QED
    BY <2>1, <2>3, <2>4 DEF NoticeOwed
<1>2. QED
  BY <1>1, SchedulerInvariance, FdsInvariance, PTL DEF Spec, NotifyOncePerDrop

----------------------------------------------------------------------------
\* Only the goroutine that saves changes what it has collected.
LEMMA CollectsStep ==
  ASSUME FdsTypes, CheckerTypeOK, StageFollowsPc, CollectsAlone, [Next]_vars
  PROVE  CollectsAlone'
<1> USE DEF CollectsAlone, FdsTypes
<1>1. CASE Scheduler \/ UNCHANGED vars \/ \E g \in Goroutines : EndWorker(g)
  BY <1>1 DEF Scheduler, EndWorker, fdsVars, vars
<1>2. CASE Visit
  <2>1. snap' = snap /\ \A g \in Goroutines : stage[g] = "collect" => pc[g] = "child"
    BY <1>2 DEF Visit, StageFollowsPc, Helping
  <2>2. \A g \in Goroutines : stage'[g] # "collect" => stage[g] # "collect"
    BY <1>2, <2>1 DEF Visit
  <2>3. QED
    BY <2>1, <2>2
<1>3. ASSUME NEW g \in Goroutines,
             \/ \E newStatus \in 0 .. 1 : Measure(g, newStatus)
             \/ StartNotify(g) \/ EndCheck(g) \/ EndChild(g)
      PROVE  CollectsAlone'
  BY <1>3 DEF Measure, StartNotify, Spawn, EndCheck, EndChild, StageFollowsPc, Helping
<1>4. ASSUME NEW g \in Goroutines, StartSave(g) PROVE CollectsAlone'
  BY <1>4 DEF StartSave, AfterSave
<1>5. ASSUME NEW g \in Goroutines, Collect(g) \/ WriteFile(g) PROVE CollectsAlone'
  BY <1>5 DEF Collect, WriteFile
<1>6. CASE StartAgain
  BY <1>6 DEF StartAgain
<1>7. QED
  BY <1>1, <1>2, <1>3, <1>4, <1>5, <1>6 DEF Next

\* A step that neither measures, saves nor notifies leaves the report as it is.
LEMMA NothingSaved ==
  ASSUME SaveOwed, UNCHANGED <<status, told, file, snap, overlap>>, rundown => rundown',
         \A g \in Goroutines : stage'[g] = "collect" <=> stage[g] = "collect",
         \A g \in Goroutines : stage'[g] = "notify" => stage[g] = "notify",
         \A g \in Goroutines : Falling(g)' => Falling(g) /\ dev'[g] = dev[g]
  PROVE  SaveOwed'
<1> HIDE DEF Falling
<1>1. SUFFICES ASSUME N = 1, ~overlap PROVE FallsLow' /\ ReportIsKept'
  BY DEF SaveOwed
<1>2. FallsLow /\ ReportIsKept
  BY <1>1 DEF SaveOwed
<1>3. FallsLow'
  BY <1>2 DEF FallsLow
<1>4. ReportIsKept'
  BY <1>2 DEF ReportIsKept, Reported, SavesLow
<1>5. QED
  BY <1>3, <1>4

\* The swap of LastCheckStatus: a check that finds the space again takes the
\* report back, one that does not leaves it.
LEMMA MeasureKeeps ==
  ASSUME IInv, FdsTypes, StageFollowsPc, SaveOwed,
         NEW g \in Goroutines, NEW newStatus \in 0 .. 1, Measure(g, newStatus)
  PROVE  SaveOwed'
<1>1. SUFFICES ASSUME N = 1, ~overlap PROVE FallsLow' /\ ReportIsKept'
  BY DEF SaveOwed, Measure
<1>2. FallsLow /\ ReportIsKept
  BY <1>1 DEF SaveOwed
<1>3. /\ stage[g] = "measure"
      /\ dev[g] = 1
      /\ Devices = {1}
      /\ UNCHANGED <<dev, rundown, file, snap>>
  BY <1>1, MeasuredDevice
     DEF Measure, Checking, Devices, checkerVars, goVars, rundownVars
<1>4. /\ status' = [status EXCEPT ![1] = newStatus]
      /\ told' = [told EXCEPT ![1] = @ /\ newStatus = 0]
  BY <1>3 DEF Measure
<1>5. ASSUME NEW h \in Goroutines, stage'[h] \in {"save", "notify"}
      PROVE  h = g /\ stage'[h] = "save"
  <2>1. stage' = [stage EXCEPT ![g] = IF status[dev[g]] # newStatus THEN "save"
                                      ELSE "finish"]
    BY DEF Measure
  <2>2. CASE h = g
    BY <1>5, <2>1, <2>2 DEF FdsTypes
  <2>3. CASE h # g
    <3>1. stage[h] \in {"save", "notify"}
      BY <1>5, <2>1, <2>3 DEF FdsTypes
    <3>2. dev[h] = 1
      BY <1>3, <3>1, MeasuredDevice DEF Checking
    <3>3. QED
      BY <1>3, <2>3, <3>1, <3>2, OneChecks DEF Checking
  <2>4. QED
    BY <2>2, <2>3
<1>6. FallsLow'
  <2>1. SUFFICES ASSUME NEW h \in Goroutines, Falling(h)' PROVE status'[dev'[h]] = 0
    BY DEF FallsLow
  <2>2. h = g /\ fell'[g]
    BY <1>5, <2>1 DEF Falling
  <2>3. newStatus = 0
    BY <2>2 DEF Measure, FdsTypes
  <2>4. QED
    BY <1>3, <1>4, <2>2, <2>3 DEF FdsTypes
<1>7. ReportIsKept'
  <2>1. SUFFICES ASSUME Reported(1)'
                 PROVE  /\ status'[1] = 0
                        /\ \A h \in Goroutines : stage'[h] = "collect" => SavesLow(h)'
                        /\ \/ file' = <<FALSE>>
                           \/ \E h \in Goroutines : stage'[h] = "collect"
    BY <1>3 DEF ReportIsKept
  <2>2. told'[1]
    BY <1>5, <2>1 DEF Reported
  <2>3. told[1] /\ newStatus = 0
    BY <1>3, <1>4, <2>2 DEF FdsTypes
  <2>4. \A h \in Goroutines : stage'[h] = "collect" <=> stage[h] = "collect"
    BY <1>3 DEF Measure, FdsTypes
  <2>5. QED
    BY <1>2, <1>3, <1>4, <2>3, <2>4 DEF ReportIsKept, Reported, SavesLow, FdsTypes
<1>8. QED
  BY <1>6, <1>7

\* A save that starts alone has the low status before it, whatever it finds.
LEMMA StartSaveKeeps ==
  ASSUME IInv, FdsTypes, StageFollowsPc, CollectsAlone, SaveOwed,
         NEW g \in Goroutines, StartSave(g)
  PROVE  SaveOwed'
<1>1. SUFFICES ASSUME N = 1, ~overlap' PROVE FallsLow' /\ ReportIsKept'
  BY DEF SaveOwed
<1>2. ~overlap
  BY <1>1 DEF StartSave
<1>3. FallsLow /\ ReportIsKept
  BY <1>1, <1>2 DEF SaveOwed
<1>4. /\ stage[g] = "save" /\ dev[g] = 1 /\ Devices = {1}
      /\ UNCHANGED <<status, told, file, snap, fell, rundown>>
  BY <1>1, MeasuredDevice
     DEF StartSave, Spawn, Checking, Devices, checkerVars, rundownVars
<1>5. \A h \in Goroutines : Falling(h)' => Falling(h) /\ dev'[h] = dev[h]
  <2>1. \A h \in Goroutines : Falling(h)' => Falling(h)
    BY <1>4 DEF StartSave, AfterSave, Falling, FdsTypes
  <2>2. \A h \in Goroutines : Falling(h) => pc[h] = "measure"
    BY MeasuredDevice DEF Falling, Checking
  <2>3. \A h \in Goroutines : pc[h] = "measure" => dev'[h] = dev[h]
    BY DEF StartSave, Spawn, checkerVars, goVars, IInv, CheckerTypeOK
  <2>4. QED
    BY <2>1, <2>2, <2>3
<1>6. FallsLow'
  BY <1>3, <1>4, <1>5 DEF FallsLow
<1>7. ReportIsKept'
  <2>1. SUFFICES ASSUME Reported(1)'
                 PROVE  /\ status'[1] = 0
                        /\ \A h \in Goroutines : stage'[h] = "collect" => SavesLow(h)'
                        /\ \/ file' = <<FALSE>>
                           \/ \E h \in Goroutines : stage'[h] = "collect"
    BY <1>4 DEF ReportIsKept
  <2>2. status[1] = 0
    <3>1. CASE Reported(1)
      BY <1>3, <1>4, <3>1 DEF ReportIsKept
    <3>2. CASE ~Reported(1)
      <4>1. PICK h \in Goroutines : stage'[h] = "notify" /\ stage[h] # "notify"
        BY <1>4, <2>1, <3>2 DEF Reported
      <4>2. h = g /\ fell[g]
        BY <4>1 DEF StartSave, AfterSave, FdsTypes
      <4>3. QED
        BY <1>3, <1>4, <4>2 DEF FallsLow, Falling
    <3>3. QED
      BY <3>1, <3>2
  <2>3. CASE \E h \in Goroutines :
               /\ Spawn(g, h)
               /\ stage' = [stage EXCEPT ![g] = AfterSave(g), ![h] = "collect"]
               /\ overlap' = (overlap \/ \E k \in Goroutines : stage[k] = "collect")
    <3>1. PICK h \in Goroutines :
             /\ Spawn(g, h)
             /\ stage' = [stage EXCEPT ![g] = AfterSave(g), ![h] = "collect"]
             /\ \A k \in Goroutines : stage[k] # "collect"
      BY <1>1, <2>3
    <3>2. \A k \in Goroutines : snap[k] = <<>>
      BY <3>1 DEF CollectsAlone
    <3>3. stage'[h] = "collect"
      BY <3>1 DEF FdsTypes
    <3>4. QED
      BY <1>4, <2>2, <3>2, <3>3 DEF SavesLow
  <2>4. CASE rundown /\ stage' = [stage EXCEPT ![g] = AfterSave(g)]
    <3>1. told[1]
      BY <1>4, <2>1, <2>4 DEF Reported
    <3>2. \A h \in Goroutines : stage'[h] = "collect" <=> stage[h] = "collect"
      BY <1>4, <2>4 DEF AfterSave, FdsTypes
    <3>3. QED
      BY <1>3, <1>4, <3>1, <3>2 DEF ReportIsKept, Reported, SavesLow
  <2>5. QED
    BY <2>3, <2>4 DEF StartSave
<1>8. QED
  BY <1>6, <1>7

\* The notice makes no report: the check that gives it had made it.
LEMMA StartNotifyKeeps ==
  ASSUME IInv, FdsTypes, StageFollowsPc, SaveOwed, NEW g \in Goroutines, StartNotify(g)
  PROVE  SaveOwed'
<1>1. SUFFICES ASSUME N = 1, ~overlap PROVE FallsLow' /\ ReportIsKept'
  BY DEF SaveOwed, StartNotify
<1>2. FallsLow /\ ReportIsKept
  BY <1>1 DEF SaveOwed
<1>3. /\ stage[g] = "notify" /\ Devices = {1}
      /\ UNCHANGED <<status, file, snap, fell, rundown>>
  BY <1>1 DEF StartNotify, Spawn, Devices, checkerVars, rundownVars
<1>4. \A h \in Goroutines : Falling(h)' => Falling(h) /\ dev'[h] = dev[h]
  <2>1. \A h \in Goroutines : Falling(h)' => Falling(h)
    BY <1>3 DEF StartNotify, Falling, FdsTypes
  <2>2. \A h \in Goroutines : Falling(h) => pc[h] = "measure"
    BY MeasuredDevice DEF Falling, Checking
  <2>3. \A h \in Goroutines : pc[h] = "measure" => dev'[h] = dev[h]
    BY DEF StartNotify, Spawn, checkerVars, goVars, IInv, CheckerTypeOK
  <2>4. QED
    BY <2>1, <2>2, <2>3
<1>5. FallsLow'
  BY <1>2, <1>3, <1>4 DEF FallsLow
<1>6. \A h \in Goroutines : stage'[h] = "collect" <=> stage[h] = "collect"
  BY <1>3 DEF StartNotify, Spawn, FdsTypes, StageFollowsPc, Helping
<1>7. Reported(1)' => Reported(1)
  <2>1. CASE rundown
    BY <1>3, <2>1 DEF Reported, StartNotify, Spawn
  <2>2. CASE ~rundown
    BY <1>3, <2>2 DEF Reported
  <2>3. QED
    BY <2>1, <2>2
<1>8. ReportIsKept'
  BY <1>2, <1>3, <1>6, <1>7 DEF ReportIsKept, SavesLow
<1>9. QED
  BY <1>5, <1>8

\* Collecting and writing: what was low when it was reported is so in the file.
LEMMA SavingKeeps ==
  ASSUME IInv, FdsTypes, SaveOwed, NEW g \in Goroutines, Collect(g) \/ WriteFile(g)
  PROVE  SaveOwed'
<1>1. SUFFICES ASSUME N = 1, ~overlap PROVE FallsLow' /\ ReportIsKept'
  BY DEF SaveOwed, Collect, WriteFile
<1>2. FallsLow /\ ReportIsKept
  BY <1>1 DEF SaveOwed
<1>3. /\ stage[g] = "collect" /\ Devices = {1}
      /\ UNCHANGED <<status, told, fell, rundown, dev>>
  BY <1>1 DEF Collect, WriteFile, Devices, checkerVars, goVars, rundownVars
<1>4. \A h \in Goroutines : Falling(h)' => Falling(h)
  BY <1>3 DEF Collect, WriteFile, Falling, FdsTypes
<1>5. FallsLow'
  BY <1>2, <1>3, <1>4 DEF FallsLow
<1>6. ASSUME Reported(1)'
      PROVE  /\ status'[1] = 0
             /\ \A h \in Goroutines : stage'[h] = "collect" => SavesLow(h)'
             /\ file' = <<FALSE>> \/ \E h \in Goroutines : stage'[h] = "collect"
  <2>1. Reported(1)
    BY <1>3, <1>6 DEF Reported, Collect, WriteFile, FdsTypes
  <2>2. /\ status[1] = 0
        /\ \A h \in Goroutines : stage[h] = "collect" => SavesLow(h)
    BY <1>2, <1>3, <2>1 DEF ReportIsKept
  <2>3. CASE Collect(g)
    <3>1. snap[g] = <<>>
      <4>1. Len(snap[g]) < 1
        BY <1>1, <2>3 DEF Collect
      <4>2. ASSUME snap[g] = <<FALSE>> PROVE FALSE
        <5>1. Len(snap[g]) = 1
          BY <4>2
        <5>2. QED
          BY <4>1, <5>1
      <4>3. QED
        BY <1>3, <2>2, <4>2 DEF SavesLow
    <3>2. Append(snap[g], status[Len(snap[g]) + 1] # 0) = <<FALSE>>
      <4>1. Len(snap[g]) = 0 /\ Append(snap[g], FALSE) = <<FALSE>>
        BY <3>1
      <4>2. (status[Len(snap[g]) + 1] # 0) = FALSE
        BY <2>2, <4>1
      <4>3. QED
        BY <4>1, <4>2
    <3>3. snap' = [snap EXCEPT ![g] = <<FALSE>>] /\ stage' = stage
      BY <2>3, <3>2 DEF Collect
    <3>4. QED
      BY <1>3, <2>2, <3>3 DEF SavesLow, FdsTypes
  <2>4. CASE WriteFile(g)
    <3>1. file' = <<FALSE>>
      <4>1. Len(<<>>) = 0
        OBVIOUS
      <4>2. snap[g] # <<>>
        BY <1>1, <2>4, <4>1 DEF WriteFile
      <4>3. QED
        BY <1>3, <2>2, <2>4, <4>2 DEF SavesLow, WriteFile
    <3>2. \A h \in Goroutines : stage'[h] = "collect" =>
             stage[h] = "collect" /\ snap'[h] = snap[h]
      BY <2>4 DEF WriteFile, FdsTypes
    <3>3. QED
      BY <1>3, <2>2, <3>1, <3>2 DEF SavesLow
  <2>5. QED
    BY <2>3, <2>4
<1>7. ReportIsKept'
  BY <1>3, <1>6 DEF ReportIsKept
<1>8. QED
  BY <1>5, <1>7

\* loadState gives the only device what the file says of it.
LEMMA LoadsLow ==
  ASSUME file = <<FALSE>>
  PROVE  LoadedStatus(1) = 0
<1> DEFINE same == {j \in DOMAIN file : HashCode(j) = HashCode(1)}
<1>1. same = {1}
  BY DEF HashCode
<1>2. Min(same) = 1
  <2>1. 1 \in same /\ \A y \in same : 1 =< y
    BY <1>1
  <2>2. \A x \in same : x = 1
    BY <1>1
  <2>3. QED
    BY <2>1, <2>2 DEF Min
<1>3. same # {} /\ ~file[1]
  BY <1>1
<1>4. QED
  BY <1>2, <1>3 DEF LoadedStatus

\* The next life of the program begins with what was reported in the last one.
LEMMA StartAgainKeeps ==
  ASSUME IInv, FdsTypes, StageFollowsPc, SaveOwed, StartAgain
  PROVE  SaveOwed'
<1>1. SUFFICES ASSUME N = 1, ~overlap PROVE FallsLow' /\ ReportIsKept'
  BY DEF SaveOwed, StartAgain
<1>2. ReportIsKept
  BY <1>1 DEF SaveOwed
<1>3. \A g \in Goroutines : stage[g] # "collect"
  <2>1. stop = "stopped"
    BY DEF StartAgain, Restart
  <2>2. \A g \in Goroutines : pc[g] = "free"
    BY <2>1 DEF IInv, QuietWhenClosed, Alive, Free, At
  <2>3. QED
    BY <2>2 DEF StageFollowsPc, Helping
<1>4. /\ \A g \in Goroutines : stage'[g] = "none" /\ snap'[g] = <<>>
      /\ told' = told /\ file' = file /\ Devices = {1}
      /\ status'[1] = LoadedStatus(1)
  BY <1>1 DEF StartAgain, Devices
<1>5. FallsLow'
  BY <1>4 DEF FallsLow, Falling
<1>6. ReportIsKept'
  <2>1. SUFFICES ASSUME told[1] PROVE status'[1] = 0 /\ file = <<FALSE>>
    BY <1>4 DEF ReportIsKept, Reported, SavesLow
  <2>2. file = <<FALSE>>
    BY <1>2, <1>3, <1>4, <2>1 DEF ReportIsKept, Reported
  <2>3. QED
    BY <1>4, <2>2, LoadsLow
<1>7. QED
  BY <1>5, <1>6

\* Every step keeps what was reported.
LEMMA SaveStep ==
  ASSUME IInv, FdsTypes, StageFollowsPc, SaveInv, [Next]_vars
  PROVE  SaveInv'
<1>0. CollectsAlone /\ SaveOwed /\ CheckerTypeOK
  BY DEF SaveInv, IInv
<1>1. CollectsAlone'
  BY <1>0, CollectsStep
<1>2. CASE Scheduler
  <2>1. /\ UNCHANGED <<status, told, file, snap, overlap, stage, fell, dev>>
        /\ rundown => rundown'
    BY <1>2 DEF Scheduler, fdsVars, RunStep, RunEnter, RunAcquire, Select, WaitTimer,
                WaitShutdown, WaitCheckDone, StopStep, StopSignal, StopRundown,
                StopDrained, Tick, Scan, BeginWait, VisitBusy, VisitNotDue,
                EndVisit, GiveUpSignal, goVars, rundownVars
  <2>2. \A g \in Goroutines : Falling(g)' => Falling(g)
    BY <2>1 DEF Falling
  <2>3. SaveOwed'
    BY <1>0, <2>1, <2>2, NothingSaved
  <2>4. QED
    BY <1>1, <2>3 DEF SaveInv
<1>3. CASE Visit
  <2>1. /\ UNCHANGED <<status, told, file, snap, overlap, fell, rundown>>
        /\ \A g \in Goroutines : pc[g] # "free" =>
              stage'[g] = stage[g] /\ dev'[g] = dev[g]
    BY <1>3 DEF Visit, VisitDue, Free, At, goVars, FdsTypes, IInv, CheckerTypeOK
  <2>2. \A g \in Goroutines : pc[g] = "free" =>
           stage[g] = "none" /\ stage'[g] \in {"measure", "none"}
    BY <1>3 DEF Visit, StageFollowsPc, Checking, Helping, FdsTypes, Stages
  <2>3. \A g \in Goroutines : Falling(g)' => Falling(g) /\ dev'[g] = dev[g]
    BY <2>1, <2>2 DEF Falling
  <2>4. SaveOwed'
    BY <1>0, <2>1, <2>2, <2>3, NothingSaved
  <2>5. QED
    BY <1>1, <2>4 DEF SaveInv
<1>4. ASSUME NEW g \in Goroutines, EndCheck(g) \/ EndChild(g) PROVE SaveInv'
  <2>1. /\ UNCHANGED <<status, told, file, snap, overlap, rundown>>
        /\ stage' = [stage EXCEPT ![g] = "none"]
        /\ stage[g] \notin {"collect", "save", "notify"}
        /\ \A h \in Goroutines : h # g => dev'[h] = dev[h]
    BY <1>4 DEF EndCheck, EndChild, Finish, Release, rundownVars, IInv, CheckerTypeOK
  <2>2. \A h \in Goroutines : h # g => (fell'[h] <=> fell[h])
    BY <1>4 DEF EndCheck, EndChild, FdsTypes
  <2>3. stage'[g] = "none" /\ \A h \in Goroutines : h # g => stage'[h] = stage[h]
    BY <2>1 DEF FdsTypes
  <2>4. \A h \in Goroutines : Falling(h)' => Falling(h) /\ dev'[h] = dev[h]
    BY <2>1, <2>2, <2>3 DEF Falling
  <2>5. SaveOwed'
    BY <1>0, <2>1, <2>3, <2>4, NothingSaved
  <2>6. QED
    BY <1>1, <2>5 DEF SaveInv
<1>5. ASSUME NEW g \in Goroutines, EndWorker(g) PROVE SaveInv'
  <2>1. UNCHANGED <<status, told, file, snap, overlap, stage, fell, rundown>>
    BY <1>5 DEF EndWorker, Release, fdsVars
  <2>2. \A h \in Goroutines : pc[h] = "measure" => dev'[h] = dev[h]
    BY <1>5 DEF EndWorker, Release, IInv, CheckerTypeOK
  <2>3. \A h \in Goroutines : Falling(h) => pc[h] = "measure"
    BY MeasuredDevice DEF Falling, Checking
  <2>4. \A h \in Goroutines : Falling(h)' => Falling(h) /\ dev'[h] = dev[h]
    BY <2>1, <2>2, <2>3 DEF Falling
  <2>5. SaveOwed'
    BY <1>0, <2>1, <2>4, NothingSaved
  <2>6. QED
    BY <1>1, <2>5 DEF SaveInv
<1>6. CASE UNCHANGED vars
  <2>1. UNCHANGED <<status, told, file, snap, overlap, stage, fell, rundown, dev>>
    BY <1>6 DEF vars, fdsVars, checkerVars, goVars, rundownVars
  <2>2. \A g \in Goroutines : Falling(g)' => Falling(g)
    BY <2>1 DEF Falling
  <2>3. SaveOwed'
    BY <1>0, <2>1, <2>2, NothingSaved
  <2>4. QED
    BY <1>1, <2>3 DEF SaveInv
<1>7. ASSUME NEW g \in Goroutines,
             \/ \E newStatus \in 0 .. 1 : Measure(g, newStatus)
             \/ StartSave(g) \/ StartNotify(g) \/ Collect(g) \/ WriteFile(g)
      PROVE  SaveInv'
  BY <1>0, <1>1, <1>7, MeasureKeeps, StartSaveKeeps, StartNotifyKeeps, SavingKeeps
     DEF SaveInv
<1>8. CASE StartAgain
  BY <1>0, <1>1, <1>8, StartAgainKeeps DEF SaveInv
<1>9. QED
  BY <1>2, <1>3, <1>4, <1>5, <1>6, <1>7, <1>8 DEF Next

\* What was reported is in the file, or on its way there.
THEOREM SaveInvariance == Spec => []SaveInv
<1>1. Init => SaveInv
  BY DEF Init, SaveInv, CollectsAlone, SaveOwed, FallsLow, Falling, ReportIsKept,
         Reported
<1>2. IInv /\ FdsInv /\ SaveInv /\ [Next]_vars => SaveInv'
  BY SaveStep, TypeParts DEF FdsInv
<1>3. QED
  BY <1>1, <1>2, SchedulerInvariance, FdsInvariance, PTL DEF Spec

\* With one device, and no two saves at a time, what the user was told is in the
\* state file when Stop returns, in every life of the program.
THEOREM ToldSaved == Spec => []ToldIsSaved
<1>1. IInv /\ FdsInv /\ SaveInv => ToldIsSaved
  <2> SUFFICES ASSUME IInv, FdsInv, SaveInv, N = 1, stop = "stopped", ~overlap,
                      NEW d \in Devices, told[d]
               PROVE  file # <<>> /\ ~file[d]
    BY DEF ToldIsSaved
  <2>1. \A g \in Goroutines : pc[g] = "free"
    BY DEF IInv, QuietWhenClosed, Alive, Free, At
  <2>2. \A g \in Goroutines : stage[g] # "collect"
    BY <2>1 DEF FdsInv, StageFollowsPc, Helping
  <2>3. file = <<FALSE>>
    BY <2>2 DEF SaveInv, SaveOwed, ReportIsKept, Reported
  <2>4. d = 1
    BY DEF Devices
  <2>5. QED
    BY <2>3, <2>4
<1>2. QED
  BY <1>1, SchedulerInvariance, FdsInvariance, SaveInvariance, PTL
=============================================================================
