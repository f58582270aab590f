-------------------------- MODULE WebCheckerProofs --------------------------
(***************************************************************************)
(* The web checker keeps what the scheduler of PeriodicChecker guarantees, *)
(* for any sites and contents; in one life of the program it loses no      *)
(* notice but to a stop, and holds a page that stays the same for stalled  *)
(* after as many checks as there are content items.                        *)
(***************************************************************************)
EXTENDS WebChecker, PeriodicCheckerProofs, FiniteSetTheorems

\* The stages that a goroutine which checks goes through, and the other ones.
Checking == {"measure", "save", "notify", "finish"}
Helping == {"collect", "log", "over"}

StageFollowsPc ==
  \A g \in Goroutines :
    /\ stage[g] \in Checking <=> pc[g] = "measure"
    /\ stage[g] \in Helping <=> pc[g] = "child"

\* The part of the types that the argument needs.
NoticeTypes ==
  /\ status \in [Devices -> -1 .. 1]
  /\ stage \in [Goroutines -> Stages]
  /\ found \in [Goroutines -> -1 .. 1]
  /\ told \in [Devices -> Notices]

\* A check that saw a live site fail and has not notified yet.
Failing(g) == stage[g] \in {"save", "notify"} /\ found[g] # 1

\* A site that fell: the check that saw it is about to tell, or the module is stopping.
NoticeOwed ==
  \A d \in Devices :
    told[d] = "owed" => \/ rundown
                        \/ \E g \in Goroutines : Failing(g) /\ dev[g] = d

WebInv == NoticeTypes /\ StageFollowsPc /\ NoticeOwed

\* A step of the checker is a step of the scheduler or leaves it alone.
LEMMA NextImplements == [Next]_vars => [CheckerNext]_checkerVars
<1> SUFFICES ASSUME [Next]_vars PROVE [CheckerNext]_checkerVars
  OBVIOUS
<1>1. CASE Scheduler
  BY <1>1 DEF Scheduler, CheckerNext, LoopStep, CheckStep
<1>2. CASE Visit
  BY <1>2 DEF Visit, CheckerNext, LoopStep
<1>3. ASSUME NEW g \in Goroutines, NEW up \in BOOLEAN, NEW page \in Pages(dev[g]),
             Measure(g, up, page)
      PROVE  [CheckerNext]_checkerVars
  BY <1>3 DEF Measure
<1>4. ASSUME NEW g \in Goroutines, StartSave(g) \/ StartNotify(g)
      PROVE  [CheckerNext]_checkerVars
  BY <1>4 DEF StartSave, StartNotify, CheckerNext, CheckStep
<1>5. ASSUME NEW g \in Goroutines, EndCheck(g)
      PROVE  [CheckerNext]_checkerVars
  BY <1>5 DEF EndCheck, CheckerNext, CheckStep
<1>6. ASSUME NEW g \in Goroutines, Collect(g) \/ WriteFile(g)
      PROVE  [CheckerNext]_checkerVars
  BY <1>6 DEF Collect, WriteFile
<1>7. ASSUME NEW g \in Goroutines, EndChild(g) \/ EndWorker(g)
      PROVE  [CheckerNext]_checkerVars
  BY <1>7 DEF EndChild, EndWorker, CheckerNext, CheckStep
<1>8. CASE StartAgain
  BY <1>8 DEF StartAgain, CheckerNext
<1>9. CASE UNCHANGED vars
  BY <1>9 DEF vars
<1>10. QED
  BY <1>1, <1>2, <1>3, <1>4, <1>5, <1>6, <1>7, <1>8, <1>9 DEF Next

\* Every behaviour of the checker is one of the scheduler: its steps are steps of the
\* scheduler that do more, so that what is proved of the scheduler carries over.
LEMMA Implements == Spec => CheckerSpec
<1>1. Init => CheckerInit
  BY DEF Init
<1>2. QED
  BY <1>1, NextImplements, PTL DEF Spec, CheckerSpec

\* ... and the inductive invariant of the scheduler with it: one check per site,
\* exact references, and nothing left behind by Stop.
THEOREM SchedulerInvariance == Spec => []IInv
BY Implements, Invariance, PTL

\* The web checker inherits what the scheduler guarantees: no site is checked before
\* its period is over or by two goroutines, references are taken only before the
\* rundown, and nothing is left when Stop closes checkDone (checkWebs, Run and Stop of
\* webchecker.go).
THEOREM KeepsSchedule ==
  Spec => [](OneCheckPerDevice /\ QuietWhenClosed) /\ CheckSpacing /\ UsesRundown
BY Implements, OneCheck, Quiet, Spacing, Protected, PTL

----------------------------------------------------------------------------
\* A goroutine that checks works for a site, and no other one does.
LEMMA CheckedSite ==
  ASSUME IInv, StageFollowsPc, NEW g \in Goroutines, stage[g] \in Checking
  PROVE  pc[g] = "measure" /\ dev[g] \in Devices
BY DEF IInv, StageFollowsPc, MeasuresDevice, At

LEMMA OneChecks ==
  ASSUME IInv, StageFollowsPc, NEW g \in Goroutines, NEW h \in Goroutines,
         stage[g] \in Checking, stage[h] \in Checking, dev[g] = dev[h]
  PROVE  g = h
BY CheckedSite DEF IInv, OneCheckPerDevice, At

\* loadState gives a site the status 0 or 1.
LEMMA LoadedStatusType ==
  ASSUME NEW d \in Devices
  PROVE  LoadedStatus(d) \in -1 .. 1
BY DEF LoadedStatus

LEMMA StatusOfType ==
  ASSUME NEW d \in Devices, NEW up \in BOOLEAN, NEW page
  PROVE  StatusOf(d, up, page) \in -1 .. 1
BY DEF StatusOf

\* Every step keeps the types.
LEMMA TypesStep ==
  ASSUME IInv, NoticeTypes, StageFollowsPc, [Next]_vars
  PROVE  NoticeTypes'
<1> USE DEF NoticeTypes, Stages, Notices
<1>1. CASE Scheduler \/ UNCHANGED vars \/ \E g \in Goroutines : EndWorker(g)
  BY <1>1 DEF Scheduler, EndWorker, webVars, vars
<1>2. CASE Visit
  BY <1>2 DEF Visit
<1>3. ASSUME NEW g \in Goroutines, NEW up \in BOOLEAN, NEW page \in Pages(dev[g]),
             Measure(g, up, page)
      PROVE  NoticeTypes'
  <2>1. dev[g] \in Devices
    BY <1>3, CheckedSite DEF Measure, Checking
  <2>2. StatusOf(dev[g], up, page) \in -1 .. 1
    BY <2>1, StatusOfType
  <2>3. status' \in [Devices -> -1 .. 1] /\ found' \in [Goroutines -> -1 .. 1]
    <3>1. PICK new \in -1 .. 1 :
            /\ status' = [status EXCEPT ![dev[g]] = new]
            /\ \/ found' = [found EXCEPT ![g] = new]
               \/ found' = [found EXCEPT ![g] = 1]
      BY <1>3, <2>2 DEF Measure
    <3>2. 1 \in -1 .. 1
      OBVIOUS
    <3>3. status' \in [Devices -> -1 .. 1]
      BY <3>1
    <3>4. found' \in [Goroutines -> -1 .. 1]
      BY <3>1, <3>2, Zenon
    <3>5. QED
      BY <3>3, <3>4
  <2>4. stage' \in [Goroutines -> Stages]
    BY <1>3 DEF Measure
  <2>5. told' \in [Devices -> Notices]
    BY <1>3, <2>1 DEF Measure
  <2>6. QED
    BY <2>3, <2>4, <2>5
<1>4. ASSUME NEW g \in Goroutines, StartSave(g) PROVE NoticeTypes'
  BY <1>4 DEF StartSave, AfterSave
<1>5. ASSUME NEW g \in Goroutines, StartNotify(g) PROVE NoticeTypes'
  <2>1. stage' \in [Goroutines -> Stages]
    BY <1>5 DEF StartNotify
  <2>2. told' \in [Devices -> Notices]
    BY <1>5 DEF StartNotify
  <2>3. QED
    BY <1>5, <2>1, <2>2 DEF StartNotify
<1>6. ASSUME NEW g \in Goroutines, EndCheck(g) \/ EndChild(g) PROVE NoticeTypes'
  BY <1>6 DEF EndCheck, EndChild
<1>7. ASSUME NEW g \in Goroutines, Collect(g) \/ WriteFile(g) PROVE NoticeTypes'
  BY <1>7 DEF Collect, WriteFile
<1>8. CASE StartAgain
  BY <1>8, LoadedStatusType DEF StartAgain
<1>9. QED
  BY <1>1, <1>2, <1>3, <1>4, <1>5, <1>6, <1>7, <1>8 DEF Next

\* What a goroutine does fits what the scheduler knows of it.
LEMMA StageStep ==
  ASSUME CheckerTypeOK, NoticeTypes, StageFollowsPc, [Next]_vars
  PROVE  StageFollowsPc'
<1> USE DEF StageFollowsPc, Checking, Helping, CheckerTypeOK, NoticeTypes
<1>1. CASE Scheduler
  <2>1. \A g \in Goroutines : /\ pc'[g] = "measure" <=> pc[g] = "measure"
                              /\ pc'[g] = "child" <=> pc[g] = "child"
    BY <1>1 DEF Scheduler, RunStep, RunEnter, RunAcquire, Select, WaitTimer,
                WaitShutdown, WaitCheckDone, StopStep, StopSignal, StopRundown,
                StopDrained, Tick, Scan, BeginWait, VisitBusy, VisitNotDue,
                EndVisit, GiveUpSignal, goVars
  <2>2. stage' = stage
    BY <1>1 DEF Scheduler, webVars
  <2>3. QED
    BY <2>1, <2>2
<1>2. CASE Visit
  <2>1. CASE pc' = pc
    BY <1>2, <2>1 DEF Visit
  <2>2. ASSUME NEW g \in Goroutines, pc[g] = "free",
               pc' = [pc EXCEPT ![g] = "measure"]
        PROVE  StageFollowsPc'
    BY <1>2, <2>2 DEF Visit
  <2>3. QED
    BY <1>2, <2>1, <2>2 DEF Visit, VisitDue, Free, At, goVars
<1>3. ASSUME NEW g \in Goroutines, NEW up \in BOOLEAN, NEW page \in Pages(dev[g]),
             Measure(g, up, page)
      PROVE  StageFollowsPc'
  <2>1. /\ pc' = pc /\ stage[g] = "measure"
        /\ \/ stage' = [stage EXCEPT ![g] = "save"]
           \/ stage' = [stage EXCEPT ![g] = "finish"]
    BY <1>3 DEF Measure, checkerVars, goVars
  <2>2. QED
    BY <2>1
<1>4. ASSUME NEW g \in Goroutines, NEW h \in Goroutines, Spawn(g, h),
             stage[g] \in {"save", "notify"},
             NEW mine \in {"notify", "finish"}, NEW its \in {"collect", "log"},
             stage' = [stage EXCEPT ![g] = mine, ![h] = its]
      PROVE  StageFollowsPc'
  BY <1>4 DEF Spawn
<1>5. ASSUME NEW g \in Goroutines, StartSave(g) PROVE StageFollowsPc'
  <2>1. CASE rundown /\ stage' = [stage EXCEPT ![g] = AfterSave(g)] /\ pc' = pc
    BY <1>5, <2>1 DEF StartSave, AfterSave
  <2>2. CASE \E h \in Goroutines :
               /\ Spawn(g, h)
               /\ stage' = [stage EXCEPT ![g] = AfterSave(g), ![h] = "collect"]
    BY <1>4, <1>5, <2>2 DEF StartSave, AfterSave
  <2>3. QED
    BY <1>5, <2>1, <2>2 DEF StartSave, checkerVars, goVars
<1>6. ASSUME NEW g \in Goroutines, StartNotify(g) PROVE StageFollowsPc'
  <2>1. CASE rundown /\ stage' = [stage EXCEPT ![g] = "finish"] /\ pc' = pc
    BY <1>6, <2>1 DEF StartNotify
  <2>2. CASE \E h \in Goroutines :
               /\ Spawn(g, h)
               /\ stage' = [stage EXCEPT ![g] = "finish", ![h] = "log"]
    BY <1>4, <1>6, <2>2 DEF StartNotify
  <2>3. QED
    BY <1>6, <2>1, <2>2 DEF StartNotify, checkerVars, goVars
<1>7. ASSUME NEW g \in Goroutines, EndCheck(g) PROVE StageFollowsPc'
  BY <1>7 DEF EndCheck, Finish
<1>8. ASSUME NEW g \in Goroutines, Collect(g) \/ WriteFile(g)
      PROVE  StageFollowsPc'
  BY <1>8 DEF Collect, WriteFile, checkerVars, goVars
<1>9. ASSUME NEW g \in Goroutines, EndChild(g) PROVE StageFollowsPc'
  BY <1>9 DEF EndChild, Release
<1>10. ASSUME NEW g \in Goroutines, EndWorker(g) PROVE StageFollowsPc'
  BY <1>10 DEF EndWorker, Release, webVars
<1>11. CASE StartAgain
  BY <1>11 DEF StartAgain, Restart
<1>12. CASE UNCHANGED vars
  BY <1>12 DEF vars, webVars, checkerVars, goVars
<1>13. QED
  BY <1>1, <1>2, <1>3, <1>5, <1>6, <1>7, <1>8, <1>9, <1>10, <1>11, <1>12 DEF Next

----------------------------------------------------------------------------
\* A step that neither checks nor notifies leaves what is owed as it is.
LEMMA NothingNew ==
  ASSUME NoticeOwed, told' = told, rundown => rundown',
         \A g \in Goroutines : Failing(g)' <=> Failing(g),
         \A g \in Goroutines : Failing(g) => dev'[g] = dev[g]
  PROVE  NoticeOwed'
<1> HIDE DEF Failing
<1>1. QED
  BY DEF NoticeOwed

\* The swap of LastCheckStatus: who takes a site from live to failed owes the notice.
LEMMA MeasureOwes ==
  ASSUME IInv, NoticeTypes, StageFollowsPc, NoticeOwed,
         NEW g \in Goroutines, NEW up \in BOOLEAN, NEW page \in Pages(dev[g]),
         Measure(g, up, page)
  PROVE  NoticeOwed'
<1> DEFINE d == dev[g]
           new == StatusOf(d, up, page)
<1>1. /\ stage[g] = "measure" /\ d \in Devices
      /\ UNCHANGED <<dev, rundown>>
  BY CheckedSite DEF Measure, Checking, checkerVars, goVars, rundownVars
<1>2. new \in -1 .. 1 /\ status[d] \in -1 .. 1
  BY <1>1, StatusOfType DEF NoticeTypes
<1>3. /\ told' = [told EXCEPT ![d] = IF new = 1 THEN "nothing"
                                      ELSE IF status[d] = 1 THEN "owed" ELSE @]
      /\ found' = [found EXCEPT ![g] = IF status[d] = 1 THEN new ELSE 1]
      /\ stage' = [stage EXCEPT ![g] = IF status[d] # new THEN "save" ELSE "finish"]
  BY DEF Measure
<1> HIDE DEF d, new
<1>4. \A e \in Devices : e # d => told'[e] = told[e]
  BY <1>1, <1>3 DEF NoticeTypes
<1>5. \A h \in Goroutines : h # g => (Failing(h)' <=> Failing(h))
  BY <1>3 DEF Failing, NoticeTypes
<1>6. status[d] = 1 /\ new # 1 => Failing(g)'
  BY <1>3 DEF Failing, NoticeTypes
<1>7. ~Failing(g)
  BY <1>1 DEF Failing
<1>8. \A h \in Goroutines : Failing(h) => dev[h] # d
  BY <1>1, <1>7, OneChecks DEF Failing, Checking, d
<1>9. told'[d] = "owed" => rundown \/ (status[d] = 1 /\ new # 1)
  <2>1. told'[d] = IF new = 1 THEN "nothing" ELSE IF status[d] = 1 THEN "owed" ELSE told[d]
    BY <1>1, <1>3 DEF NoticeTypes
  <2>2. told[d] = "owed" => rundown
    BY <1>1, <1>8 DEF NoticeOwed
  <2>3. QED
    BY <2>1, <2>2
<1> HIDE DEF Failing
<1>10. ASSUME NEW e \in Devices, told'[e] = "owed"
       PROVE  rundown' \/ \E h \in Goroutines : Failing(h)' /\ dev'[h] = e
  <2>1. CASE e # d
    <3>1. rundown \/ \E h \in Goroutines : Failing(h) /\ dev[h] = e
      BY <1>4, <1>10, <2>1 DEF NoticeOwed
    <3>2. QED
      BY <1>1, <1>5, <1>7, <3>1
  <2>2. CASE e = d
    BY <1>1, <1>6, <1>9, <1>10, <2>2 DEF d
  <2>3. QED
    BY <2>1, <2>2
<1>11. QED
  BY <1>10 DEF NoticeOwed

\* The notice itself: what was owed is told, or the module is stopping.
LEMMA NotifyOwes ==
  ASSUME IInv, NoticeTypes, StageFollowsPc, NoticeOwed,
         NEW g \in Goroutines, StartNotify(g)
  PROVE  NoticeOwed'
<1> DEFINE d == dev[g]
<1>1. stage[g] = "notify" /\ d \in Devices
  BY CheckedSite DEF StartNotify, Checking
<1>2. rundown' = rundown
  BY DEF StartNotify, Spawn, checkerVars, rundownVars
<1>3. \A h \in Goroutines : h # g => (Failing(h) => Failing(h)')
  BY DEF StartNotify, Spawn, Failing, NoticeTypes, StageFollowsPc, Checking
<1>4. \A h \in Goroutines : Failing(h) => dev'[h] = dev[h]
  <2>1. \A h \in Goroutines : Failing(h) => pc[h] = "measure"
    BY CheckedSite DEF Failing, Checking
  <2>2. QED
    BY <2>1 DEF StartNotify, Spawn, checkerVars, goVars, IInv, CheckerTypeOK
<1>5. \/ \E notice \in Notices \ {"owed"} : told' = [told EXCEPT ![d] = notice]
      \/ told' = told /\ rundown
  BY DEF StartNotify, Notices
<1> HIDE DEF d, Failing
<1>6. ASSUME NEW e \in Devices, told'[e] = "owed"
      PROVE  rundown' \/ \E h \in Goroutines : Failing(h)' /\ dev'[h] = e
  <2>1. CASE rundown
    BY <1>2, <2>1
  <2>2. CASE ~rundown
    <3>1. told'[d] # "owed" /\ \A f \in Devices : f # d => told'[f] = told[f]
      BY <1>1, <1>5, <2>2 DEF NoticeTypes
    <3>2. e # d
      BY <1>6, <3>1
    <3>3. \E h \in Goroutines : Failing(h) /\ dev[h] = e
      BY <1>6, <2>2, <3>1, <3>2 DEF NoticeOwed
    <3>4. QED
      BY <1>3, <1>4, <3>2, <3>3 DEF d
  <2>3. QED
    BY <2>1, <2>2
<1>7. QED
  BY <1>6 DEF NoticeOwed

\* Every step keeps the account of the notices that are owed.
LEMMA NoticeStep ==
  ASSUME IInv, NoticeTypes, StageFollowsPc, NoticeOwed, [Next]_vars
  PROVE  NoticeOwed'
<1>0. \A g \in Goroutines : Failing(g) => pc[g] = "measure"
  BY CheckedSite DEF Failing, Checking
<1>1. CASE Scheduler
  <2>1. UNCHANGED <<status, told, stage, found>>
    BY <1>1 DEF Scheduler, webVars
  <2>2. dev' = dev /\ (rundown => rundown')
    BY <1>1 DEF Scheduler, RunStep, RunEnter, RunAcquire, Select, WaitTimer,
                WaitShutdown, WaitCheckDone, StopStep, StopSignal, StopRundown,
                StopDrained, Tick, Scan, BeginWait, VisitBusy, VisitNotDue,
                EndVisit, GiveUpSignal, goVars, rundownVars
  <2>3. QED
    BY <2>1, <2>2, NothingNew DEF Failing
<1>2. CASE Visit
  <2>1. /\ UNCHANGED <<status, told, found, rundown>>
        /\ \A g \in Goroutines : pc[g] # "free" =>
              stage'[g] = stage[g] /\ dev'[g] = dev[g]
    BY <1>2 DEF Visit, VisitDue, Free, At, goVars, NoticeTypes, IInv, CheckerTypeOK
  <2>2. \A g \in Goroutines : pc[g] = "free" => stage'[g] \in {"measure", stage[g]}
    BY <1>2 DEF Visit
  <2>3. \A g \in Goroutines : Failing(g)' <=> Failing(g)
    BY <1>0, <2>1, <2>2 DEF Failing
  <2>4. QED
    BY <1>0, <2>1, <2>3, NothingNew
<1>3. ASSUME NEW g \in Goroutines, NEW up \in BOOLEAN, NEW page \in Pages(dev[g]),
             Measure(g, up, page)
      PROVE  NoticeOwed'
  BY <1>3, MeasureOwes
<1>4. ASSUME NEW g \in Goroutines, StartSave(g) PROVE NoticeOwed'
  <2>1. /\ UNCHANGED <<status, told, found, rundown>>
        /\ \A h \in Goroutines : pc[h] = "measure" => dev'[h] = dev[h]
    BY <1>4 DEF StartSave, Spawn, checkerVars, goVars, rundownVars, IInv,
                CheckerTypeOK
  <2>2. \A h \in Goroutines : Failing(h)' <=> Failing(h)
    BY <1>4 DEF StartSave, Spawn, AfterSave, Failing, NoticeTypes, StageFollowsPc,
                Checking
  <2>3. QED
    BY <1>0, <2>1, <2>2, NothingNew
<1>5. ASSUME NEW g \in Goroutines, StartNotify(g) PROVE NoticeOwed'
  BY <1>5, NotifyOwes
<1>6. ASSUME NEW g \in Goroutines, EndCheck(g) \/ EndChild(g) PROVE NoticeOwed'
  <2>1. /\ UNCHANGED <<status, told, rundown>>
        /\ \A h \in Goroutines : h # g => dev'[h] = dev[h]
    BY <1>6 DEF EndCheck, EndChild, Finish, Release, rundownVars, IInv, CheckerTypeOK
  <2>2. ~Failing(g) /\ ~Failing(g)'
    BY <1>6 DEF EndCheck, EndChild, Failing, NoticeTypes
  <2>3. \A h \in Goroutines : h # g => (Failing(h)' <=> Failing(h))
    BY <1>6 DEF EndCheck, EndChild, Failing, NoticeTypes
  <2>4. QED
    BY <2>1, <2>2, <2>3, NothingNew
<1>7. ASSUME NEW g \in Goroutines, Collect(g) \/ WriteFile(g)
      PROVE  NoticeOwed'
  <2>1. UNCHANGED <<status, told, found, rundown, dev>>
    BY <1>7 DEF Collect, WriteFile, checkerVars, goVars, rundownVars
  <2>2. \A h \in Goroutines : Failing(h)' <=> Failing(h)
    BY <1>7 DEF Collect, WriteFile, Failing, NoticeTypes
  <2>3. QED
    BY <2>1, <2>2, NothingNew
<1>8. ASSUME NEW g \in Goroutines, EndWorker(g) PROVE NoticeOwed'
  <2>1. UNCHANGED <<status, told, found, stage, rundown>>
    BY <1>8 DEF EndWorker, Release, webVars
  <2>2. \A h \in Goroutines : pc[h] = "measure" => dev'[h] = dev[h]
    BY <1>8 DEF EndWorker, Release, IInv, CheckerTypeOK
  <2>3. \A h \in Goroutines : Failing(h)' <=> Failing(h)
    BY <2>1 DEF Failing
  <2>4. QED
    BY <1>0, <2>1, <2>2, <2>3, NothingNew
<1>9. CASE StartAgain
  <2>1. \A d \in Devices : told'[d] # "owed"
    BY <1>9 DEF StartAgain
  <2>2. QED
    BY <2>1 DEF NoticeOwed
<1>10. CASE UNCHANGED vars
  <2>1. UNCHANGED <<status, told, found, stage, rundown, dev>>
    BY <1>10 DEF vars, webVars, checkerVars, goVars, rundownVars
  <2>2. QED
    BY <2>1, NothingNew DEF Failing
<1>11. QED
  BY <1>1, <1>2, <1>3, <1>4, <1>5, <1>6, <1>7, <1>8, <1>9, <1>10 DEF Next

----------------------------------------------------------------------------
\* At first every site is live.
LEMMA InitWebInv == Init => WebInv
<1> SUFFICES ASSUME Init PROVE WebInv
  OBVIOUS
<1>1. NoticeTypes
  BY DEF Init, NoticeTypes, Stages, Notices
<1>2. StageFollowsPc
  BY DEF Init, CheckerInit, StageFollowsPc, Checking, Helping
<1>3. NoticeOwed
  BY DEF Init, NoticeOwed
<1>4. QED
  BY <1>1, <1>2, <1>3 DEF WebInv

\* A check that is over owes no notice any more.
LEMMA WebInvGivesTold == IInv /\ WebInv => FailureIsTold
<1> SUFFICES ASSUME IInv, WebInv, NEW g \in Goroutines,
                    stage[g] = "finish"
             PROVE  told[dev[g]] # "owed" \/ rundown
  BY DEF FailureIsTold
<1>1. dev[g] \in Devices
  BY CheckedSite DEF WebInv, Checking
<1>2. ~\E h \in Goroutines : Failing(h) /\ dev[h] = dev[g]
  BY OneChecks DEF WebInv, Failing, Checking
<1>3. QED
  BY <1>1, <1>2 DEF WebInv, NoticeOwed

----------------------------------------------------------------------------
(***************************************************************************)
(* What the check remembers of the pages.                                  *)
(***************************************************************************)
ContentTypes ==
  /\ DOMAIN last = Devices
  /\ \A d \in Devices :
       /\ DOMAIN last[d] = DOMAIN Content[d]
       /\ \A k \in DOMAIN last[d] : last[d][k] \in [DOMAIN Content[d][k] -> Values]
  /\ stayed \in [Devices -> Nat]

\* The types of the goroutine that saves.
SaveTypes ==
  /\ file \in {<<>>} \cup [Devices -> BOOLEAN]
  /\ snap \in [Goroutines -> Seq(BOOLEAN)]
  /\ \A g \in Goroutines : Len(snap[g]) <= N

\* The items that are yet to take part of the page Still.
Left(d) ==
  {k \in DOMAIN Content[d] :
     Content[d][k] # <<>> /\ last[d][k][1] # Still[d][k][Content[d][k][1]]}

\* Each live check of that page took one of them; when none is left, it is stalled.
StillCounted ==
  \A d \in Devices :
    /\ Left(d) # {} => Cardinality(Left(d)) + stayed[d] <= Len(Content[d])
    /\ stayed[d] > Len(Content[d]) => status[d] # 1

\* The least element of a set of numbers.
LEMMA MinIsLeast ==
  ASSUME NEW S \in SUBSET Nat, S # {}
  PROVE  Min(S) \in S /\ \A y \in S : Min(S) =< y
BY LeastExists DEF Min

\* The items and their groups are numbered from 1.
LEMMA ContentFacts ==
  ASSUME NEW d \in Devices
  PROVE  /\ DOMAIN Content[d] \subseteq Nat \ {0}
         /\ \A k \in DOMAIN Content[d] :
              /\ DOMAIN Content[d][k] \subseteq Nat \ {0}
              /\ \A i \in DOMAIN Content[d][k] : Content[d][k][i] \in 1 .. GroupCount
              /\ Content[d][k] # <<>> => 1 \in DOMAIN Content[d][k]
         /\ DOMAIN Content[d] = 1 .. Len(Content[d])
         /\ Len(Content[d]) \in Nat
<1>1. Content[d] \in Seq(Seq(1 .. GroupCount))
  BY ContentAssumption
<1>2. \A k \in DOMAIN Content[d] : Content[d][k] \in Seq(1 .. GroupCount)
  BY <1>1
<1>3. \A S : \A s \in Seq(S) : /\ DOMAIN s \subseteq Nat \ {0}
                               /\ \A i \in DOMAIN s : s[i] \in S
                               /\ s # <<>> => 1 \in DOMAIN s
  OBVIOUS
<1>4. \A k \in DOMAIN Content[d] :
        /\ DOMAIN Content[d][k] \subseteq Nat \ {0}
        /\ \A i \in DOMAIN Content[d][k] : Content[d][k][i] \in 1 .. GroupCount
        /\ Content[d][k] # <<>> => 1 \in DOMAIN Content[d][k]
  BY <1>2, <1>3
<1>5. /\ DOMAIN Content[d] \subseteq Nat \ {0}
      /\ DOMAIN Content[d] = 1 .. Len(Content[d]) /\ Len(Content[d]) \in Nat
  BY <1>1
<1>6. QED
  BY <1>4, <1>5

\* A page holds a match for each item.
LEMMA PageFacts ==
  ASSUME NEW d \in Devices, NEW page \in Pages(d), NEW k \in DOMAIN Content[d],
         page[k] # <<>>, NEW i \in DOMAIN Content[d][k]
  PROVE  page[k][Content[d][k][i]] \in Values
BY ContentFacts DEF Pages, Matches

\* What is remembered has the form of what was remembered before.
LEMMA RememberedType ==
  ASSUME ContentTypes, NEW d \in Devices, NEW up \in BOOLEAN, NEW page \in Pages(d)
  PROVE  /\ DOMAIN Remembered(d, up, page) = DOMAIN Content[d]
         /\ \A k \in DOMAIN Content[d] :
              Remembered(d, up, page)[k] \in [DOMAIN Content[d][k] -> Values]
<1> DEFINE k == Min(Changed(d, page))
           new == [i \in DOMAIN last[d][k] |-> IF i \in Walked(d, k, page[k])
                                               THEN page[k][Content[d][k][i]]
                                               ELSE last[d][k][i]]
<1>1. CASE ~up \/ Changed(d, page) = {} \/ page[k] = <<>>
  <2>1. Remembered(d, up, page) = last[d]
    BY <1>1 DEF Remembered
  <2>2. QED
    BY <2>1 DEF ContentTypes
<1>2. CASE up /\ Changed(d, page) # {} /\ page[k] # <<>>
  <2>1. k \in DOMAIN Content[d]
    BY <1>2, MinIsLeast, ContentFacts DEF Changed
  <2>2. Remembered(d, up, page) = [last[d] EXCEPT ![k] = new]
    BY <1>2 DEF Remembered
  <2>3. new \in [DOMAIN Content[d][k] -> Values]
    <3>1. last[d][k] \in [DOMAIN Content[d][k] -> Values]
      BY <2>1 DEF ContentTypes
    <3>2. \A i \in DOMAIN Content[d][k] :
            page[k][Content[d][k][i]] \in Values /\ last[d][k][i] \in Values
      BY <1>2, <2>1, <3>1, PageFacts
    <3>3. QED
      BY <3>1, <3>2
  <2> HIDE DEF k, new
  <2>4. QED
    BY <2>1, <2>2, <2>3 DEF ContentTypes
<1>3. QED
  BY <1>1, <1>2

\* The check compares the first group of an item first, and goes on from one that differs.
LEMMA WalkedFirst ==
  ASSUME ContentTypes, NEW d \in Devices, NEW k \in DOMAIN Content[d],
         Content[d][k] # <<>>, NEW match
  PROVE  /\ last[d][k][1] = match[Content[d][k][1]] => Walked(d, k, match) = {}
         /\ last[d][k][1] # match[Content[d][k][1]] => 1 \in Walked(d, k, match)
<1>1. /\ 1 \in DOMAIN Content[d][k]
      /\ DOMAIN Content[d][k] \subseteq Nat \ {0}
  BY ContentFacts
<1>2. QED
  BY <1>1 DEF Walked

\* Every compared item matches on the page Still.
LEMMA StillMatches ==
  ASSUME NEW d \in Devices, NEW k \in DOMAIN Content[d], Content[d][k] # <<>>
  PROVE  Still[d][k] # <<>>
<1>1. Still[d][k] \in [1 .. GroupCount -> Values]
  BY ContentAssumption
<1>2. Content[d][k][1] \in 1 .. GroupCount
  BY ContentFacts
<1>3. DOMAIN Still[d][k] # {}
  BY <1>1, <1>2
<1>4. QED
  BY <1>3

LEMMA LeftIsChanged ==
  ASSUME ContentTypes, NEW d \in Devices
  PROVE  Changed(d, Still[d]) = Left(d)
<1>1. ASSUME NEW k \in DOMAIN Content[d], Content[d][k] # <<>>
      PROVE  k \in Changed(d, Still[d]) <=> k \in Left(d)
  <2>1. Still[d][k] # <<>>
    BY <1>1, StillMatches
  <2>2. Walked(d, k, Still[d][k]) # {}
          <=> last[d][k][1] # Still[d][k][Content[d][k][1]]
    BY <1>1, WalkedFirst
  <2>3. QED
    BY <1>1, <2>1, <2>2 DEF Changed, Left
<1>2. QED
  BY <1>1 DEF Changed, Left

\* A set of items has as many elements as there are items at most.
LEMMA ItemsAreFinite ==
  ASSUME NEW d \in Devices, NEW S \in SUBSET DOMAIN Content[d]
  PROVE  /\ IsFiniteSet(S) /\ Cardinality(S) \in Nat
         /\ Cardinality(S) <= Len(Content[d])
<1>1. DOMAIN Content[d] = 1 .. Len(Content[d]) /\ Len(Content[d]) \in Nat
  BY ContentFacts
<1>2. \A n \in Nat : IsFiniteSet(1 .. n) /\ Cardinality(1 .. n) = n
  <2>1. ASSUME NEW n \in Nat PROVE IsFiniteSet(1 .. n) /\ Cardinality(1 .. n) = n
    <3>1. IsFiniteSet(1 .. n)
          /\ Cardinality(1 .. n) = IF 1 > n THEN 0 ELSE n - 1 + 1
      BY FS_Interval
    <3>2. QED
      BY <3>1
  <2>2. QED
    BY <2>1
<1>3. QED
  BY <1>1, <1>2, FS_Subset, FS_CardinalityType

\* A live check of the page Still takes the first item that is left.
LEMMA StillTakesOne ==
  ASSUME ContentTypes, NEW d \in Devices, Left(d) # {}, DOMAIN last' = Devices,
         last'[d] = Remembered(d, TRUE, Still[d])
  PROVE  Cardinality(Left(d)') = Cardinality(Left(d)) - 1
<1> DEFINE k == Min(Changed(d, Still[d]))
           walked == Walked(d, k, Still[d][k])
           new == [i \in DOMAIN last[d][k] |-> IF i \in walked
                                               THEN Still[d][k][Content[d][k][i]]
                                               ELSE last[d][k][i]]
<1>1. Changed(d, Still[d]) = Left(d)
  BY LeftIsChanged
<1>2. k \in Left(d)
  BY <1>1, MinIsLeast, ContentFacts DEF Changed
<1>3. /\ k \in DOMAIN Content[d] /\ Content[d][k] # <<>>
      /\ last[d][k][1] # Still[d][k][Content[d][k][1]]
  BY <1>2 DEF Left
<1>4. Still[d][k] # <<>> /\ 1 \in walked /\ 1 \in DOMAIN Content[d][k]
  BY <1>3, StillMatches, WalkedFirst, ContentFacts
<1>5. last'[d] = [last[d] EXCEPT ![k] = new]
  BY <1>1, <1>4 DEF Remembered
<1>6. k \in DOMAIN last[d] /\ DOMAIN last[d][k] = DOMAIN Content[d][k]
  BY <1>3 DEF ContentTypes
<1>7. new[1] = Still[d][k][Content[d][k][1]]
  BY <1>4, <1>6
<1> HIDE DEF k, new
<1>8. last'[d][k][1] = Still[d][k][Content[d][k][1]]
  BY <1>5, <1>6, <1>7
<1>9. \A j \in DOMAIN Content[d] : j # k => last'[d][j] = last[d][j]
  BY <1>5 DEF ContentTypes
<1>10. Left(d)' = Left(d) \ {k}
  BY <1>2, <1>8, <1>9 DEF Left
<1>11. QED
  <2>1. Left(d) \in SUBSET DOMAIN Content[d]
    BY DEF Left
  <2>2. IsFiniteSet(Left(d))
    BY <2>1, ItemsAreFinite
  <2>3. QED
    BY <1>2, <1>10, <2>2, FS_RemoveElement

\* The swap and the comparison keep the count.
LEMMA MeasureContent ==
  ASSUME IInv, NoticeTypes, StageFollowsPc, ContentTypes, StillCounted,
         NEW g \in Goroutines, NEW up \in BOOLEAN, NEW page \in Pages(dev[g]),
         Measure(g, up, page)
  PROVE  ContentTypes' /\ StillCounted'
<1> DEFINE d == dev[g]
<1>1. d \in Devices /\ page \in Pages(d)
  BY CheckedSite DEF Measure, Checking
<1>2. /\ last' = [last EXCEPT ![d] = Remembered(d, up, page)]
      /\ status' = [status EXCEPT ![d] = StatusOf(d, up, page)]
      /\ stayed' = [stayed EXCEPT ![d] = StillShown(d, up, page)]
  BY DEF Measure
<1> HIDE DEF d
<1>3. /\ last'[d] = Remembered(d, up, page) /\ status'[d] = StatusOf(d, up, page)
      /\ stayed'[d] = StillShown(d, up, page) /\ DOMAIN last' = Devices
      /\ \A e \in Devices : e # d => /\ last'[e] = last[e] /\ stayed'[e] = stayed[e]
                                     /\ status'[e] = status[e]
  BY <1>1, <1>2 DEF ContentTypes, NoticeTypes
<1>4. stayed[d] \in Nat /\ Len(Content[d]) \in Nat
  BY <1>1, ContentFacts DEF ContentTypes
<1>5. up /\ page = Still[d] =>
        /\ StillShown(d, up, page) \in {stayed[d] + 1, Len(Content[d]) + 1}
        /\ StillShown(d, up, page) <= stayed[d] + 1
  <2>1. {stayed[d] + 1, Len(Content[d]) + 1} \in SUBSET Nat
    BY <1>4
  <2>2. /\ Min({stayed[d] + 1, Len(Content[d]) + 1}) \in {stayed[d] + 1, Len(Content[d]) + 1}
        /\ Min({stayed[d] + 1, Len(Content[d]) + 1}) <= stayed[d] + 1
    BY <2>1, MinIsLeast
  <2>3. QED
    BY <2>2 DEF StillShown
<1>6. StillShown(d, up, page) \in Nat
  BY <1>4, <1>5 DEF StillShown
<1>7. ContentTypes'
  <2>1. stayed' \in [Devices -> Nat]
    BY <1>1, <1>2, <1>6 DEF ContentTypes
  <2>2. ASSUME NEW e \in Devices
        PROVE  /\ DOMAIN last'[e] = DOMAIN Content[e]
               /\ \A k \in DOMAIN last'[e] : last'[e][k] \in [DOMAIN Content[e][k] -> Values]
    <3>1. CASE e = d
      BY <1>1, <1>3, <3>1, RememberedType
    <3>2. CASE e # d
      BY <1>3, <3>2 DEF ContentTypes
    <3>3. QED
      BY <3>1, <3>2
  <2>3. QED
    BY <1>3, <2>1, <2>2 DEF ContentTypes
<1>8. ASSUME NEW e \in Devices
      PROVE  /\ Left(e)' # {} => Cardinality(Left(e)') + stayed'[e] <= Len(Content[e])
             /\ stayed'[e] > Len(Content[e]) => status'[e] # 1
  <2>0. /\ Len(Content[e]) \in Nat /\ Cardinality(Left(e)) \in Nat
        /\ Cardinality(Left(e)) <= Len(Content[e])
        /\ Left(e) # {} => Cardinality(Left(e)) + stayed[e] <= Len(Content[e])
        /\ stayed[e] > Len(Content[e]) => status[e] # 1
    <3>1. Left(e) \in SUBSET DOMAIN Content[e]
      BY DEF Left
    <3>2. QED
      BY <3>1, ContentFacts, ItemsAreFinite DEF StillCounted
  <2>1. CASE e # d
    <3>1. Left(e)' = Left(e)
      BY <1>3, <2>1 DEF Left
    <3>2. QED
      BY <1>3, <2>0, <2>1, <3>1
  <2>2. CASE e = d /\ ~up
    <3>1. last'[e] = last[e] /\ stayed'[e] = stayed[e] /\ status'[e] = 0
      BY <1>3, <2>2 DEF Remembered, StillShown, StatusOf
    <3>2. Left(e)' = Left(e)
      BY <3>1 DEF Left
    <3>3. QED
      BY <2>0, <3>1, <3>2
  <2>3. CASE e = d /\ up /\ page # Still[d]
    <3>1. stayed'[e] = 0
      BY <1>3, <2>3 DEF StillShown
    <3>2. Left(e)' \in SUBSET DOMAIN Content[e]
      BY DEF Left
    <3>3. Cardinality(Left(e)') \in Nat /\ Cardinality(Left(e)') <= Len(Content[e])
      BY <3>2, ItemsAreFinite
    <3>4. QED
      BY <2>0, <3>1, <3>3
  <2>4. CASE e = d /\ up /\ page = Still[d] /\ Left(d) = {}
    <3>1. Changed(d, page) = {}
      BY <1>1, <2>4, LeftIsChanged
    <3>2. last'[e] = last[e] /\ status'[e] = -1
      BY <1>3, <2>4, <3>1 DEF Remembered, StatusOf
    <3>3. Left(e)' = Left(e)
      BY <3>2 DEF Left
    <3>4. QED
      BY <2>4, <3>2, <3>3
  <2>5. CASE e = d /\ up /\ page = Still[d] /\ Left(d) # {}
    <3>1. up = TRUE
      BY <2>5
    <3>2. Cardinality(Left(e)') = Cardinality(Left(e)) - 1
      BY <1>1, <1>3, <2>5, <3>1, StillTakesOne
    <3>3. stayed'[e] <= stayed[e] + 1 /\ stayed'[e] \in Nat /\ stayed[e] \in Nat
      BY <1>3, <1>4, <1>5, <1>6, <2>5
    <3>4. Cardinality(Left(e)) + stayed[e] <= Len(Content[e])
      BY <2>0, <2>5
    <3>5. Cardinality(Left(e)) # 0
      <4>1. Left(e) \in SUBSET DOMAIN Content[e]
        BY DEF Left
      <4>2. IsFiniteSet(Left(e))
        BY <4>1, ItemsAreFinite
      <4>3. QED
        BY <2>5, <4>2, FS_EmptySet
    <3>6. QED
      BY <2>0, <3>2, <3>3, <3>4, <3>5
  <2>6. QED
    BY <2>1, <2>2, <2>3, <2>4, <2>5
<1>9. QED
  BY <1>7, <1>8 DEF StillCounted

\* Every step keeps what is remembered, and the count.
LEMMA ContentStep ==
  ASSUME IInv, NoticeTypes, StageFollowsPc, ContentTypes, StillCounted, [Next]_vars
  PROVE  ContentTypes' /\ StillCounted'
<1>1. CASE UNCHANGED <<last, status, stayed>>
  BY <1>1 DEF ContentTypes, StillCounted, Left
<1>2. ASSUME NEW g \in Goroutines, NEW up \in BOOLEAN, NEW page \in Pages(dev[g]),
             Measure(g, up, page)
      PROVE  ContentTypes' /\ StillCounted'
  BY <1>2, MeasureContent
<1>3. CASE StartAgain
  <2>1. /\ last' = [d \in Devices |-> NothingSeen(d)]
        /\ stayed' = [d \in Devices |-> 0]
    BY <1>3 DEF StartAgain
  <2>2. ContentTypes'
    BY <2>1, ContentAssumption DEF ContentTypes, NothingSeen
  <2>3. StillCounted'
    <3>1. ASSUME NEW d \in Devices
          PROVE  /\ Left(d)' # {} => Cardinality(Left(d)') + stayed'[d] <= Len(Content[d])
                 /\ stayed'[d] > Len(Content[d]) => status'[d] # 1
      <4>1. stayed'[d] = 0
        BY <2>1
      <4>2. Left(d)' \in SUBSET DOMAIN Content[d]
        BY DEF Left
      <4>3. Cardinality(Left(d)') \in Nat /\ Cardinality(Left(d)') <= Len(Content[d])
        BY <4>2, ItemsAreFinite
      <4>4. QED
        BY <4>1, <4>3, ContentFacts
    <3>2. QED
      BY <3>1 DEF StillCounted
  <2>4. QED
    BY <2>2, <2>3
<1>4. CASE Scheduler \/ Visit \/ UNCHANGED vars
  BY <1>1, <1>4 DEF Scheduler, Visit, webVars, vars
<1>5. ASSUME NEW g \in Goroutines,
             \/ StartSave(g) \/ StartNotify(g) \/ EndCheck(g) \/ Collect(g)
             \/ WriteFile(g) \/ EndChild(g) \/ EndWorker(g)
      PROVE  UNCHANGED <<last, status, stayed>>
  BY <1>5 DEF StartSave, StartNotify, EndCheck, Collect, WriteFile, EndChild, EndWorker,
              webVars
<1>6. QED
  BY <1>1, <1>2, <1>3, <1>4, <1>5 DEF Next

\* Every step keeps the types of the saves.
LEMMA SaveTypesStep ==
  ASSUME SaveTypes, [Next]_vars
  PROVE  SaveTypes'
<1> USE DEF SaveTypes
<1>0. <<>> \in Seq(BOOLEAN) /\ Len(<<>>) <= N
  BY CheckerAssumption
<1>1. CASE Scheduler \/ Visit \/ UNCHANGED vars \/ \E g \in Goroutines : EndWorker(g)
  BY <1>1 DEF Scheduler, Visit, EndWorker, webVars, vars
<1>2. ASSUME NEW g \in Goroutines, NEW up \in BOOLEAN, NEW page \in Pages(dev[g]),
             Measure(g, up, page)
      PROVE  SaveTypes'
  BY <1>2 DEF Measure
<1>3. ASSUME NEW g \in Goroutines, StartSave(g) \/ StartNotify(g) \/ EndCheck(g) \/ EndChild(g)
      PROVE  SaveTypes'
  BY <1>3 DEF StartSave, StartNotify, EndCheck, EndChild
<1>4. ASSUME NEW g \in Goroutines, Collect(g) PROVE SaveTypes'
  <2>1. snap[g] \in Seq(BOOLEAN) /\ Len(snap[g]) \in Nat /\ Len(snap[g]) < N
    BY <1>4 DEF Collect
  <2>2. PICK b \in BOOLEAN : snap' = [snap EXCEPT ![g] = Append(snap[g], b)]
    BY <1>4 DEF Collect
  <2>3. /\ Append(snap[g], b) \in Seq(BOOLEAN)
        /\ Len(Append(snap[g], b)) <= N
    BY <2>1, CheckerAssumption
  <2>4. QED
    BY <1>4, <2>2, <2>3 DEF Collect
<1>5. ASSUME NEW g \in Goroutines, WriteFile(g) PROVE SaveTypes'
  <2>1. snap[g] \in [Devices -> BOOLEAN]
    BY <1>5 DEF WriteFile, Devices
  <2>2. /\ snap' \in [Goroutines -> Seq(BOOLEAN)]
        /\ \A h \in Goroutines : Len(snap'[h]) <= N
    BY <1>0, <1>5 DEF WriteFile
  <2>3. file' \in [Devices -> BOOLEAN]
    BY <1>5, <2>1 DEF WriteFile
  <2>4. QED
    BY <2>2, <2>3
<1>6. CASE StartAgain
  <2>1. /\ snap' \in [Goroutines -> Seq(BOOLEAN)]
        /\ \A h \in Goroutines : Len(snap'[h]) <= N
    BY <1>0, <1>6 DEF StartAgain
  <2>2. file' = file
    BY <1>6 DEF StartAgain
  <2>3. QED
    BY <2>1, <2>2
<1>7. QED
  BY <1>1, <1>2, <1>3, <1>4, <1>5, <1>6 DEF Next

----------------------------------------------------------------------------
ContentInv == SaveTypes /\ ContentTypes /\ StillCounted

\* At first nothing was seen.
LEMMA InitContentInv == Init => ContentInv
<1> SUFFICES ASSUME Init PROVE ContentInv
  OBVIOUS
<1>1. SaveTypes
  <2>1. <<>> \in Seq(BOOLEAN) /\ Len(<<>>) <= N
    BY CheckerAssumption
  <2>2. QED
    BY <2>1 DEF Init, SaveTypes
<1>2. ContentTypes
  BY ContentAssumption DEF Init, ContentTypes, NothingSeen
<1>3. StillCounted
  <2>1. ASSUME NEW d \in Devices
        PROVE  /\ Left(d) # {} => Cardinality(Left(d)) + stayed[d] <= Len(Content[d])
               /\ stayed[d] > Len(Content[d]) => status[d] # 1
    <3>1. stayed[d] = 0
      BY DEF Init
    <3>2. Left(d) \in SUBSET DOMAIN Content[d]
      BY DEF Left
    <3>3. QED
      BY <3>1, <3>2, ItemsAreFinite, ContentFacts
  <2>2. QED
    BY <2>1 DEF StillCounted
<1>4. QED
  BY <1>1, <1>2, <1>3 DEF ContentInv

THEOREM WebInvariance == Spec => [](IInv /\ WebInv /\ ContentInv)
<1>1. IInv /\ WebInv /\ [Next]_vars => WebInv'
  <2>1. IInv => CheckerTypeOK
    BY DEF IInv
  <2>2. QED
    BY <2>1, TypesStep, StageStep, NoticeStep DEF WebInv
<1>2. IInv /\ WebInv /\ ContentInv /\ [Next]_vars => ContentInv'
  BY ContentStep, SaveTypesStep DEF WebInv, ContentInv
<1>3. QED
  BY <1>1, <1>2, InitWebInv, InitContentInv, SchedulerInvariance, PTL DEF Spec

\* No check that saw a live site fall ends before the user was told, whatever other
\* goroutines check, save and notify at the time, unless the module is stopping, and in
\* every life of the program (checkWebs).
THEOREM NoFailureIsLost == Spec => []FailureIsTold
BY WebInvGivesTold, WebInvariance, PTL

\* Every variable of the checker keeps its type, for any pages and contents and over
\* restarts.
THEOREM WebTypeCorrect == Spec => []TypeOK
<1>1. IInv /\ WebInv /\ ContentInv => TypeOK
  BY DEF IInv, WebInv, NoticeTypes, ContentInv, SaveTypes, ContentTypes, TypeOK
<1>2. QED
  BY <1>1, WebInvariance, PTL

\* Any page on which every item matches is held for live once for each content item at
\* most when it stays, for any items, groups and pages before it, and down times in
\* between (checkWebs).
THEOREM SameStalls == Spec => []SameIsStalled
<1>1. ContentInv => SameIsStalled
  BY DEF ContentInv, StillCounted, SameIsStalled
<1>2. QED
  BY <1>1, WebInvariance, PTL
=============================================================================
