----------------------- MODULE TcpPortsCheckerProofs -----------------------
(***************************************************************************)
(* The TCP ports checker does its work in the steps of PeriodicChecker,    *)
(* and therefore has its safety properties for any groups of ports; and no *)
(* port that a check finds closed is forgotten but to a stop.              *)
(***************************************************************************)
EXTENDS TcpPortsChecker, PeriodicCheckerProofs

\* A step of the checker is a step of the scheduler or leaves it alone.
LEMMA NextImplements == [Next]_vars => [CheckerNext]_checkerVars
<1> SUFFICES ASSUME [Next]_vars PROVE [CheckerNext]_checkerVars
  OBVIOUS
<1>1. CASE Scheduler
  BY <1>1 DEF Scheduler, CheckerNext, LoopStep, CheckStep
<1>2. CASE Visit
  BY <1>2 DEF Visit, CheckerNext, LoopStep
<1>3. ASSUME NEW g \in Goroutines, GoStep(g)
      PROVE  [CheckerNext]_checkerVars
  <2>1. CASE \E up \in SUBSET Ports[dev[g]] : Dial(g, up)
    BY <2>1 DEF Dial
  <2>2. CASE LockStatus(g) \/ Compare(g) \/ CopyItem(g) \/ Collect(g) \/ WriteFile(g)
    BY <2>2 DEF LockStatus, Compare, CopyItem, Collect, WriteFile
  <2>3. CASE StartSave(g) \/ StartNotify(g)
    BY <2>3 DEF StartSave, StartNotify, CheckerNext, CheckStep
  <2>4. CASE EndCheck(g) \/ EndChild(g) \/ EndWorker(g)
    BY <2>4 DEF EndCheck, EndChild, EndWorker, CheckerNext, CheckStep
  <2>5. QED
    BY <1>3, <2>1, <2>2, <2>3, <2>4 DEF GoStep
<1>4. CASE StartAgain
  BY <1>4 DEF StartAgain, CheckerNext
<1>5. CASE UNCHANGED vars
  BY <1>5 DEF vars
<1>6. QED
  BY <1>1, <1>2, <1>3, <1>4, <1>5 DEF Next

\* Every behaviour of the checker is one of the scheduler: its steps are steps of the
\* scheduler that do more, so that what is proved of the scheduler carries over.
LEMMA Implements == Spec => CheckerSpec
<1>1. Init => CheckerInit
  BY DEF Init
<1>2. QED
  BY <1>1, NextImplements, PTL DEF Spec, CheckerSpec

\* ... and the inductive invariant of the scheduler with it: one check per group
\* and exact references.
THEOREM SchedulerInvariance == Spec => []IInv
BY Implements, Invariance, PTL

\* The TCP ports checker inherits what the scheduler guarantees: no group of ports is
\* checked before its period is over or by two goroutines, references are taken only
\* before the rundown, and when Stop closes checkDone, if it ever comes to that,
\* nothing is left (checkTcpPorts, Run and Stop of tcpports.go).
THEOREM KeepsSchedule ==
  Spec => [](OneCheckPerDevice /\ QuietWhenClosed) /\ CheckSpacing /\ UsesRundown
BY Implements, OneCheck, Quiet, Spacing, Protected, PTL

----------------------------------------------------------------------------
\* The stages that a goroutine which checks goes through, and the other ones.
Checking == {"dial", "compare", "locked", "save", "notify", "finish"}
Helping == {"copy", "collect", "log", "over"}

StageFollowsPc ==
  \A g \in Goroutines :
    /\ stage[g] \in Checking <=> pc[g] = "measure"
    /\ stage[g] \in Helping <=> pc[g] = "child"

\* The types but those of the scheduler.
TcpTypes ==
  /\ open \in [Devices -> SUBSET AllPorts]
  /\ locked \in [Devices -> BOOLEAN]
  /\ file \in {<<>>} \cup [Devices -> SUBSET AllPorts]
  /\ stage \in [Goroutines -> Stages]
  /\ status \in [Goroutines -> SUBSET AllPorts]
  /\ dropDetected \in [Goroutines -> BOOLEAN]
  /\ copied \in [Goroutines -> BOOLEAN]
  /\ toSave \in [Goroutines -> Seq(SUBSET AllPorts)]
  /\ \A g \in Goroutines : /\ Len(toSave[g]) <= N
                           /\ stage[g] = "collect" => Len(toSave[g]) < N
  /\ answered \in [Devices -> SUBSET AllPorts]
  /\ lost \in [Devices -> BOOLEAN]

\* A check that has the answers and has not compared them yet.
Comparing(g) == stage[g] \in {"compare", "locked"}

\* What answered last is among the open ports of the group, unless the check that
\* got the answers is still about to compare them.
AnswersAreKnown ==
  \A d \in Devices :
    /\ answered[d] \subseteq Ports[d]
    /\ \/ answered[d] \subseteq open[d]
       \/ \E g \in Goroutines : Comparing(g) /\ dev[g] = d

\* A check that has lost a port will see the drop, has seen it, or is over in a
\* module that is stopping.
LossIsSeen ==
  \A g \in Goroutines :
    /\ Comparing(g) => status[g] = answered[dev[g]]
    /\ lost[dev[g]] =>
         /\ Comparing(g) => Dropped(dev[g], status[g]) # {}
         /\ stage[g] \in {"save", "notify"} => dropDetected[g]
         /\ stage[g] = "finish" => rundown

TcpInv == TcpTypes /\ StageFollowsPc /\ AnswersAreKnown /\ LossIsSeen

----------------------------------------------------------------------------
LEMMA TypeParts ==
  /\ TypeOK <=> CheckerTypeOK /\ TcpTypes
  /\ TypeOK' <=> CheckerTypeOK' /\ TcpTypes'
BY DEF TypeOK, TcpTypes

\* A goroutine that checks works for a group, and no other one does.
LEMMA CheckedGroup ==
  ASSUME IInv, StageFollowsPc, NEW g \in Goroutines, stage[g] \in Checking
  PROVE  pc[g] = "measure" /\ dev[g] \in Devices
BY DEF IInv, StageFollowsPc, MeasuresDevice, At

LEMMA OneChecks ==
  ASSUME IInv, StageFollowsPc, NEW g \in Goroutines, NEW h \in Goroutines,
         stage[g] \in Checking, stage[h] \in Checking, dev[g] = dev[h]
  PROVE  g = h
BY CheckedGroup DEF IInv, OneCheckPerDevice, At

\* loadState gives a group ports of the first item in the file, ...
LEMMA LoadedPortsType ==
  ASSUME NEW d \in Devices, TcpTypes
  PROVE  LoadedPorts(d) \in SUBSET AllPorts
<1> DEFINE same == {j \in DOMAIN file : HashCode(j) = HashCode(d)}
<1>1. CASE same = {}
  BY <1>1 DEF LoadedPorts
<1>2. CASE same # {}
  <2>1. file \in [Devices -> SUBSET AllPorts]
    BY <1>2 DEF TcpTypes
  <2>2. same \in SUBSET Nat /\ same \subseteq Devices
    BY <2>1, CheckerAssumption DEF Devices
  <2>3. Min(same) \in same
    BY <1>2, <2>2, LeastExists DEF Min
  <2>4. file[Min(same)] \in SUBSET AllPorts
    BY <2>1, <2>2, <2>3
  <2>5. QED
    BY <1>2, <2>4 DEF LoadedPorts
<1>3. QED
  BY <1>1, <1>2

\* ... and a save writes one of the ports of the group.
LEMMA SavedPortsType ==
  ASSUME NEW d \in Devices
  PROVE  SavedPorts(d) \in SUBSET AllPorts
<1>1. Ports[d] # {} /\ \A p \in Ports[d] : p \in Nat /\ p <= 65535
  BY PortsAssumption
<1> DEFINE room == {65535 - p : p \in Ports[d]}
<1>2. room \in SUBSET Nat /\ room # {}
  <2>1. \A p \in Ports[d] : 65535 - p \in Nat
    BY <1>1
  <2>2. room \subseteq Nat
    BY <2>1
  <2>3. room # {}
    BY <1>1
  <2>4. QED
    BY <2>2, <2>3
<1> HIDE DEF room
<1>3. PICK r \in room : \A q \in room : r =< q
  BY <1>2, LeastExists, Zenon
<1>4. PICK p \in Ports[d] : r = 65535 - p
  BY <1>3 DEF room
<1>5. \A q \in Ports[d] : p >= q
  <2>1. SUFFICES ASSUME NEW q \in Ports[d] PROVE p >= q
    OBVIOUS
  <2>2. r =< 65535 - q
    BY <1>3 DEF room
  <2>3. QED
    <3>1. p \in Int /\ q \in Int
      BY <1>1
    <3>2. QED
      BY <1>4, <2>2, <3>1
<1>6. Max(Ports[d]) \in Ports[d]
  BY <1>5 DEF Max
<1>7. QED
  BY <1>6 DEF SavedPorts, AllPorts

\* Every step keeps the types.
LEMMA TypesStep ==
  ASSUME IInv, TcpTypes, StageFollowsPc, [Next]_vars
  PROVE  TcpTypes'
<1> USE DEF TcpTypes, Stages
<1>0. <<>> \in Seq(SUBSET AllPorts) /\ Len(<<>>) <= N
  BY CheckerAssumption
<1>1. CASE Scheduler \/ UNCHANGED vars \/ \E g \in Goroutines : EndWorker(g)
  BY <1>1 DEF Scheduler, EndWorker, tcpVars, vars
<1>2. CASE Visit
  BY <1>2 DEF Visit
<1>3. ASSUME NEW g \in Goroutines, NEW up \in SUBSET Ports[dev[g]], Dial(g, up)
      PROVE  TcpTypes'
  <2>1. dev[g] \in Devices /\ up \in SUBSET AllPorts
    BY <1>3, CheckedGroup DEF Dial, Checking, AllPorts
  <2>2. /\ status' \in [Goroutines -> SUBSET AllPorts]
        /\ stage' \in [Goroutines -> Stages]
        /\ answered' \in [Devices -> SUBSET AllPorts]
    BY <1>3, <2>1 DEF Dial
  <2>3. lost' \in [Devices -> BOOLEAN]
    BY <1>3 DEF Dial
  <2>4. QED
    BY <1>3, <2>2, <2>3 DEF Dial
<1>4. ASSUME NEW g \in Goroutines, LockStatus(g) PROVE TcpTypes'
  BY <1>4 DEF LockStatus
<1>5. ASSUME NEW g \in Goroutines, Compare(g) PROVE TcpTypes'
  <2>1. /\ (open[dev[g]] \ Dropped(dev[g], status[g])) \cup status[g] \in SUBSET AllPorts
        /\ dev[g] \in Devices
    BY <1>5, CheckedGroup DEF Compare, Checking
  <2>2. open' \in [Devices -> SUBSET AllPorts] /\ status' \in [Goroutines -> SUBSET AllPorts]
    BY <1>5, <2>1 DEF Compare
  <2>3. dropDetected' \in [Goroutines -> BOOLEAN] /\ locked' \in [Devices -> BOOLEAN]
    BY <1>5 DEF Compare
  <2>4. stage' \in [Goroutines -> Stages]
    BY <1>5 DEF Compare
  <2>5. QED
    BY <1>5, <2>2, <2>3, <2>4 DEF Compare
<1>6. ASSUME NEW g \in Goroutines, StartSave(g) PROVE TcpTypes'
  <2>1. stage' \in [Goroutines -> Stages]
    BY <1>6 DEF StartSave, AfterSave
  <2>2. \A h \in Goroutines : stage'[h] = "collect" => stage[h] = "collect"
    BY <1>6 DEF StartSave, AfterSave
  <2>3. QED
    BY <1>6, <2>1, <2>2 DEF StartSave
<1>7. ASSUME NEW g \in Goroutines, StartNotify(g) PROVE TcpTypes'
  <2>1. stage' \in [Goroutines -> Stages] /\ lost' \in [Devices -> BOOLEAN]
    BY <1>7 DEF StartNotify
  <2>2. QED
    BY <1>7, <2>1 DEF StartNotify
<1>8. ASSUME NEW g \in Goroutines, EndCheck(g) PROVE TcpTypes'
  BY <1>8 DEF EndCheck
<1>9. ASSUME NEW g \in Goroutines, CopyItem(g) PROVE TcpTypes'
  <2>1. Len(toSave[g]) + 1 \in Devices
    BY <1>9, CheckerAssumption DEF CopyItem, Devices
  <2>2. copied' \in [Goroutines -> BOOLEAN]
    BY <1>9, <2>1 DEF CopyItem
  <2>3. QED
    BY <1>9, <2>2 DEF CopyItem
<1>10. ASSUME NEW g \in Goroutines, Collect(g) PROVE TcpTypes'
  <2>1. toSave[g] \in Seq(SUBSET AllPorts) /\ Len(toSave[g]) + 1 \in Devices
    BY <1>10, CheckerAssumption DEF Collect, Devices
  <2>2. PICK s \in SUBSET AllPorts : toSave' = [toSave EXCEPT ![g] = Append(toSave[g], s)]
    BY <1>10, <2>1, SavedPortsType DEF Collect
  <2>3. /\ Append(toSave[g], s) \in Seq(SUBSET AllPorts)
        /\ Len(Append(toSave[g], s)) <= N
    <3>1. Len(toSave[g]) < N /\ Len(toSave[g]) \in Nat
      BY <1>10 DEF Collect
    <3>2. QED
      BY <2>1, <3>1, CheckerAssumption
  <2>4. QED
    BY <1>10, <2>2, <2>3 DEF Collect
<1>11. ASSUME NEW g \in Goroutines, WriteFile(g) PROVE TcpTypes'
  <2>1. toSave[g] \in [Devices -> SUBSET AllPorts]
    BY <1>11 DEF WriteFile, Devices
  <2>2. /\ toSave' \in [Goroutines -> Seq(SUBSET AllPorts)]
        /\ \A h \in Goroutines : Len(toSave'[h]) <= N
    BY <1>0, <1>11 DEF WriteFile
  <2>3. file' \in [Devices -> SUBSET AllPorts] /\ stage' \in [Goroutines -> Stages]
    BY <1>11, <2>1 DEF WriteFile
  <2>4. QED
    BY <1>11, <2>2, <2>3 DEF WriteFile
<1>12. ASSUME NEW g \in Goroutines, EndChild(g) PROVE TcpTypes'
  BY <1>12 DEF EndChild
<1>13. CASE StartAgain
  <2>1. /\ toSave' \in [Goroutines -> Seq(SUBSET AllPorts)]
        /\ \A h \in Goroutines : Len(toSave'[h]) <= N
    BY <1>0, <1>13 DEF StartAgain
  <2>2. open' \in [Devices -> SUBSET AllPorts]
    BY <1>13, LoadedPortsType DEF StartAgain
  <2>3. QED
    BY <1>13, <2>1, <2>2 DEF StartAgain
<1>14. QED
  BY <1>1, <1>2, <1>3, <1>4, <1>5, <1>6, <1>7, <1>8, <1>9, <1>10, <1>11, <1>12, <1>13
     DEF Next, GoStep

\* What a goroutine does fits what the scheduler knows of it.
LEMMA StageStep ==
  ASSUME CheckerTypeOK, TcpTypes, StageFollowsPc, [Next]_vars
  PROVE  StageFollowsPc'
<1> USE DEF StageFollowsPc, Checking, Helping, CheckerTypeOK, TcpTypes
<1>1. CASE Scheduler
  <2>1. \A g \in Goroutines : /\ pc'[g] = "measure" <=> pc[g] = "measure"
                              /\ pc'[g] = "child" <=> pc[g] = "child"
    BY <1>1 DEF Scheduler, RunStep, RunEnter, RunAcquire, Select, WaitTimer,
                WaitShutdown, WaitCheckDone, StopStep, StopSignal, StopRundown,
                StopDrained, Tick, Scan, BeginWait, VisitBusy, VisitNotDue,
                EndVisit, GiveUpSignal, goVars
  <2>2. stage' = stage
    BY <1>1 DEF Scheduler, tcpVars
  <2>3. QED
    BY <2>1, <2>2
<1>2. CASE Visit
  <2>1. CASE pc' = pc
    BY <1>2, <2>1 DEF Visit
  <2>2. ASSUME NEW g \in Goroutines, pc[g] = "free",
               pc' = [pc EXCEPT ![g] = "measure"]
        PROVE  StageFollowsPc'
    BY <1>2, <2>2 DEF Visit
  <2>3. QED
    BY <1>2, <2>1, <2>2 DEF Visit, VisitDue, Free, At, goVars
<1>3. ASSUME NEW g \in Goroutines, NEW up, Dial(g, up) PROVE StageFollowsPc'
  BY <1>3 DEF Dial, checkerVars, goVars
<1>4. ASSUME NEW g \in Goroutines, LockStatus(g) PROVE StageFollowsPc'
  BY <1>4 DEF LockStatus, checkerVars, goVars
<1>5. ASSUME NEW g \in Goroutines, Compare(g) PROVE StageFollowsPc'
  <2>1. /\ pc' = pc /\ stage[g] = "locked"
        /\ \/ stage' = [stage EXCEPT ![g] = "save"]
           \/ stage' = [stage EXCEPT ![g] = "finish"]
    BY <1>5 DEF Compare, checkerVars, goVars
  <2>2. QED
    BY <2>1
<1>6. ASSUME NEW g \in Goroutines, NEW h \in Goroutines, Spawn(g, h),
             stage[g] \in {"save", "notify"},
             NEW mine \in {"notify", "finish"}, NEW its \in {"copy", "log"},
             stage' = [stage EXCEPT ![g] = mine, ![h] = its]
      PROVE  StageFollowsPc'
  BY <1>6 DEF Spawn
<1>7. ASSUME NEW g \in Goroutines, StartSave(g) PROVE StageFollowsPc'
  <2>1. CASE rundown /\ stage' = [stage EXCEPT ![g] = AfterSave(g)] /\ pc' = pc
    BY <1>7, <2>1 DEF StartSave, AfterSave
  <2>2. CASE \E h \in Goroutines :
               /\ Spawn(g, h)
               /\ stage' = [stage EXCEPT ![g] = AfterSave(g), ![h] = "copy"]
    BY <1>6, <1>7, <2>2 DEF StartSave, AfterSave
  <2>3. QED
    BY <1>7, <2>1, <2>2 DEF StartSave, checkerVars, goVars
<1>8. ASSUME NEW g \in Goroutines, StartNotify(g) PROVE StageFollowsPc'
  <2>1. CASE rundown /\ stage' = [stage EXCEPT ![g] = "finish"] /\ pc' = pc
    BY <1>8, <2>1 DEF StartNotify
  <2>2. CASE \E h \in Goroutines :
               /\ Spawn(g, h)
               /\ stage' = [stage EXCEPT ![g] = "finish", ![h] = "log"]
    BY <1>6, <1>8, <2>2 DEF StartNotify
  <2>3. QED
    BY <1>8, <2>1, <2>2 DEF StartNotify, checkerVars, goVars
<1>9. ASSUME NEW g \in Goroutines, EndCheck(g) PROVE StageFollowsPc'
  BY <1>9 DEF EndCheck, Finish
<1>10. ASSUME NEW g \in Goroutines, CopyItem(g) \/ Collect(g) \/ WriteFile(g)
       PROVE  StageFollowsPc'
  BY <1>10 DEF CopyItem, Collect, WriteFile, checkerVars, goVars
<1>11. ASSUME NEW g \in Goroutines, EndChild(g) PROVE StageFollowsPc'
  BY <1>11 DEF EndChild, Release
<1>12. ASSUME NEW g \in Goroutines, EndWorker(g) PROVE StageFollowsPc'
  BY <1>12 DEF EndWorker, Release, tcpVars
<1>13. CASE StartAgain
  BY <1>13 DEF StartAgain, Restart
<1>14. CASE UNCHANGED vars
  BY <1>14 DEF vars, tcpVars, checkerVars, goVars
<1>15. QED
  BY <1>1, <1>2, <1>3, <1>4, <1>5, <1>7, <1>8, <1>9, <1>10, <1>11, <1>12, <1>13, <1>14
     DEF Next, GoStep

----------------------------------------------------------------------------
\* A step that neither gets answers nor compares them keeps the account of them, when
\* no check ends with a port lost.
LEMMA NothingNew ==
  ASSUME IInv, StageFollowsPc, AnswersAreKnown, LossIsSeen,
         UNCHANGED <<open, answered>>, rundown => rundown',
         \A d \in Devices : lost'[d] => lost[d],
         \A g \in Goroutines : Comparing(g)' <=> Comparing(g),
         \A g \in Goroutines : Comparing(g) => status'[g] = status[g] /\ dev'[g] = dev[g],
         \A g \in Goroutines :
           stage'[g] \in {"save", "notify"} =>
             /\ stage[g] \in {"save", "notify"}
             /\ dropDetected'[g] = dropDetected[g]
             /\ dev'[g] = dev[g],
         \A g \in Goroutines :
           stage'[g] = "finish" => \/ stage[g] = "finish" /\ dev'[g] = dev[g]
                                   \/ ~lost'[dev'[g]] \/ rundown'
  PROVE  AnswersAreKnown' /\ LossIsSeen'
<1>1. \A g \in Goroutines : stage[g] \in Checking => dev[g] \in Devices
  BY CheckedGroup
<1>2. AnswersAreKnown'
  <2> HIDE DEF Comparing
  <2>1. QED
    BY DEF AnswersAreKnown
<1>3. LossIsSeen'
  <2> SUFFICES ASSUME NEW g \in Goroutines
               PROVE  /\ Comparing(g)' => status'[g] = answered'[dev'[g]]
                      /\ lost'[dev'[g]] =>
                           /\ Comparing(g)' => Dropped(dev[g], status[g])' # {}
                           /\ stage'[g] \in {"save", "notify"} => dropDetected'[g]
                           /\ stage'[g] = "finish" => rundown'
    BY DEF LossIsSeen
  <2>1. Comparing(g) => dev[g] \in Devices
    BY <1>1 DEF Comparing, Checking
  <2>2. Comparing(g)' => status'[g] = answered'[dev'[g]]
    BY DEF LossIsSeen
  <2>3. lost'[dev'[g]] /\ Comparing(g)' => Dropped(dev[g], status[g])' # {}
    BY <2>1 DEF LossIsSeen, Dropped
  <2>4. lost'[dev'[g]] /\ stage'[g] \in {"save", "notify"} => dropDetected'[g]
    BY <1>1 DEF LossIsSeen, Checking
  <2>5. lost'[dev'[g]] /\ stage'[g] = "finish" => rundown'
    BY <1>1 DEF LossIsSeen, Checking
  <2>6. QED
    BY <2>2, <2>3, <2>4, <2>5
<1>4. QED
  BY <1>2, <1>3

\* The answers come in: what was open and did not answer is what is lost.
LEMMA DialStep ==
  ASSUME IInv, TcpTypes, StageFollowsPc, AnswersAreKnown, LossIsSeen,
         NEW g \in Goroutines, NEW up \in SUBSET Ports[dev[g]], Dial(g, up)
  PROVE  AnswersAreKnown' /\ LossIsSeen'
<1> DEFINE d == dev[g]
<1>1. stage[g] = "dial" /\ d \in Devices /\ UNCHANGED <<dev, rundown, open, dropDetected>>
  BY CheckedGroup DEF Dial, Checking, checkerVars, goVars, rundownVars
<1>2. /\ status' = [status EXCEPT ![g] = up]
      /\ stage' = [stage EXCEPT ![g] = "compare"]
      /\ answered' = [answered EXCEPT ![d] = up]
      /\ lost' = [lost EXCEPT ![d] = answered[d] \ up # {}]
  BY DEF Dial
<1>3. \A h \in Goroutines : h # g /\ stage[h] \in Checking => dev[h] # d /\ dev[h] \in Devices
  BY <1>1, OneChecks, CheckedGroup DEF Checking
<1>4. answered[d] \subseteq Ports[d] /\ answered[d] \subseteq open[d]
  <2>1. ~\E h \in Goroutines : Comparing(h) /\ dev[h] = d
    BY <1>1, <1>3 DEF Comparing, Checking
  <2>2. QED
    BY <1>1, <2>1 DEF AnswersAreKnown
<1>5. Comparing(g)' /\ status'[g] = up /\ answered'[d] = up
  BY <1>1, <1>2 DEF Comparing, TcpTypes
<1>6. lost'[d] => Dropped(d, up) # {}
  BY <1>1, <1>2, <1>4 DEF Dropped, TcpTypes
<1>7. \A e \in Devices : e # d => answered'[e] = answered[e] /\ (lost'[e] <=> lost[e])
  BY <1>2 DEF TcpTypes
<1>8. \A h \in Goroutines : h # g => stage'[h] = stage[h] /\ status'[h] = status[h]
  BY <1>2 DEF TcpTypes
<1> HIDE DEF d
<1>9. AnswersAreKnown'
  <2> SUFFICES ASSUME NEW e \in Devices
               PROVE  /\ answered'[e] \subseteq Ports[e]
                      /\ \/ answered'[e] \subseteq open'[e]
                         \/ \E h \in Goroutines : Comparing(h)' /\ dev'[h] = e
    BY DEF AnswersAreKnown
  <2>1. CASE e = d
    BY <1>1, <1>5, <2>1 DEF d
  <2>2. CASE e # d
    <3>1. /\ answered[e] \subseteq Ports[e]
          /\ \/ answered[e] \subseteq open[e]
             \/ \E h \in Goroutines : Comparing(h) /\ dev[h] = e
      BY DEF AnswersAreKnown
    <3>2. \A h \in Goroutines : h # g => (Comparing(h)' <=> Comparing(h))
      BY <1>8 DEF Comparing
    <3>3. QED
      BY <1>1, <1>7, <2>2, <3>1, <3>2 DEF d
  <2>3. QED
    BY <2>1, <2>2
<1>10. LossIsSeen'
  <2> SUFFICES ASSUME NEW h \in Goroutines
               PROVE  /\ Comparing(h)' => status'[h] = answered'[dev'[h]]
                      /\ lost'[dev'[h]] =>
                           /\ Comparing(h)' => Dropped(dev[h], status[h])' # {}
                           /\ stage'[h] \in {"save", "notify"} => dropDetected'[h]
                           /\ stage'[h] = "finish" => rundown'
    BY DEF LossIsSeen
  <2>1. CASE h = g
    <3>1. stage'[h] = "compare" /\ dev'[h] = d
      BY <1>1, <1>2, <2>1 DEF TcpTypes, d
    <3>2. Dropped(dev[h], status[h])' = Dropped(d, up)
      BY <1>1, <1>5, <2>1, <3>1 DEF Dropped
    <3>3. QED
      BY <1>5, <1>6, <2>1, <3>1, <3>2
  <2>2. CASE h # g
    <3>1. stage'[h] = stage[h] /\ status'[h] = status[h] /\ dev'[h] = dev[h]
      BY <1>1, <1>8, <2>2
    <3>2. CASE stage[h] \in Checking
      <4>1. answered'[dev[h]] = answered[dev[h]] /\ (lost'[dev[h]] <=> lost[dev[h]])
        BY <1>3, <1>7, <2>2, <3>2
      <4>2. Dropped(dev[h], status[h])' = Dropped(dev[h], status[h])
        BY <1>1, <3>1 DEF Dropped
      <4>3. QED
        BY <1>1, <3>1, <4>1, <4>2 DEF LossIsSeen, Comparing
    <3>3. CASE stage[h] \notin Checking
      BY <3>1, <3>3 DEF Comparing, Checking
    <3>4. QED
      BY <3>2, <3>3
  <2>3. QED
    BY <2>1, <2>2
<1>11. QED
  BY <1>9, <1>10

\* The answers are compared: the check notices a drop exactly if it lost a port.
LEMMA CompareStep ==
  ASSUME IInv, TcpTypes, StageFollowsPc, AnswersAreKnown, LossIsSeen,
         NEW g \in Goroutines, Compare(g)
  PROVE  AnswersAreKnown' /\ LossIsSeen'
<1> DEFINE d == dev[g]
           up == status[g]
<1>1. /\ stage[g] = "locked" /\ Comparing(g) /\ d \in Devices
      /\ UNCHANGED <<dev, rundown, answered, lost>>
  BY CheckedGroup DEF Compare, Comparing, Checking, checkerVars, goVars, rundownVars
<1>2. /\ open' = [open EXCEPT ![d] = (@ \ Dropped(d, up)) \cup up]
      /\ dropDetected' = [dropDetected EXCEPT ![g] = Dropped(d, up) # {}]
      /\ status' = [status EXCEPT ![g] = {}]
      /\ \/ stage' = [stage EXCEPT ![g] = "save"]
         \/ stage' = [stage EXCEPT ![g] = "finish"] /\ Dropped(d, up) = {}
  BY DEF Compare
<1>3. \A h \in Goroutines : h # g /\ stage[h] \in Checking => dev[h] # d /\ dev[h] \in Devices
  BY <1>1, OneChecks, CheckedGroup DEF Checking
<1>4. up = answered[d] /\ (lost[d] => Dropped(d, up) # {})
  BY <1>1 DEF LossIsSeen
<1>5. /\ open'[d] = (open[d] \ Dropped(d, up)) \cup up
      /\ \A e \in Devices : e # d => open'[e] = open[e]
      /\ dropDetected'[g] <=> Dropped(d, up) # {}
      /\ stage'[g] \in {"save", "finish"}
      /\ stage'[g] = "finish" => Dropped(d, up) = {}
  BY <1>1, <1>2 DEF TcpTypes
<1>6. \A h \in Goroutines : h # g => /\ stage'[h] = stage[h] /\ status'[h] = status[h]
                                     /\ dropDetected'[h] <=> dropDetected[h]
  BY <1>2 DEF TcpTypes
<1> HIDE DEF d, up
<1>7. AnswersAreKnown'
  <2> SUFFICES ASSUME NEW e \in Devices
               PROVE  /\ answered'[e] \subseteq Ports[e]
                      /\ \/ answered'[e] \subseteq open'[e]
                         \/ \E h \in Goroutines : Comparing(h)' /\ dev'[h] = e
    BY DEF AnswersAreKnown
  <2>0. /\ answered[e] \subseteq Ports[e]
        /\ \/ answered[e] \subseteq open[e]
           \/ \E h \in Goroutines : Comparing(h) /\ dev[h] = e
    BY DEF AnswersAreKnown
  <2>1. CASE e = d
    BY <1>1, <1>4, <1>5, <2>0, <2>1
  <2>2. CASE e # d
    <3>1. \A h \in Goroutines : h # g => (Comparing(h)' <=> Comparing(h))
      BY <1>6 DEF Comparing
    <3>2. QED
      BY <1>1, <1>5, <2>0, <2>2, <3>1 DEF d
  <2>3. QED
    BY <2>1, <2>2
<1>8. LossIsSeen'
  <2> SUFFICES ASSUME NEW h \in Goroutines
               PROVE  /\ Comparing(h)' => status'[h] = answered'[dev'[h]]
                      /\ lost'[dev'[h]] =>
                           /\ Comparing(h)' => Dropped(dev[h], status[h])' # {}
                           /\ stage'[h] \in {"save", "notify"} => dropDetected'[h]
                           /\ stage'[h] = "finish" => rundown'
    BY DEF LossIsSeen
  <2>1. CASE h = g
    BY <1>1, <1>4, <1>5, <2>1 DEF Comparing, d
  <2>2. CASE h # g
    <3>1. stage'[h] = stage[h] /\ status'[h] = status[h] /\ dev'[h] = dev[h]
      BY <1>1, <1>6, <2>2
    <3>2. CASE stage[h] \in Checking
      <4>1. Dropped(dev[h], status[h])' = Dropped(dev[h], status[h])
        BY <1>3, <1>5, <2>2, <3>1, <3>2 DEF Dropped
      <4>2. QED
        BY <1>1, <1>6, <2>2, <3>1, <4>1 DEF LossIsSeen, Comparing
    <3>3. CASE stage[h] \notin Checking
      BY <3>1, <3>3 DEF Comparing, Checking
    <3>4. QED
      BY <3>2, <3>3
  <2>3. QED
    BY <2>1, <2>2
<1>9. QED
  BY <1>7, <1>8

\* Every step keeps the account of the answers and of what they lose.
LEMMA LossStep ==
  ASSUME IInv, TcpTypes, StageFollowsPc, AnswersAreKnown, LossIsSeen, [Next]_vars
  PROVE  AnswersAreKnown' /\ LossIsSeen'
<1>0. \A g \in Goroutines : stage[g] \in Checking => pc[g] = "measure" /\ dev[g] \in Devices
  BY CheckedGroup
<1>1. CASE Scheduler
  <2>1. UNCHANGED tcpVars
    BY <1>1 DEF Scheduler
  <2>2. dev' = dev /\ (rundown => rundown')
    BY <1>1 DEF Scheduler, RunStep, RunEnter, RunAcquire, Select, WaitTimer,
                WaitShutdown, WaitCheckDone, StopStep, StopSignal, StopRundown,
                StopDrained, Tick, Scan, BeginWait, VisitBusy, VisitNotDue,
                EndVisit, GiveUpSignal, goVars, rundownVars
  <2>3. QED
    BY <2>1, <2>2, NothingNew DEF tcpVars, Comparing
<1>2. CASE Visit
  <2>1. /\ UNCHANGED <<open, answered, lost, status, dropDetected, rundown>>
        /\ \A g \in Goroutines : pc[g] # "free" =>
              stage'[g] = stage[g] /\ dev'[g] = dev[g]
    BY <1>2 DEF Visit, VisitDue, Free, At, goVars, TcpTypes, IInv, CheckerTypeOK
  <2>2. \A g \in Goroutines : pc[g] = "free" => stage'[g] \in {"dial", stage[g]}
    BY <1>2 DEF Visit
  <2>3. \A g \in Goroutines : stage'[g] \in Checking \ {"dial"} =>
                                stage'[g] = stage[g] /\ dev'[g] = dev[g]
    BY <1>0, <2>1, <2>2 DEF Checking
  <2>4. \A g \in Goroutines : Comparing(g) => stage'[g] = stage[g] /\ dev'[g] = dev[g]
    BY <1>0, <2>1 DEF Comparing, Checking
  <2>5. QED
    BY <2>1, <2>3, <2>4, NothingNew DEF Comparing, Checking
<1>3. ASSUME NEW g \in Goroutines, NEW up \in SUBSET Ports[dev[g]], Dial(g, up)
      PROVE  AnswersAreKnown' /\ LossIsSeen'
  BY <1>3, DialStep
<1>4. ASSUME NEW g \in Goroutines, Compare(g) PROVE AnswersAreKnown' /\ LossIsSeen'
  BY <1>4, CompareStep
<1>5. ASSUME NEW g \in Goroutines,
             LockStatus(g) \/ CopyItem(g) \/ Collect(g) \/ WriteFile(g)
      PROVE  AnswersAreKnown' /\ LossIsSeen'
  <2>1. UNCHANGED <<open, answered, lost, status, dropDetected, rundown, dev>>
    BY <1>5 DEF LockStatus, CopyItem, Collect, WriteFile, checkerVars, goVars, rundownVars
  <2>2. \A h \in Goroutines :
          /\ Comparing(h)' <=> Comparing(h)
          /\ stage'[h] \in {"save", "notify", "finish"} => stage'[h] = stage[h]
    BY <1>5 DEF LockStatus, CopyItem, Collect, WriteFile, Comparing, TcpTypes
  <2>3. QED
    BY <2>1, <2>2, NothingNew
<1>6. ASSUME NEW g \in Goroutines, StartSave(g) PROVE AnswersAreKnown' /\ LossIsSeen'
  <2>1. /\ UNCHANGED <<open, answered, lost, status, dropDetected, rundown>>
        /\ \A h \in Goroutines : pc[h] = "measure" => dev'[h] = dev[h]
    BY <1>6 DEF StartSave, Spawn, checkerVars, goVars, rundownVars, IInv, CheckerTypeOK
  <2>2. \A h \in Goroutines :
          /\ h # g /\ stage[h] \in Checking => stage'[h] = stage[h]
          /\ h # g /\ stage[h] \notin Checking => stage'[h] \notin Checking
    BY <1>6 DEF StartSave, Spawn, TcpTypes, StageFollowsPc, Checking
  <2>3. /\ stage[g] = "save" /\ stage[g] \in Checking
        /\ stage'[g] \in {"notify", "finish"}
        /\ stage'[g] = "finish" => ~dropDetected[g]
    BY <1>6 DEF StartSave, Spawn, AfterSave, TcpTypes, StageFollowsPc, Checking
  <2>4. stage'[g] = "finish" => ~lost'[dev'[g]]
    BY <1>0, <2>1, <2>3 DEF LossIsSeen
  <2>5. \A h \in Goroutines : Comparing(h)' <=> Comparing(h)
    BY <2>2, <2>3 DEF Comparing, Checking
  <2>6. \A h \in Goroutines : Comparing(h) => status'[h] = status[h] /\ dev'[h] = dev[h]
    BY <1>0, <2>1 DEF Comparing, Checking
  <2>7. \A h \in Goroutines :
          stage'[h] \in {"save", "notify"} =>
            stage[h] \in {"save", "notify"} /\ dev'[h] = dev[h]
    BY <1>0, <2>1, <2>2, <2>3 DEF Checking
  <2>8. \A h \in Goroutines :
          stage'[h] = "finish" => \/ stage[h] = "finish" /\ dev'[h] = dev[h]
                                  \/ ~lost'[dev'[h]]
    BY <1>0, <2>1, <2>2, <2>4 DEF Checking
  <2>9. QED
    BY <2>1, <2>5, <2>6, <2>7, <2>8, NothingNew
<1>7. ASSUME NEW g \in Goroutines, StartNotify(g) PROVE AnswersAreKnown' /\ LossIsSeen'
  <2>1. /\ UNCHANGED <<open, answered, status, dropDetected, rundown>>
        /\ \A h \in Goroutines : pc[h] = "measure" => dev'[h] = dev[h]
    BY <1>7 DEF StartNotify, Spawn, checkerVars, goVars, rundownVars, IInv, CheckerTypeOK
  <2>2. \A h \in Goroutines :
          /\ h # g /\ stage[h] \in Checking => stage'[h] = stage[h]
          /\ h # g /\ stage[h] \notin Checking => stage'[h] \notin Checking
    BY <1>7 DEF StartNotify, Spawn, TcpTypes, StageFollowsPc, Checking
  <2>3. stage[g] = "notify" /\ stage'[g] = "finish" /\ dev[g] \in Devices /\ dev'[g] = dev[g]
    BY <1>0, <1>7, <2>1 DEF StartNotify, Spawn, TcpTypes, StageFollowsPc, Checking
  <2>4. \/ lost' = [lost EXCEPT ![dev[g]] = FALSE]
        \/ rundown /\ lost' = lost
    BY <1>7 DEF StartNotify
  <2>5. \A d \in Devices : lost'[d] => lost[d]
    BY <2>4 DEF TcpTypes
  <2>6. ~lost'[dev'[g]] \/ rundown'
    BY <2>1, <2>3, <2>4 DEF TcpTypes
  <2>7. \A h \in Goroutines : Comparing(h)' <=> Comparing(h)
    BY <2>2, <2>3 DEF Comparing, Checking
  <2>8. \A h \in Goroutines : Comparing(h) => dev'[h] = dev[h]
    BY <1>0, <2>1 DEF Comparing, Checking
  <2>9. \A h \in Goroutines :
          /\ stage'[h] \in {"save", "notify"} => stage[h] = stage'[h] /\ dev'[h] = dev[h]
          /\ stage'[h] = "finish" => h = g \/ (stage[h] = "finish" /\ dev'[h] = dev[h])
    BY <1>0, <2>1, <2>2, <2>3 DEF Checking
  <2>10. QED
    BY <2>1, <2>5, <2>6, <2>7, <2>8, <2>9, NothingNew
<1>8. ASSUME NEW g \in Goroutines, EndCheck(g) \/ EndChild(g)
      PROVE  AnswersAreKnown' /\ LossIsSeen'
  <2>1. /\ UNCHANGED <<open, answered, status, rundown>>
        /\ \A h \in Goroutines : h # g => /\ dev'[h] = dev[h] /\ stage'[h] = stage[h]
                                          /\ dropDetected'[h] = dropDetected[h]
    BY <1>8 DEF EndCheck, EndChild, Finish, Release, rundownVars, IInv, CheckerTypeOK,
       TcpTypes
  <2>2. \A d \in Devices : lost'[d] => lost[d]
    BY <1>8 DEF EndCheck, EndChild, TcpTypes
  <2>3. ~Comparing(g) /\ stage'[g] = "none"
    BY <1>8 DEF EndCheck, EndChild, Comparing, TcpTypes
  <2>4. \A h \in Goroutines : Comparing(h)' <=> Comparing(h)
    BY <2>1, <2>3 DEF Comparing
  <2>5. QED
    BY <2>1, <2>2, <2>3, <2>4, NothingNew
<1>9. ASSUME NEW g \in Goroutines, EndWorker(g) PROVE AnswersAreKnown' /\ LossIsSeen'
  <2>1. UNCHANGED tcpVars /\ rundown' = rundown
    BY <1>9 DEF EndWorker, Release
  <2>2. \A h \in Goroutines : stage[h] \in Checking => dev'[h] = dev[h]
    BY <1>0, <1>9 DEF EndWorker, Release, IInv, CheckerTypeOK
  <2>3. QED
    BY <2>1, <2>2, NothingNew DEF tcpVars, Comparing, Checking
<1>10. CASE StartAgain
  <2>1. /\ \A d \in Devices : answered'[d] = {}
        /\ \A g \in Goroutines : stage'[g] = "none"
    BY <1>10 DEF StartAgain
  <2>2. QED
    BY <2>1 DEF AnswersAreKnown, LossIsSeen, Comparing
<1>11. CASE UNCHANGED vars
  <2>1. UNCHANGED tcpVars /\ UNCHANGED <<rundown, dev>>
    BY <1>11 DEF vars, checkerVars, goVars, rundownVars
  <2>2. QED
    BY <2>1, NothingNew DEF tcpVars, Comparing
<1>12. QED
  BY <1>1, <1>2, <1>3, <1>4, <1>5, <1>6, <1>7, <1>8, <1>9, <1>10, <1>11 DEF Next, GoStep

----------------------------------------------------------------------------
\* At first nothing has answered.
LEMMA InitTcpInv == Init => TcpInv
<1> SUFFICES ASSUME Init PROVE TcpInv
  OBVIOUS
<1>1. <<>> \in Seq(SUBSET AllPorts) /\ Len(<<>>) <= N
  BY CheckerAssumption
<1>2. TcpTypes
  BY <1>1 DEF Init, TcpTypes, Stages
<1>3. StageFollowsPc
  BY DEF Init, CheckerInit, StageFollowsPc, Checking, Helping
<1>4. AnswersAreKnown /\ LossIsSeen
  BY DEF Init, AnswersAreKnown, LossIsSeen, Comparing
<1>5. QED
  BY <1>2, <1>3, <1>4 DEF TcpInv

THEOREM TcpInvariance == Spec => []TcpInv
<1>1. IInv /\ TcpInv /\ [Next]_vars => TcpInv'
  <2>1. IInv => CheckerTypeOK
    BY DEF IInv
  <2>2. QED
    BY <2>1, TypesStep, StageStep, LossStep DEF TcpInv
<1>2. QED
  BY <1>1, InitTcpInv, SchedulerInvariance, PTL DEF Spec

\* Every variable of the checker keeps its type, over restarts and whatever the state
\* file holds.
THEOREM TcpTypeCorrect == Spec => []TypeOK
<1>1. IInv /\ TcpInv => TypeOK
  BY TypeParts DEF IInv, TcpInv
<1>2. QED
  BY <1>1, SchedulerInvariance, TcpInvariance, PTL

\* No check that finds a port closed which answered the check before ends before the
\* user was told, for any groups of ports and with any goroutines saving at the time,
\* unless the module is stopping (checkTcpPorts).
THEOREM NoDropIsLost == Spec => []DropIsTold
<1>1. TcpInv => DropIsTold
  BY DEF TcpInv, LossIsSeen, DropIsTold
<1>2. QED
  BY <1>1, TcpInvariance, PTL
=============================================================================
