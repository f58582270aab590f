------------------------ MODULE ProcessWatcherProofs ------------------------
(***************************************************************************)
(* The process watcher, for any processes, channels and number of requests *)
(* in progress: no item is watched twice, no end is told twice, also over  *)
(* restarts, the references are exact, and the state file follows the list *)
(* but for the changes that nobody asks a save for.                        *)
(***************************************************************************)
EXTENDS ProcessWatcher, FiniteSetTheorems, TLAPS

USE WatcherAssumption

Once(s) == \A i, j \in DOMAIN s : s[i] = s[j] => i = j

----------------------------------------------------------------------------
(***************************************************************************)
(* The two operators that change the list.                                 *)
(***************************************************************************)
LEMMA AddedProperties ==
  ASSUME NEW s \in Seq(Items), NEW item \in Items
  PROVE  /\ Added(s, item) \in Seq(Items)
         /\ \A x \in Range(Added(s, item)) : x \in Range(s) \/ (x = item /\ Alive(item.pid))
         /\ Once(s) => Once(Added(s, item))
<1>1. CASE item \notin Range(s) /\ Alive(item.pid)
  <2> DEFINE t == Append(s, item)
  <2>1. /\ t \in Seq(Items) /\ Len(t) = Len(s) + 1 /\ t[Len(s) + 1] = item
        /\ DOMAIN t = 1..Len(s) + 1 /\ DOMAIN s = 1..Len(s)
        /\ \A k \in DOMAIN s : t[k] = s[k]
    OBVIOUS
  <2> HIDE DEF t
  <2>2. \A x \in Range(t) : x \in Range(s) \/ x = item
    BY <2>1 DEF Range
  <2>3. Once(s) => Once(t)
    <3> SUFFICES ASSUME Once(s), NEW i \in DOMAIN t, NEW j \in DOMAIN t, t[i] = t[j]
                 PROVE  i = j
      BY DEF Once
    <3>1. \A k \in DOMAIN s : s[k] # item
      BY <1>1 DEF Range
    <3>2. CASE i \in DOMAIN s /\ j \in DOMAIN s
      BY <2>1, <3>2 DEF Once
    <3>3. CASE i = Len(s) + 1 \/ j = Len(s) + 1
      BY <2>1, <3>1, <3>3
    <3>4. QED
      BY <2>1, <3>2, <3>3
  <2>4. Added(s, item) = t
    BY <1>1 DEF Added, t
  <2>5. QED
    BY <1>1, <2>1, <2>2, <2>3, <2>4
<1>2. CASE ~(item \notin Range(s) /\ Alive(item.pid))
  BY <1>2 DEF Added
<1>3. QED
  BY <1>1, <1>2

LEMMA SwapRemoveProperties ==
  ASSUME NEW s \in Seq(Items), NEW i \in DOMAIN s
  PROVE  /\ SwapRemove(s, i) \in Seq(Items)
         /\ Range(SwapRemove(s, i)) \subseteq Range(s)
         /\ Once(s) => Once(SwapRemove(s, i)) /\ s[i] \notin Range(SwapRemove(s, i))
<1> DEFINE t == SwapRemove(s, i)
<1>1. /\ Len(s) \in Nat /\ DOMAIN s = 1..Len(s) /\ Len(s) >= 1
      /\ \A j \in DOMAIN s : s[j] \in Items
  OBVIOUS
<1>2. /\ DOMAIN t = 1..Len(s) - 1
      /\ \A j \in DOMAIN t : t[j] = s[IF j = i THEN Len(s) ELSE j]
  BY DEF SwapRemove
<1>3. t \in Seq(Items)
  BY <1>1 DEF SwapRemove
<1> HIDE DEF t
<1>4. Range(t) \subseteq Range(s)
  BY <1>1, <1>2 DEF Range
<1>5. ASSUME Once(s) PROVE Once(t)
  BY <1>1, <1>2, <1>5 DEF Once
<1>6. ASSUME Once(s) PROVE s[i] \notin Range(t)
  BY <1>1, <1>2, <1>6 DEF Once, Range
<1>7. QED
  BY <1>3, <1>4, <1>5, <1>6 DEF t

LEMMA RangeOfItems ==
  ASSUME NEW s \in Seq(Items), NEW x \in Range(s)
  PROVE  x \in Items
BY DEF Range

----------------------------------------------------------------------------
(***************************************************************************)
(* The invariant.                                                          *)
(***************************************************************************)
\* The two places from which the list is cleared and filled.
Points(from, to) ==
  \/ from = "startDead" /\ to = "startNew"
  \/ from = "startNew" /\ to = "started"
  \/ from = "wait" /\ to = "loopNew"
  \/ from = "loopNew" /\ to = "wait"

ItemsWereBorn ==
  \A item \in Range(list) \cup Range(file) \cup Range(toLoad) : process[item.pid] # "unborn"

NoticedHasEnded == \A item \in noticed : item \in Items /\ process[item.pid] = "ended"

Inside == {r \in Requests : req[r] \in {"inside", "save"}}

\* Nobody is left when Stop has gone on: neither the loop nor a request nor a save.
NobodyInside == ~Running /\ savers = 0 /\ Inside = {}

\* Stop comes after Start; from the rundown on no reference is given, so that nobody
\* comes back once the last was given back.
StopInv ==
  /\ rundown <=> stop \in {"draining", "stopped"}
  /\ stop # "idle" => thread \notin Starting \cup {"panic"}
  /\ stop = "stopped" => NobodyInside

Inv == TypeOK /\ WatchedOnce /\ ItemsWereBorn /\ NoticedHasEnded /\ NoticedIsGone
              /\ RefsAreExact /\ FileFollowsList /\ StopInv

LEMMA InsideIsFinite == IsFiniteSet(Inside) /\ Cardinality(Inside) \in Nat
<1>1. Inside \subseteq Requests
  BY DEF Inside
<1>2. QED
  BY <1>1, FS_Subset, FS_CardinalityType

LoopRefs == IF Running THEN 1 ELSE 0

LEMMA RefsAreOfInside ==
  /\ RefsAreExact <=> refs = savers + LoopRefs + Cardinality(Inside)
  /\ LoopRefs \in {0, 1}
BY DEF RefsAreExact, Inside, LoopRefs

LEMMA RefsAreOfInsideNext ==
  /\ RefsAreExact' <=> refs' = savers' + LoopRefs' + Cardinality(Inside')
  /\ thread' = thread => LoopRefs' = LoopRefs
  /\ LoopRefs' \in {0, 1} /\ Cardinality(Inside') \in Nat
<1>1. Inside' \subseteq Requests
  BY DEF Inside
<1>2. Cardinality(Inside') \in Nat
  BY <1>1, FS_Subset, FS_CardinalityType
<1>3. QED
  BY <1>2 DEF RefsAreExact, Inside, LoopRefs, Running

\* Every step keeps the references exact.
LEMMA RefsNext == TypeOK /\ RefsAreExact /\ [Next]_vars => RefsAreExact'
<1> SUFFICES ASSUME TypeOK, RefsAreExact, [Next]_vars PROVE RefsAreExact'
  OBVIOUS
<1> USE DEF TypeOK, goVars
<1> USE RefsAreOfInside, RefsAreOfInsideNext
<1>1. CASE LoadItem
  BY <1>1 DEF LoadItem, Inside, LoopRefs, Running
<1>2. CASE EndLoad
  BY <1>2 DEF EndLoad, Inside, LoopRefs, Running
<1>3. ASSUME NEW from, NEW to, Points(from, to), CheckForDeadProcesses(from, to)
      PROVE  RefsAreExact'
  <2>1. CASE UNCHANGED <<req, savers, refs>> /\ thread' = to
    BY <1>3, <2>1 DEF CheckForDeadProcesses, Points, Inside, LoopRefs, Running
  <2>2. CASE Volatile("panic")
    <3>1. Inside' = {} /\ savers' = 0 /\ refs' = 0 /\ LoopRefs' = 0
      BY <2>2 DEF Volatile, Inside, LoopRefs, Running
    <3>2. QED
      BY <3>1, FS_EmptySet
  <2>3. QED
    BY <1>3, <2>1, <2>2 DEF CheckForDeadProcesses
<1>4. ASSUME NEW pt, NEW p \in Pids, pt \in {"startNew", "loopNew"}, CheckNewProcess(pt, p)
      PROVE  RefsAreExact'
  BY <1>4 DEF CheckNewProcess, Inside, LoopRefs, Running
<1>5. ASSUME NEW from, NEW to, Points(from, to), EndNewProcesses(from, to)
      PROVE  RefsAreExact'
  BY <1>5 DEF EndNewProcesses, Points, Inside, LoopRefs, Running
<1>6. CASE RunEnter
  BY <1>6 DEF RunEnter, Inside, LoopRefs, Running
<1>7. CASE RunAcquire
  <2>1. Inside' = Inside
    BY <1>7 DEF RunAcquire, Inside
  <2>2. /\ savers' = savers
        /\ \/ refs' = refs /\ LoopRefs' = LoopRefs
           \/ refs' = refs + 1 /\ LoopRefs = 0 /\ LoopRefs' = 1
           \/ refs' = refs - 1 /\ LoopRefs = 1 /\ LoopRefs' = 0
    BY <1>7 DEF RunAcquire, LoopRefs, Running
  <2>3. QED
    BY <2>1, <2>2, InsideIsFinite
<1>8. CASE LoopShutdown
  <2>1. Inside' = Inside
    BY <1>8 DEF LoopShutdown, Inside
  <2>2. /\ savers' = savers
        /\ \/ refs' = refs /\ LoopRefs' = LoopRefs
           \/ refs' = refs + 1 /\ LoopRefs = 0 /\ LoopRefs' = 1
           \/ refs' = refs - 1 /\ LoopRefs = 1 /\ LoopRefs' = 0
    BY <1>8 DEF LoopShutdown, LoopRefs, Running
  <2>3. QED
    BY <2>1, <2>2, InsideIsFinite
<1>9. ASSUME NEW r \in Requests, RequestEnter(r) PROVE RefsAreExact'
  <2>1. Inside' = Inside
    BY <1>9 DEF RequestEnter, Inside
  <2>2. QED
    BY <1>9, <2>1 DEF RequestEnter
<1>10. ASSUME NEW r \in Requests, RequestAcquire(r) PROVE RefsAreExact'
  <2>1. CASE rundown
    <3>1. Inside' = Inside
      BY <1>10, <2>1 DEF RequestAcquire, Inside
    <3>2. QED
      BY <1>10, <2>1, <3>1 DEF RequestAcquire
  <2>2. CASE ~rundown
    <3>1. r \notin Inside /\ Inside' = Inside \cup {r}
      BY <1>10, <2>2 DEF RequestAcquire, Inside
    <3>2. Cardinality(Inside') = Cardinality(Inside) + 1
      BY <3>1, InsideIsFinite, FS_AddElement
    <3>3. refs' = refs + 1 /\ UNCHANGED <<savers, thread>>
      BY <1>10, <2>2 DEF RequestAcquire
    <3>4. QED
      BY <3>2, <3>3, InsideIsFinite
  <2>3. QED
    BY <2>1, <2>2
<1>11. ASSUME NEW r \in Requests, AddProcess(r) PROVE RefsAreExact'
  <2>1. Inside' = Inside
    BY <1>11 DEF AddProcess, Inside
  <2>2. QED
    BY <1>11, <2>1 DEF AddProcess
<1>12. ASSUME NEW r \in Requests, RemoveProcess(r) PROVE RefsAreExact'
  <2>1. CASE req' = [req EXCEPT ![r] = "save"] /\ UNCHANGED refs
    <3>1. Inside' = Inside
      BY <1>12, <2>1 DEF RemoveProcess, Inside
    <3>2. QED
      BY <1>12, <2>1, <3>1 DEF RemoveProcess
  <2>2. CASE req' = [req EXCEPT ![r] = "idle"] /\ refs' = refs - 1
    <3>1. r \in Inside /\ Inside' = Inside \ {r}
      BY <1>12, <2>2 DEF RemoveProcess, Inside
    <3>2. Cardinality(Inside') = Cardinality(Inside) - 1
      BY <3>1, InsideIsFinite, FS_RemoveElement
    <3>3. refs' = refs - 1 /\ UNCHANGED <<savers, thread>>
      BY <1>12, <2>2 DEF RemoveProcess
    <3>4. QED
      BY <3>2, <3>3, InsideIsFinite
  <2>3. QED
    BY <1>12, <2>1, <2>2 DEF RemoveProcess
<1>13. ASSUME NEW r \in Requests, RequestSave(r) PROVE RefsAreExact'
  <2>1. r \in Inside /\ Inside' = Inside \ {r}
    BY <1>13 DEF RequestSave, Inside
  <2>2. Cardinality(Inside') = Cardinality(Inside) - 1
    BY <2>1, InsideIsFinite, FS_RemoveElement
  <2>3. /\ thread' = thread
        /\ (refs' = refs /\ savers' = savers + 1) \/ (refs' = refs - 1 /\ savers' = savers)
    BY <1>13 DEF RequestSave
  <2>4. QED
    BY <2>2, <2>3, InsideIsFinite
<1>14. CASE SaveState
  <2>1. Inside' = Inside
    BY <1>14 DEF SaveState, Inside
  <2>2. refs' = refs - 1 /\ savers' = savers - 1 /\ thread' = thread
    BY <1>14 DEF SaveState
  <2>3. QED
    BY <2>1, <2>2, InsideIsFinite
<1>15. CASE StopSignal
  BY <1>15 DEF StopSignal, Inside, LoopRefs, Running
<1>16. CASE StopRundown
  BY <1>16 DEF StopRundown, Inside, LoopRefs, Running
<1>17. CASE StopDrained
  BY <1>17 DEF StopDrained, Inside, LoopRefs, Running
<1>18. CASE Restart
  <2>1. Inside' = {} /\ savers' = 0 /\ refs' = 0 /\ LoopRefs' = 0
    BY <1>18 DEF Restart, Volatile, Inside, LoopRefs, Running
  <2>2. QED
    BY <2>1, FS_EmptySet
<1>19. ASSUME NEW p \in Pids, Launch(p) PROVE RefsAreExact'
  BY <1>19 DEF Launch, Inside, LoopRefs, Running
<1>20. ASSUME NEW p \in Pids, Exit(p) PROVE RefsAreExact'
  BY <1>20 DEF Exit, Inside, LoopRefs, Running
<1>21. CASE UNCHANGED vars
  BY <1>21 DEF vars, Inside
<1>22. QED
  BY <1>1, <1>2, <1>3, <1>4, <1>5, <1>6, <1>7, <1>8, <1>9, <1>10, <1>11, <1>12, <1>13,
     <1>14, <1>15, <1>16, <1>17, <1>18, <1>19, <1>20, <1>21 DEF Next, Step, Start, Loop,
     LoopTimer, Request, Stop, Points

\* Every step keeps the types.
LEMMA TypeNext == TypeOK /\ RefsAreExact /\ [Next]_vars => TypeOK'
<1> SUFFICES ASSUME TypeOK, RefsAreExact, [Next]_vars PROVE TypeOK'
  OBVIOUS
<1> USE DEF TypeOK, goVars
<1>1. CASE LoadItem
  <2>1. Head(toLoad) \in Items /\ Tail(toLoad) \in Seq(Items) /\ list \in Seq(Items)
    BY <1>1 DEF LoadItem
  <2>2. list' \in Seq(Items)
    BY <1>1, <2>1, AddedProperties DEF LoadItem
  <2>3. QED
    BY <1>1, <2>1, <2>2 DEF LoadItem
<1>2. CASE EndLoad
  BY <1>2 DEF EndLoad, ThreadPoints, Starting, RequestPoints, StopPoints
<1>3. ASSUME NEW from, NEW to, Points(from, to), CheckForDeadProcesses(from, to)
      PROVE  TypeOK'
  <2>1. noticed' \subseteq Items
    <3>1. \A i \in DOMAIN list : list[i] \in Items
      OBVIOUS
    <3>2. QED
      BY <1>3, <3>1 DEF CheckForDeadProcesses, LastTwo, DeadIn
  <2>2. list' \in Seq(Items)
    <3>1. DeadIn(list) \subseteq DOMAIN list /\ <<>> \in Seq(Items)
      BY DEF DeadIn
    <3>2. ASSUME NEW i \in DeadIn(list), list' = SwapRemove(list, i)
          PROVE  list' \in Seq(Items)
      BY <3>1, <3>2, SwapRemoveProperties
    <3>3. list' = <<>> \/ list' = list
            \/ \E i \in DeadIn(list) : list' = SwapRemove(list, i)
      BY <1>3 DEF CheckForDeadProcesses
    <3>4. QED
      BY <3>1, <3>2, <3>3
  <2>3. CASE thread' = to /\ UNCHANGED <<toLoad, req, arg, savers, refs, rundown, stop>>
    <3>1. thread' \in ThreadPoints
      BY <1>3, <2>3 DEF Points, ThreadPoints, Starting
    <3>2. todo' \subseteq Pids
      BY <1>3, <2>3 DEF CheckForDeadProcesses, Points, Volatile
    <3>3. unsaved' \in BOOLEAN /\ UNCHANGED <<process, file>>
      BY <1>3 DEF CheckForDeadProcesses
    <3>4. QED
      BY <2>1, <2>2, <2>3, <3>1, <3>2, <3>3
  <2>4. CASE Volatile("panic")
    BY <1>3, <2>1, <2>2, <2>4 DEF CheckForDeadProcesses, Volatile, ThreadPoints,
       RequestPoints,
       StopPoints
  <2>5. QED
    BY <1>3, <2>3, <2>4 DEF CheckForDeadProcesses
<1>4. ASSUME NEW pt, NEW p \in Pids, pt \in {"startNew", "loopNew"}, CheckNewProcess(pt, p)
      PROVE  TypeOK'
  <2>1. Item(p, SettingsChannel) \in Items
    BY DEF Item, Items
  <2>2. list' \in Seq(Items)
    BY <1>4, <2>1, AddedProperties DEF CheckNewProcess
  <2>3. QED
    BY <1>4, <2>2 DEF CheckNewProcess
<1>5. ASSUME NEW from, NEW to, Points(from, to), EndNewProcesses(from, to) PROVE TypeOK'
  BY <1>5 DEF EndNewProcesses, Points, ThreadPoints, Starting, RequestPoints, StopPoints
<1>6. CASE RunEnter
  BY <1>6 DEF RunEnter, ThreadPoints, Starting, RequestPoints, StopPoints
<1>7. CASE RunAcquire
  BY <1>7 DEF RunAcquire, ThreadPoints, Starting, RequestPoints, StopPoints
<1>8. CASE LoopShutdown
  <2>1. savers' \in Nat
    BY <1>8 DEF LoopShutdown
  <2>2. refs' \in Nat
    BY <2>1, RefsNext, RefsAreOfInsideNext
  <2>3. QED
    BY <1>8, <2>1, <2>2 DEF LoopShutdown, ThreadPoints, Starting, RequestPoints
<1>9. ASSUME NEW r \in Requests, RequestEnter(r) PROVE TypeOK'
  BY <1>9 DEF RequestEnter, ThreadPoints, Starting, RequestPoints, StopPoints
<1>10. ASSUME NEW r \in Requests, RequestAcquire(r) PROVE TypeOK'
  <2>1. savers' \in Nat
    BY <1>10 DEF RequestAcquire
  <2>2. refs' \in Nat
    BY <2>1, RefsNext, RefsAreOfInsideNext
  <2>3. QED
    BY <1>10, <2>1, <2>2 DEF RequestAcquire, ThreadPoints, Starting, RequestPoints
<1>11. ASSUME NEW r \in Requests, AddProcess(r) PROVE TypeOK'
  <2>1. arg[r].item \in Items
    BY <1>11 DEF AddProcess, Calls, NoArg
  <2>2. list' \in Seq(Items)
    BY <1>11, <2>1, AddedProperties DEF AddProcess
  <2>3. QED
    BY <1>11, <2>2 DEF AddProcess, RequestPoints
<1>12. ASSUME NEW r \in Requests, RemoveProcess(r) PROVE TypeOK'
  <2>1. list' \in Seq(Items)
    BY <1>12, SwapRemoveProperties DEF RemoveProcess
  <2>2. savers' = savers /\ refs' \in Nat
    BY <1>12, RefsNext, RefsAreOfInsideNext DEF RemoveProcess
  <2>3. req' \in [Requests -> RequestPoints] /\ arg' \in [Requests -> Calls \cup {NoArg}]
    BY <1>12 DEF RemoveProcess, RequestPoints
  <2>4. QED
    BY <1>12, <2>1, <2>2, <2>3 DEF RemoveProcess
<1>13. ASSUME NEW r \in Requests, RequestSave(r) PROVE TypeOK'
  <2>1. savers' \in Nat
    BY <1>13 DEF RequestSave
  <2>2. refs' \in Nat
    BY <2>1, RefsNext, RefsAreOfInsideNext
  <2>3. QED
    BY <1>13, <2>1, <2>2 DEF RequestSave, ThreadPoints, Starting, RequestPoints
<1>14. CASE SaveState
  <2>1. savers' \in Nat
    BY <1>14 DEF SaveState
  <2>2. refs' \in Nat
    BY <2>1, RefsNext, RefsAreOfInsideNext
  <2>3. QED
    BY <1>14, <2>1, <2>2 DEF SaveState, ThreadPoints, Starting, RequestPoints
<1>15. CASE StopSignal
  BY <1>15 DEF StopSignal, ThreadPoints, Starting, RequestPoints, StopPoints
<1>16. CASE StopRundown
  BY <1>16 DEF StopRundown, ThreadPoints, Starting, RequestPoints, StopPoints
<1>17. CASE StopDrained
  BY <1>17 DEF StopDrained, ThreadPoints, Starting, RequestPoints, StopPoints
<1>18. CASE Restart
  <2>1. /\ req' \in [Requests -> RequestPoints] /\ arg' \in [Requests -> Calls \cup {NoArg}]
        /\ refs' = 0 /\ savers' = 0 /\ rundown' = FALSE /\ stop' = "idle" /\ thread' = "load"
        /\ toLoad' = file /\ todo' = {}
    BY <1>18 DEF Restart, Volatile, RequestPoints
  <2>2. list' = <<>> /\ <<>> \in Seq(Items)
    BY <1>18 DEF Restart
  <2>3. QED
    BY <1>18, <2>1, <2>2 DEF Restart, ThreadPoints, Starting, StopPoints
<1>19. ASSUME NEW p \in Pids, Launch(p) PROVE TypeOK'
  BY <1>19 DEF Launch, ThreadPoints, Starting, RequestPoints, StopPoints
<1>20. ASSUME NEW p \in Pids, Exit(p) PROVE TypeOK'
  BY <1>20 DEF Exit, ThreadPoints, Starting, RequestPoints, StopPoints
<1>21. CASE UNCHANGED vars
  BY <1>21 DEF vars
<1>22. QED
  BY <1>1, <1>2, <1>3, <1>4, <1>5, <1>6, <1>7, <1>8, <1>9, <1>10, <1>11, <1>12, <1>13,
     <1>14, <1>15, <1>16, <1>17, <1>18, <1>19, <1>20, <1>21 DEF Next, Step, Start, Loop,
     LoopTimer, Request, Stop, Points

LEMMA OnceIsWatchedOnce == WatchedOnce <=> Once(list)
BY DEF WatchedOnce, Once

LEMMA OnceIsWatchedOnceNext == WatchedOnce' <=> Once(list')
BY DEF WatchedOnce, Once

\* No step brings an item into the list twice.
LEMMA OnceNext == TypeOK /\ WatchedOnce /\ [Next]_vars => WatchedOnce'
<1> SUFFICES ASSUME TypeOK, WatchedOnce, [Next]_vars PROVE WatchedOnce'
  OBVIOUS
<1> USE DEF TypeOK, goVars
<1> USE OnceIsWatchedOnce, OnceIsWatchedOnceNext
<1>1. CASE LoadItem
  <2>1. Head(toLoad) \in Items /\ list \in Seq(Items)
    BY <1>1 DEF LoadItem
  <2>2. QED
    BY <1>1, <2>1, AddedProperties DEF LoadItem
<1>2. CASE EndLoad
  BY <1>2 DEF EndLoad
<1>3. ASSUME NEW from, NEW to, Points(from, to), CheckForDeadProcesses(from, to)
      PROVE  WatchedOnce'
  <2>1. list \in Seq(Items) /\ DeadIn(list) \subseteq DOMAIN list
    BY DEF DeadIn
  <2>2. ASSUME NEW i \in DeadIn(list), list' = SwapRemove(list, i) PROVE Once(list')
    BY <2>1, <2>2, SwapRemoveProperties
  <2>3. list' = <<>> \/ list' = list \/ \E i \in DeadIn(list) : list' = SwapRemove(list, i)
    BY <1>3 DEF CheckForDeadProcesses
  <2>4. QED
    BY <2>2, <2>3 DEF Once
<1>4. ASSUME NEW pt, NEW p \in Pids, pt \in {"startNew", "loopNew"}, CheckNewProcess(pt, p)
      PROVE  WatchedOnce'
  <2>1. Item(p, SettingsChannel) \in Items /\ list \in Seq(Items)
    BY DEF Item, Items
  <2>2. QED
    BY <1>4, <2>1, AddedProperties DEF CheckNewProcess
<1>5. ASSUME NEW from, NEW to, Points(from, to), EndNewProcesses(from, to)
      PROVE  WatchedOnce'
  BY <1>5 DEF EndNewProcesses, Points
<1>6. CASE RunEnter
  BY <1>6 DEF RunEnter
<1>7. CASE RunAcquire
  BY <1>7 DEF RunAcquire
<1>8. CASE LoopShutdown
  BY <1>8 DEF LoopShutdown
<1>9. ASSUME NEW r \in Requests, RequestEnter(r) PROVE WatchedOnce'
  BY <1>9 DEF RequestEnter
<1>10. ASSUME NEW r \in Requests, RequestAcquire(r) PROVE WatchedOnce'
  BY <1>10 DEF RequestAcquire
<1>11. ASSUME NEW r \in Requests, AddProcess(r) PROVE WatchedOnce'
  <2>1. arg[r].item \in Items /\ list \in Seq(Items)
    BY <1>11 DEF AddProcess, Calls, NoArg
  <2>2. QED
    BY <1>11, <2>1, AddedProperties DEF AddProcess
<1>12. ASSUME NEW r \in Requests, RemoveProcess(r) PROVE WatchedOnce'
  <2>1. list \in Seq(Items)
    OBVIOUS
  <2>2. QED
    BY <1>12, <2>1, SwapRemoveProperties DEF RemoveProcess
<1>13. ASSUME NEW r \in Requests, RequestSave(r) PROVE WatchedOnce'
  BY <1>13 DEF RequestSave
<1>14. CASE SaveState
  BY <1>14 DEF SaveState
<1>15. CASE StopSignal
  BY <1>15 DEF StopSignal
<1>16. CASE StopRundown
  BY <1>16 DEF StopRundown
<1>17. CASE StopDrained
  BY <1>17 DEF StopDrained
<1>18. CASE Restart
  BY <1>18 DEF Restart, Once
<1>19. ASSUME NEW p \in Pids, Launch(p) PROVE WatchedOnce'
  BY <1>19 DEF Launch
<1>20. ASSUME NEW p \in Pids, Exit(p) PROVE WatchedOnce'
  BY <1>20 DEF Exit
<1>21. CASE UNCHANGED vars
  BY <1>21 DEF vars
<1>22. QED
  BY <1>1, <1>2, <1>3, <1>4, <1>5, <1>6, <1>7, <1>8, <1>9, <1>10, <1>11, <1>12, <1>13,
     <1>14, <1>15, <1>16, <1>17, <1>18, <1>19, <1>20, <1>21 DEF Next, Step, Start, Loop,
     LoopTimer, Request, Stop, Points

\* An item stands for a process that has been there.
LEMMA BornNext == TypeOK /\ ItemsWereBorn /\ [Next]_vars => ItemsWereBorn'
<1> SUFFICES ASSUME TypeOK, ItemsWereBorn, [Next]_vars PROVE ItemsWereBorn'
  OBVIOUS
<1> USE DEF TypeOK, ItemsWereBorn, goVars
<1>1. CASE LoadItem
  <2>1. /\ Head(toLoad) \in Items /\ list \in Seq(Items)
        /\ \A i \in DOMAIN Tail(toLoad) : i + 1 \in DOMAIN toLoad /\ Tail(toLoad)[i] = toLoad[i + 1]
    BY <1>1 DEF LoadItem
  <2>2. \A x \in Range(list') : x \in Range(list)
          \/ (x = Head(toLoad) /\ Alive(Head(toLoad).pid))
    BY <1>1, <2>1, AddedProperties DEF LoadItem
  <2>3. Range(toLoad') \subseteq Range(toLoad)
    BY <1>1, <2>1 DEF LoadItem, Range
  <2>4. QED
    BY <1>1, <2>2, <2>3 DEF LoadItem, Alive
<1>2. CASE EndLoad
  BY <1>2 DEF EndLoad
<1>3. ASSUME NEW from, NEW to, Points(from, to), CheckForDeadProcesses(from, to)
      PROVE  ItemsWereBorn'
  <2>1. list \in Seq(Items) /\ DeadIn(list) \subseteq DOMAIN list /\ Range(<<>>) = {}
    BY DEF DeadIn, Range
  <2>2. \/ list' = <<>> \/ list' = list
        \/ \E i \in DeadIn(list) : DeadIn(list) = {i} /\ list' = SwapRemove(list, i)
    BY <1>3 DEF CheckForDeadProcesses
  <2>3. Range(list') \subseteq Range(list)
    BY <2>1, <2>2, SwapRemoveProperties
  <2>4. UNCHANGED <<process, file>> /\ (toLoad' = toLoad \/ toLoad' = <<>>)
    BY <1>3 DEF CheckForDeadProcesses, Volatile
  <2>5. QED
    BY <2>1, <2>3, <2>4
<1>4. ASSUME NEW pt, NEW p \in Pids, pt \in {"startNew", "loopNew"}, CheckNewProcess(pt, p)
      PROVE  ItemsWereBorn'
  <2>1. Item(p, SettingsChannel) \in Items /\ list \in Seq(Items)
    BY <1>4 DEF CheckNewProcess, Item, Items, Calls, NoArg
  <2>2. \A x \in Range(list') : x \in Range(list)
          \/ (x = Item(p, SettingsChannel) /\ Alive(Item(p, SettingsChannel).pid))
    BY <1>4, <2>1, AddedProperties DEF CheckNewProcess
  <2>3. QED
    BY <1>4, <2>2 DEF CheckNewProcess, Alive
<1>5. ASSUME NEW from, NEW to, Points(from, to), EndNewProcesses(from, to)
      PROVE  ItemsWereBorn'
  BY <1>5 DEF EndNewProcesses, Points
<1>6. CASE RunEnter
  BY <1>6 DEF RunEnter
<1>7. CASE RunAcquire
  BY <1>7 DEF RunAcquire
<1>8. CASE LoopShutdown
  BY <1>8 DEF LoopShutdown
<1>9. ASSUME NEW r \in Requests, RequestEnter(r) PROVE ItemsWereBorn'
  BY <1>9 DEF RequestEnter
<1>10. ASSUME NEW r \in Requests, RequestAcquire(r) PROVE ItemsWereBorn'
  BY <1>10 DEF RequestAcquire
<1>11. ASSUME NEW r \in Requests, AddProcess(r) PROVE ItemsWereBorn'
  <2>1. arg[r].item \in Items /\ list \in Seq(Items)
    BY <1>11 DEF AddProcess, Item, Items, Calls, NoArg
  <2>2. \A x \in Range(list') : x \in Range(list)
          \/ (x = arg[r].item /\ Alive(arg[r].item.pid))
    BY <1>11, <2>1, AddedProperties DEF AddProcess
  <2>3. QED
    BY <1>11, <2>2 DEF AddProcess, Alive
<1>12. ASSUME NEW r \in Requests, RemoveProcess(r) PROVE ItemsWereBorn'
  <2>1. list \in Seq(Items)
    OBVIOUS
  <2>2. Range(list') \subseteq Range(list)
    BY <1>12, <2>1, SwapRemoveProperties DEF RemoveProcess
  <2>3. QED
    BY <1>12, <2>2 DEF RemoveProcess
<1>13. ASSUME NEW r \in Requests, RequestSave(r) PROVE ItemsWereBorn'
  BY <1>13 DEF RequestSave
<1>14. CASE SaveState
  BY <1>14 DEF SaveState
<1>15. CASE StopSignal
  BY <1>15 DEF StopSignal
<1>16. CASE StopRundown
  BY <1>16 DEF StopRundown
<1>17. CASE StopDrained
  BY <1>17 DEF StopDrained
<1>18. CASE Restart
  <2>1. Range(<<>>) = {}
    BY DEF Range
  <2>2. QED
    BY <1>18, <2>1 DEF Restart, Volatile
<1>19. ASSUME NEW p \in Pids, Launch(p) PROVE ItemsWereBorn'
  <2>1. UNCHANGED <<list, file, toLoad>>
    BY <1>19 DEF Launch
  <2>2. \A k \in Pids : process[k] # "unborn" => process'[k] # "unborn"
    BY <1>19 DEF Launch, Alive
  <2>3. \A x \in Range(list) \cup Range(file) \cup Range(toLoad) : x.pid \in Pids
    BY RangeOfItems DEF Items
  <2>4. QED
    BY <2>1, <2>2, <2>3
<1>20. ASSUME NEW p \in Pids, Exit(p) PROVE ItemsWereBorn'
  <2>1. UNCHANGED <<list, file, toLoad>>
    BY <1>20 DEF Exit
  <2>2. \A k \in Pids : process[k] # "unborn" => process'[k] # "unborn"
    BY <1>20 DEF Exit, Alive
  <2>3. \A x \in Range(list) \cup Range(file) \cup Range(toLoad) : x.pid \in Pids
    BY RangeOfItems DEF Items
  <2>4. QED
    BY <2>1, <2>2, <2>3
<1>21. CASE UNCHANGED vars
  BY <1>21 DEF vars
<1>22. QED
  BY <1>1, <1>2, <1>3, <1>4, <1>5, <1>6, <1>7, <1>8, <1>9, <1>10, <1>11, <1>12, <1>13,
     <1>14, <1>15, <1>16, <1>17, <1>18, <1>19, <1>20, <1>21 DEF Next, Step, Start, Loop,
     LoopTimer, Request, Stop, Points

\* What was notified has ended for good and is off the list.
LEMMA NoticedNext ==
  TypeOK /\ WatchedOnce /\ ItemsWereBorn /\ NoticedHasEnded /\ NoticedIsGone /\ [Next]_vars
    => NoticedHasEnded' /\ NoticedIsGone'
<1> SUFFICES ASSUME TypeOK, WatchedOnce, ItemsWereBorn, NoticedHasEnded, NoticedIsGone,
                    [Next]_vars
             PROVE  NoticedHasEnded' /\ NoticedIsGone'
  OBVIOUS
<1> USE DEF TypeOK, NoticedHasEnded, NoticedIsGone, goVars
<1>1. CASE LoadItem
  <2>1. Head(toLoad) \in Items /\ list \in Seq(Items)
    BY <1>1 DEF LoadItem
  <2>2. \A x \in Range(list') : x \in Range(list)
          \/ (x = Head(toLoad) /\ Alive(Head(toLoad).pid))
    BY <1>1, <2>1, AddedProperties DEF LoadItem
  <2>3. QED
    BY <1>1, <2>2 DEF LoadItem, Alive
<1>2. CASE EndLoad
  BY <1>2 DEF EndLoad
<1>3. ASSUME NEW from, NEW to, Points(from, to), CheckForDeadProcesses(from, to)
      PROVE  NoticedHasEnded' /\ NoticedIsGone'
  <2>1. list \in Seq(Items) /\ DeadIn(list) \subseteq DOMAIN list /\ Range(<<>>) = {}
    BY DEF DeadIn, Range
  <2>2. \/ list' = <<>> \/ list' = list
        \/ \E i \in DeadIn(list) : DeadIn(list) = {i} /\ list' = SwapRemove(list, i)
    BY <1>3 DEF CheckForDeadProcesses
  <2>3. ASSUME NEW x \in noticed' PROVE x \in noticed \/ \E i \in DeadIn(list) : x = list[i]
    BY <1>3 DEF CheckForDeadProcesses, LastTwo
  <2>4. process' = process
    BY <1>3 DEF CheckForDeadProcesses
  <2>5. \A i \in DeadIn(list) : list[i] \in Items /\ process[list[i].pid] = "ended"
    <3> SUFFICES ASSUME NEW i \in DeadIn(list)
                 PROVE  list[i] \in Items /\ process[list[i].pid] = "ended"
      OBVIOUS
    <3>1. list[i] \in Items /\ list[i] \in Range(list)
      BY <2>1 DEF Range
    <3>2. process[list[i].pid] \in {"unborn", "ended"}
      BY <3>1 DEF DeadIn, Alive, Items
    <3>3. QED
      BY <3>1, <3>2 DEF ItemsWereBorn
  <2>6. NoticedHasEnded'
    BY <2>3, <2>4, <2>5
  <2>7. Range(list') \cap noticed' = {}
    <3>1. CASE list' = <<>>
      BY <2>1, <3>1
    <3>2. CASE list' = list /\ DeadIn(list) = {}
      BY <2>3, <3>2
    <3>3. ASSUME NEW i \in DeadIn(list), DeadIn(list) = {i}, list' = SwapRemove(list, i)
          PROVE  Range(list') \cap noticed' = {}
      <4>1. Range(list') \subseteq Range(list) /\ list[i] \notin Range(list')
        BY <2>1, <3>3, SwapRemoveProperties, OnceIsWatchedOnce
      <4>2. QED
        BY <2>3, <3>3, <4>1
    <3>4. QED
      BY <1>3, <2>2, <3>1, <3>2, <3>3 DEF CheckForDeadProcesses
  <2>8. QED
    BY <2>6, <2>7
<1>4. ASSUME NEW pt, NEW p \in Pids, pt \in {"startNew", "loopNew"}, CheckNewProcess(pt, p)
      PROVE  NoticedHasEnded' /\ NoticedIsGone'
  <2>1. Item(p, SettingsChannel) \in Items /\ list \in Seq(Items)
    BY <1>4 DEF CheckNewProcess, Item, Items, Calls, NoArg
  <2>2. \A x \in Range(list') : x \in Range(list)
          \/ (x = Item(p, SettingsChannel) /\ Alive(Item(p, SettingsChannel).pid))
    BY <1>4, <2>1, AddedProperties DEF CheckNewProcess
  <2>3. QED
    BY <1>4, <2>2 DEF CheckNewProcess, Alive
<1>5. ASSUME NEW from, NEW to, Points(from, to), EndNewProcesses(from, to)
      PROVE  NoticedHasEnded' /\ NoticedIsGone'
  BY <1>5 DEF EndNewProcesses, Points
<1>6. CASE RunEnter
  BY <1>6 DEF RunEnter
<1>7. CASE RunAcquire
  BY <1>7 DEF RunAcquire
<1>8. CASE LoopShutdown
  BY <1>8 DEF LoopShutdown
<1>9. ASSUME NEW r \in Requests, RequestEnter(r) PROVE NoticedHasEnded' /\ NoticedIsGone'
  BY <1>9 DEF RequestEnter
<1>10. ASSUME NEW r \in Requests, RequestAcquire(r) PROVE NoticedHasEnded' /\ NoticedIsGone'
  BY <1>10 DEF RequestAcquire
<1>11. ASSUME NEW r \in Requests, AddProcess(r) PROVE NoticedHasEnded' /\ NoticedIsGone'
  <2>1. arg[r].item \in Items /\ list \in Seq(Items)
    BY <1>11 DEF AddProcess, Item, Items, Calls, NoArg
  <2>2. \A x \in Range(list') : x \in Range(list)
          \/ (x = arg[r].item /\ Alive(arg[r].item.pid))
    BY <1>11, <2>1, AddedProperties DEF AddProcess
  <2>3. QED
    BY <1>11, <2>2 DEF AddProcess, Alive
<1>12. ASSUME NEW r \in Requests, RemoveProcess(r) PROVE NoticedHasEnded' /\ NoticedIsGone'
  <2>1. list \in Seq(Items)
    OBVIOUS
  <2>2. Range(list') \subseteq Range(list)
    BY <1>12, <2>1, SwapRemoveProperties DEF RemoveProcess
  <2>3. QED
    BY <1>12, <2>2 DEF RemoveProcess
<1>13. ASSUME NEW r \in Requests, RequestSave(r) PROVE NoticedHasEnded' /\ NoticedIsGone'
  BY <1>13 DEF RequestSave
<1>14. CASE SaveState
  BY <1>14 DEF SaveState
<1>15. CASE StopSignal
  BY <1>15 DEF StopSignal
<1>16. CASE StopRundown
  BY <1>16 DEF StopRundown
<1>17. CASE StopDrained
  BY <1>17 DEF StopDrained
<1>18. CASE Restart
  <2>1. Range(<<>>) = {}
    BY DEF Range
  <2>2. QED
    BY <1>18, <2>1 DEF Restart
<1>19. ASSUME NEW p \in Pids, Launch(p) PROVE NoticedHasEnded' /\ NoticedIsGone'
  <2>1. UNCHANGED <<list, noticed>>
    BY <1>19 DEF Launch
  <2>2. \A k \in Pids : process[k] = "ended" => process'[k] = "ended"
    BY <1>19 DEF Launch, Alive
  <2>3. QED
    BY <2>1, <2>2 DEF Items
<1>20. ASSUME NEW p \in Pids, Exit(p) PROVE NoticedHasEnded' /\ NoticedIsGone'
  <2>1. UNCHANGED <<list, noticed>>
    BY <1>20 DEF Exit
  <2>2. \A k \in Pids : process[k] = "ended" => process'[k] = "ended"
    BY <1>20 DEF Exit, Alive
  <2>3. QED
    BY <2>1, <2>2 DEF Items
<1>21. CASE UNCHANGED vars
  BY <1>21 DEF vars
<1>22. QED
  BY <1>1, <1>2, <1>3, <1>4, <1>5, <1>6, <1>7, <1>8, <1>9, <1>10, <1>11, <1>12, <1>13,
     <1>14, <1>15, <1>16, <1>17, <1>18, <1>19, <1>20, <1>21 DEF Next, Step, Start, Loop,
     LoopTimer, Request, Stop, Points

\* The file follows the list.
LEMMA FileNext == TypeOK /\ FileFollowsList /\ [Next]_vars => FileFollowsList'
<1> SUFFICES ASSUME TypeOK, FileFollowsList, [Next]_vars PROVE FileFollowsList'
  OBVIOUS
<1> USE DEF TypeOK, FileFollowsList, goVars
<1>1. CASE LoadItem
  BY <1>1 DEF LoadItem
<1>2. CASE EndLoad
  BY <1>2 DEF EndLoad
<1>3. ASSUME NEW from, NEW to, Points(from, to), CheckForDeadProcesses(from, to)
      PROVE  FileFollowsList'
  BY <1>3 DEF CheckForDeadProcesses, Points, Volatile, Points
<1>4. ASSUME NEW pt, NEW p \in Pids, pt \in {"startNew", "loopNew"}, CheckNewProcess(pt, p)
      PROVE  FileFollowsList'
  BY <1>4 DEF CheckNewProcess
<1>5. ASSUME NEW from, NEW to, Points(from, to), EndNewProcesses(from, to)
      PROVE  FileFollowsList'
  BY <1>5 DEF EndNewProcesses, Points
<1>6. CASE RunEnter
  BY <1>6 DEF RunEnter
<1>7. CASE RunAcquire
  BY <1>7 DEF RunAcquire
<1>8. CASE LoopShutdown
  BY <1>8 DEF LoopShutdown
<1>9. ASSUME NEW r \in Requests, RequestEnter(r) PROVE FileFollowsList'
  BY <1>9 DEF RequestEnter
<1>10. ASSUME NEW r \in Requests, RequestAcquire(r) PROVE FileFollowsList'
  BY <1>10 DEF RequestAcquire
<1>11. ASSUME NEW r \in Requests, AddProcess(r) PROVE FileFollowsList'
  BY <1>11 DEF AddProcess
<1>12. ASSUME NEW r \in Requests, RemoveProcess(r) PROVE FileFollowsList'
  BY <1>12 DEF RemoveProcess
<1>13. ASSUME NEW r \in Requests, RequestSave(r) PROVE FileFollowsList'
  BY <1>13 DEF RequestSave
<1>14. CASE SaveState
  BY <1>14 DEF SaveState
<1>15. CASE StopSignal
  BY <1>15 DEF StopSignal
<1>16. CASE StopRundown
  BY <1>16 DEF StopRundown
<1>17. CASE StopDrained
  BY <1>17 DEF StopDrained
<1>18. CASE Restart
  BY <1>18 DEF Restart, Volatile
<1>19. ASSUME NEW p \in Pids, Launch(p) PROVE FileFollowsList'
  BY <1>19 DEF Launch
<1>20. ASSUME NEW p \in Pids, Exit(p) PROVE FileFollowsList'
  BY <1>20 DEF Exit
<1>21. CASE UNCHANGED vars
  BY <1>21 DEF vars
<1>22. QED
  BY <1>1, <1>2, <1>3, <1>4, <1>5, <1>6, <1>7, <1>8, <1>9, <1>10, <1>11, <1>12, <1>13,
     <1>14, <1>15, <1>16, <1>17, <1>18, <1>19, <1>20, <1>21 DEF Next, Step, Start, Loop,
     LoopTimer, Request, Stop, Points

\* Nobody comes back after a Stop.
LEMMA StopNext == TypeOK /\ RefsAreExact /\ StopInv /\ [Next]_vars => StopInv'
<1> SUFFICES ASSUME TypeOK, RefsAreExact, StopInv, [Next]_vars PROVE StopInv'
  OBVIOUS
<1> USE DEF StopInv, NobodyInside, Inside, Running, goVars
<1>1. CASE LoadItem
  BY <1>1 DEF LoadItem, Starting
<1>2. CASE EndLoad
  BY <1>2 DEF EndLoad, Starting
<1>3. ASSUME NEW from, NEW to, Points(from, to), CheckForDeadProcesses(from, to)
      PROVE  StopInv'
  BY <1>3 DEF CheckForDeadProcesses, Points, Volatile, Starting
<1>4. ASSUME NEW pt, NEW p \in Pids, pt \in {"startNew", "loopNew"}, CheckNewProcess(pt, p)
      PROVE  StopInv'
  BY <1>4 DEF CheckNewProcess
<1>5. ASSUME NEW from, NEW to, Points(from, to), EndNewProcesses(from, to)
      PROVE  StopInv'
  BY <1>5 DEF EndNewProcesses, Points, Starting
<1>6. CASE RunEnter
  BY <1>6 DEF RunEnter, ShuttingDown, Starting
<1>7. CASE RunAcquire
  BY <1>7 DEF RunAcquire, Starting
<1>8. CASE LoopShutdown
  BY <1>8 DEF LoopShutdown, Starting
<1>9. ASSUME NEW r \in Requests, RequestEnter(r) PROVE StopInv'
  BY <1>9 DEF RequestEnter, ShuttingDown
<1>10. ASSUME NEW r \in Requests, RequestAcquire(r) PROVE StopInv'
  BY <1>10 DEF RequestAcquire, TypeOK
<1>11. ASSUME NEW r \in Requests, AddProcess(r) PROVE StopInv'
  BY <1>11 DEF AddProcess
<1>12. ASSUME NEW r \in Requests, RemoveProcess(r) PROVE StopInv'
  BY <1>12 DEF RemoveProcess
<1>13. ASSUME NEW r \in Requests, RequestSave(r) PROVE StopInv'
  BY <1>13 DEF RequestSave
<1>14. CASE SaveState
  BY <1>14 DEF SaveState
<1>15. CASE StopSignal
  BY <1>15 DEF StopSignal
<1>16. CASE StopRundown
  BY <1>16 DEF StopRundown
<1>17. CASE StopDrained
  <2>1. savers = 0 /\ LoopRefs = 0 /\ Cardinality(Inside) = 0
    BY <1>17, InsideIsFinite, RefsAreOfInside DEF StopDrained, TypeOK
  <2>2. Inside = {} /\ ~Running
    BY <2>1, InsideIsFinite, FS_EmptySet DEF LoopRefs
  <2>3. QED
    BY <1>17, <2>1, <2>2 DEF StopDrained
<1>18. CASE Restart
  BY <1>18 DEF Restart, Volatile
<1>19. ASSUME NEW p \in Pids, Launch(p) PROVE StopInv'
  BY <1>19 DEF Launch
<1>20. ASSUME NEW p \in Pids, Exit(p) PROVE StopInv'
  BY <1>20 DEF Exit
<1>21. CASE UNCHANGED vars
  BY <1>21 DEF vars
<1>22. QED
  BY <1>1, <1>2, <1>3, <1>4, <1>5, <1>6, <1>7, <1>8, <1>9, <1>10, <1>11, <1>12, <1>13,
     <1>14, <1>15, <1>16, <1>17, <1>18, <1>19, <1>20, <1>21 DEF Next, Step, Start, Loop,
     LoopTimer, Request, Stop, Points

----------------------------------------------------------------------------
LEMMA InitInv == Init => Inv
<1> SUFFICES ASSUME Init PROVE Inv
  OBVIOUS
<1>1. Range(<<>>) = {} /\ <<>> \in Seq(Items)
  BY DEF Range
<1>2. TypeOK
  BY <1>1 DEF Init, TypeOK, ThreadPoints, Starting, RequestPoints, StopPoints
<1>3. Inside = {} /\ LoopRefs = 0
  BY DEF Init, Inside, LoopRefs, Running
<1>4. RefsAreExact
  BY <1>3, FS_EmptySet, RefsAreOfInside DEF Init
<1>5. QED
  BY <1>1, <1>2, <1>4 DEF Init, Inv, WatchedOnce, ItemsWereBorn, NoticedHasEnded,
     NoticedIsGone, FileFollowsList, StopInv

THEOREM Invariance == Spec => []Inv
<1>1. Inv /\ [Next]_vars => Inv'
  BY TypeNext, OnceNext, BornNext, NoticedNext, RefsNext, FileNext, StopNext DEF Inv
<1>2. QED
  BY InitInv, <1>1, PTL DEF Spec

\* Every variable keeps its type; no reference is given back that was not taken
\* (processwatcher.go:71-171, 375-395).
THEOREM TypeCorrect == Spec => []TypeOK
BY Invariance, PTL DEF Inv

\* However requests, the settings and the state file add an item, it is there once
\* (addProcessInternal, processwatcher.go:185-214).
THEOREM ListedOnce == Spec => []WatchedOnce
BY Invariance, PTL DEF Inv

\* The references are those of the loop, the requests and the saves, whatever the
\* rundown refuses in between (processwatcher.go:93-119, 128-171, 378-391).
THEOREM RefsCorrect == Spec => []RefsAreExact
BY Invariance, PTL DEF Inv

\* No end of a process is told twice for an item, also over restarts from a file that
\* is older than the list (checkForDeadProcesses, loadState).
THEOREM ToldOnce == Spec => []NoticedIsGone
BY Invariance, PTL DEF Inv

\* Whenever no save is under way or owed, the file holds the list (runSaveState).
THEOREM FileIsList == Spec => []FileFollowsList
BY Invariance, PTL DEF Inv

\* When r.Wait has returned no request, no save and no loop works on the list any more,
\* whatever was under way when Stop was called (Stop, processwatcher.go:69-83).
THEOREM StopIsQuiet == Spec => [](stop = "stopped" => NobodyInside)
BY Invariance, PTL DEF Inv, StopInv

\* What Stop leaves behind is the list, unless a change was made for which the code
\* asks for no save (Stop and runSaveState).
THEOREM StopLeavesList == Spec => [](stop = "stopped" /\ ~unsaved => file = list)
<1>1. Inv => (stop = "stopped" /\ ~unsaved => file = list)
  <2> SUFFICES ASSUME Inv, stop = "stopped", ~unsaved PROVE file = list
    OBVIOUS
  <2>1. savers = 0 /\ Inside = {} /\ thread \notin {"load", "panic"}
    BY DEF Inv, StopInv, NobodyInside, Starting
  <2>2. QED
    BY <2>1 DEF Inv, FileFollowsList, Inside
<1>2. QED
  BY Invariance, <1>1, PTL
=============================================================================
