----------------------------- MODULE ServerProofs -----------------------------
(***************************************************************************)
(* The API server, for any number of connections: the Close of the         *)
(* graceful listener waits for all of them, unless one is accepted at the  *)
(* wrong time, and whoever wins shuttingDown, Wait gets one outcome, which *)
(* is no error when a Stop has won.                                        *)
(***************************************************************************)
EXTENDS Server, FiniteSetTheorems, TLAPS

USE ConnsAssumption

LEMMA CountedIsFinite == IsFiniteSet(Counted) /\ Cardinality(Counted) \in Nat
<1>1. Counted \subseteq Conns
  BY DEF Counted
<1>2. QED
  BY <1>1, FS_Subset, FS_CardinalityType

LEMMA CountedIsFiniteNext == IsFiniteSet(Counted') /\ Cardinality(Counted') \in Nat
<1>1. Counted' \subseteq Conns
  BY DEF Counted
<1>2. QED
  BY <1>1, FS_Subset, FS_CardinalityType

----------------------------------------------------------------------------
(***************************************************************************)
(* The invariant.                                                          *)
(***************************************************************************)
\* The count is the number of connections that were counted and not subtracted.
CountIsExact == activeConnectionsCount = Cardinality(Counted)

\* Close raises the flag once, after the inner listener was closed, and is called only
\* for the signal of Stop; done is closed under the flag alone.
CloseInv ==
  /\ close \in {"idle", "innerClosed", "failed"} <=> shutdown = 0
  /\ close = "idle" => inner = "open"
  /\ close \notin {"idle", "failed"} => inner = "closed"
  /\ done = "closed" => shutdown # 0

\* Only the accept loop holds an uncounted connection, one at a time.
AcceptInv ==
  /\ \A c \in Conns : conn[c] = "accepted" => accept = "counting"
  /\ \A c, b \in Conns : conn[c] = "accepted" /\ conn[b] = "accepted" => c = b

\* When nothing raced with it, a zero that is found after Close closed the inner
\* listener is final: no connection is accepted any more, and neither the zero in the
\* hands of a connection nor that behind done is stale.
WaitInv ==
  ~raced /\ close \notin {"idle", "failed"} =>
    /\ \A c \in Conns : /\ conn[c] # "accepted"
                        /\ conn[c] = "decremented" /\ seen[c] = 0
                             => activeConnectionsCount = 0
    /\ done = "closed" \/ close = "returned" => activeConnectionsCount = 0

\* The outcome is in one place at a time: it is announced by the signal, the manager
\* works on it or is about to send it, it is in the channel, or Wait has it.
OneInv ==
  /\ shuttingDown = 0 => /\ ~shutdownSignal /\ manager = "select"
                         /\ shutdownErr = "none" /\ wait = "waiting"
                         /\ close = "idle"
  /\ shutdownSignal => manager = "select" /\ shutdownErr = "none" /\ wait = "waiting"
  /\ manager # "select" => shutdownErr = "none" /\ wait = "waiting"
  /\ shutdownErr # "none" => wait = "waiting"

\* An error is the outcome only if no Stop has won.
ErrorInv ==
  manager = "error" \/ shutdownErr = "error" \/ wait = "error" =>
    close = "idle" /\ ~shutdownSignal /\ shuttingDown = 1

Inv == /\ TypeOK /\ CountIsExact /\ CloseInv /\ AcceptInv /\ WaitInv /\ OneInv
       /\ ErrorInv

----------------------------------------------------------------------------
\* The count follows the connections.
LEMMA CountNext == TypeOK /\ CountIsExact /\ [Next]_vars => CountIsExact'
<1> SUFFICES ASSUME TypeOK, CountIsExact, [Next]_vars PROVE CountIsExact'
  OBVIOUS
<1> USE DEF CountIsExact, listenerVars, countVars, serverVars
<1>1. ASSUME NEW c \in Conns, AcceptInner(c), UNCHANGED serverVars PROVE CountIsExact'
  <2>1. Counted' = Counted
    BY <1>1 DEF AcceptInner, Counted, TypeOK, ListenerTypeOK
  <2>2. QED
    BY <1>1, <2>1 DEF AcceptInner
<1>2. ASSUME NEW c \in Conns, AcceptCount(c), UNCHANGED serverVars PROVE CountIsExact'
  <2>1. c \notin Counted /\ Counted' = Counted \cup {c}
    BY <1>2 DEF AcceptCount, Counted, TypeOK, ListenerTypeOK
  <2>2. Cardinality(Counted') = Cardinality(Counted) + 1
    BY <2>1, CountedIsFinite, FS_AddElement
  <2>3. QED
    BY <1>2, <2>2 DEF AcceptCount
<1>3. CASE AcceptFails /\ UNCHANGED serverVars
  BY <1>3 DEF AcceptFails, Counted
<1>4. ASSUME NEW c \in Conns, ConnClose(c), UNCHANGED serverVars PROVE CountIsExact'
  <2>1. Counted' = Counted
    BY <1>4 DEF ConnClose, Counted, TypeOK, ListenerTypeOK
  <2>2. QED
    BY <1>4, <2>1 DEF ConnClose
<1>5. ASSUME NEW c \in Conns, ConnDecrement(c), UNCHANGED serverVars PROVE CountIsExact'
  <2>1. c \in Counted /\ Counted' = Counted \ {c}
    BY <1>5 DEF ConnDecrement, Counted, TypeOK, ListenerTypeOK
  <2>2. Cardinality(Counted') = Cardinality(Counted) - 1
    BY <2>1, CountedIsFinite, FS_RemoveElement
  <2>3. QED
    BY <1>5, <2>2 DEF ConnDecrement
<1>6. ASSUME NEW c \in Conns, ConnDone(c), UNCHANGED serverVars PROVE CountIsExact'
  <2>1. Counted' = Counted
    BY <1>6 DEF ConnDone, Counted, TypeOK, ListenerTypeOK
  <2>2. QED
    BY <1>6, <2>1 DEF ConnDone
<1>7. CASE ServeReturns
  BY <1>7 DEF ServeReturns, Counted
<1>8. CASE ReceiveListenErr
  BY <1>8 DEF ReceiveListenErr, Counted
<1>9. CASE ReceiveSignal
  BY <1>9 DEF ReceiveSignal, CloseInner, Counted
<1>10. CASE ManagerCloses
  BY <1>10 DEF ManagerCloses, Closing, CloseFlag, CloseCount, CloseSelect, CloseDone,
     Counted
<1>11. CASE SendOutcome
  BY <1>11 DEF SendOutcome, Counted
<1>12. CASE BackendStop
  BY <1>12 DEF BackendStop, Counted
<1>13. CASE StopServer
  BY <1>13 DEF StopServer, Counted
<1>14. CASE WaitReceives
  BY <1>14 DEF WaitReceives, Counted
<1>15. CASE UNCHANGED vars
  BY <1>15 DEF vars, Counted
<1>16. QED
  BY <1>1, <1>2, <1>3, <1>4, <1>5, <1>6, <1>7, <1>8, <1>9, <1>10, <1>11, <1>12, <1>13,
     <1>14, <1>15 DEF Next, Connections, ConnEnds, Manager

\* Every step keeps the types.
LEMMA TypeNext == TypeOK /\ CountIsExact /\ CloseInv /\ OneInv /\ [Next]_vars => TypeOK'
<1> SUFFICES ASSUME TypeOK, CountIsExact, CloseInv, OneInv, [Next]_vars PROVE TypeOK'
  OBVIOUS
<1> USE DEF TypeOK, ListenerTypeOK, listenerVars, countVars, serverVars
<1>1. ASSUME NEW c \in Conns, AcceptInner(c), UNCHANGED serverVars PROVE TypeOK'
  BY <1>1 DEF AcceptInner, ConnPoints
<1>2. ASSUME NEW c \in Conns, AcceptCount(c), UNCHANGED serverVars PROVE TypeOK'
  BY <1>2 DEF AcceptCount, ConnPoints
<1>3. CASE AcceptFails /\ UNCHANGED serverVars
  BY <1>3 DEF AcceptFails
<1>4. ASSUME NEW c \in Conns, ConnClose(c), UNCHANGED serverVars PROVE TypeOK'
  BY <1>4 DEF ConnClose, ConnPoints
<1>5. ASSUME NEW c \in Conns, ConnDecrement(c), UNCHANGED serverVars PROVE TypeOK'
  <2>1. activeConnectionsCount' \in Nat
    BY CountNext, CountedIsFiniteNext DEF CountIsExact
  <2>2. activeConnectionsCount' = activeConnectionsCount - 1
    BY <1>5 DEF ConnDecrement
  <2>3. QED
    BY <1>5, <2>1, <2>2 DEF ConnDecrement, ConnPoints
<1>6. ASSUME NEW c \in Conns, ConnDone(c), UNCHANGED serverVars PROVE TypeOK'
  <2>1. panic' \in BOOLEAN /\ done' \in {"open", "closed"}
    BY <1>6 DEF ConnDone, CloseDone
  <2>2. QED
    BY <1>6, <2>1 DEF ConnDone, ConnPoints
<1>7. CASE ServeReturns
  BY <1>7 DEF ServeReturns, Results
<1>8. CASE ReceiveListenErr
  BY <1>8 DEF ReceiveListenErr, Results
<1>9. CASE ReceiveSignal
  <2>1. raced' \in BOOLEAN
    BY <1>9 DEF ReceiveSignal, CloseInner
  <2>2. /\ inner' \in {"open", "closed"} /\ close' \in ClosePoints
        /\ UNCHANGED <<accept, conn, seen, countVars, done, panic>>
    BY <1>9 DEF ReceiveSignal, CloseInner, ClosePoints
  <2>3. ListenerTypeOK'
    BY <2>1, <2>2
  <2>4. shutdownSignal' \in BOOLEAN
    BY <1>9 DEF ReceiveSignal
  <2> HIDE DEF ListenerTypeOK
  <2>5. QED
    BY <1>9, <2>3, <2>4 DEF ReceiveSignal
<1>10. CASE ManagerCloses
  <2>1. panic' \in BOOLEAN /\ done' \in {"open", "closed"}
    BY <1>10 DEF ManagerCloses, Closing, CloseFlag, CloseCount, CloseSelect, CloseDone
  <2>2. QED
    BY <1>10, <2>1 DEF ManagerCloses, Closing, CloseFlag, CloseCount, CloseSelect,
       ClosePoints, CloseInv, Results
<1>11. CASE SendOutcome
  BY <1>11 DEF SendOutcome, Results
<1>12. CASE BackendStop
  <2>1. UNCHANGED listenerVars /\ module' \in BOOLEAN
    BY <1>12 DEF BackendStop
  <2>2. ListenerTypeOK'
    BY <2>1
  <2>3. QED
    BY <1>12, <2>1, <2>2 DEF BackendStop
<1>13. CASE StopServer
  <2>1. shutdownSignal' \in BOOLEAN
    BY <1>13 DEF StopServer
  <2>2. QED
    BY <1>13, <2>1 DEF StopServer
<1>14. CASE WaitReceives
  BY <1>14 DEF WaitReceives, Results
<1>15. CASE UNCHANGED vars
  BY <1>15 DEF vars
<1>16. QED
  BY <1>1, <1>2, <1>3, <1>4, <1>5, <1>6, <1>7, <1>8, <1>9, <1>10, <1>11, <1>12, <1>13,
     <1>14, <1>15 DEF Next, Connections, ConnEnds, Manager

\* Close runs once.
LEMMA CloseNext == TypeOK /\ CloseInv /\ [Next]_vars => CloseInv'
<1> SUFFICES ASSUME TypeOK, CloseInv, [Next]_vars PROVE CloseInv'
  OBVIOUS
<1> USE DEF TypeOK, ListenerTypeOK, CloseInv, listenerVars, countVars, serverVars
<1>1. ASSUME NEW c \in Conns, AcceptInner(c), UNCHANGED serverVars PROVE CloseInv'
  BY <1>1 DEF AcceptInner
<1>2. ASSUME NEW c \in Conns, AcceptCount(c), UNCHANGED serverVars PROVE CloseInv'
  BY <1>2 DEF AcceptCount
<1>3. CASE AcceptFails /\ UNCHANGED serverVars
  BY <1>3 DEF AcceptFails
<1>4. ASSUME NEW c \in Conns, ConnClose(c), UNCHANGED serverVars PROVE CloseInv'
  BY <1>4 DEF ConnClose
<1>5. ASSUME NEW c \in Conns, ConnDecrement(c), UNCHANGED serverVars PROVE CloseInv'
  BY <1>5 DEF ConnDecrement
<1>6. ASSUME NEW c \in Conns, ConnDone(c), UNCHANGED serverVars PROVE CloseInv'
  BY <1>6 DEF ConnDone, CloseDone
<1>7. CASE ServeReturns
  BY <1>7 DEF ServeReturns
<1>8. CASE ReceiveListenErr
  BY <1>8 DEF ReceiveListenErr
<1>9. CASE ReceiveSignal
  BY <1>9 DEF ReceiveSignal, CloseInner
<1>10. CASE ManagerCloses
  <2>1. CASE CloseFlag
    BY <2>1 DEF CloseFlag
  <2>2. CASE CloseCount
    BY <2>2 DEF CloseCount, CloseDone
  <2>3. CASE CloseSelect
    BY <2>3 DEF CloseSelect
  <2>4. QED
    BY <1>10, <2>1, <2>2, <2>3 DEF ManagerCloses, Closing
<1>11. CASE SendOutcome
  BY <1>11 DEF SendOutcome
<1>12. CASE BackendStop
  BY <1>12 DEF BackendStop
<1>13. CASE StopServer
  BY <1>13 DEF StopServer
<1>14. CASE WaitReceives
  BY <1>14 DEF WaitReceives
<1>15. CASE UNCHANGED vars
  BY <1>15 DEF vars
<1>16. QED
  BY <1>1, <1>2, <1>3, <1>4, <1>5, <1>6, <1>7, <1>8, <1>9, <1>10, <1>11, <1>12, <1>13,
     <1>14, <1>15 DEF Next, Connections, ConnEnds, Manager

\* The accept loop goes on with one connection at a time.
LEMMA AcceptNext == TypeOK /\ AcceptInv /\ [Next]_vars => AcceptInv'
<1> SUFFICES ASSUME TypeOK, AcceptInv, [Next]_vars PROVE AcceptInv'
  OBVIOUS
<1> USE DEF TypeOK, ListenerTypeOK, AcceptInv, listenerVars, countVars, serverVars
<1>1. ASSUME NEW c \in Conns, AcceptInner(c), UNCHANGED serverVars PROVE AcceptInv'
  BY <1>1 DEF AcceptInner
<1>2. ASSUME NEW c \in Conns, AcceptCount(c), UNCHANGED serverVars PROVE AcceptInv'
  BY <1>2 DEF AcceptCount
<1>3. CASE AcceptFails /\ UNCHANGED serverVars
  BY <1>3 DEF AcceptFails
<1>4. ASSUME NEW c \in Conns, ConnClose(c), UNCHANGED serverVars PROVE AcceptInv'
  BY <1>4 DEF ConnClose
<1>5. ASSUME NEW c \in Conns, ConnDecrement(c), UNCHANGED serverVars PROVE AcceptInv'
  BY <1>5 DEF ConnDecrement
<1>6. ASSUME NEW c \in Conns, ConnDone(c), UNCHANGED serverVars PROVE AcceptInv'
  BY <1>6 DEF ConnDone, CloseDone
<1>7. CASE ReceiveSignal
  BY <1>7 DEF ReceiveSignal, CloseInner
<1>8. CASE ManagerCloses
  BY <1>8 DEF ManagerCloses, Closing, CloseFlag, CloseCount, CloseSelect, CloseDone
<1>9. CASE \/ ServeReturns \/ ReceiveListenErr \/ SendOutcome \/ BackendStop
           \/ StopServer \/ WaitReceives \/ UNCHANGED vars
  BY <1>9 DEF ServeReturns, ReceiveListenErr, SendOutcome, BackendStop, StopServer,
     WaitReceives, vars
<1>10. QED
  BY <1>1, <1>2, <1>3, <1>4, <1>5, <1>6, <1>7, <1>8, <1>9
     DEF Next, Connections, ConnEnds, Manager

\* A final zero stays final.
LEMMA WaitNext ==
  TypeOK /\ TypeOK' /\ CloseInv /\ AcceptInv /\ WaitInv /\ [Next]_vars => WaitInv'
<1> SUFFICES ASSUME TypeOK, TypeOK', CloseInv, AcceptInv, WaitInv, [Next]_vars
             PROVE  WaitInv'
  OBVIOUS
<1> USE DEF TypeOK, ListenerTypeOK, CloseInv, AcceptInv, WaitInv, listenerVars,
            countVars, serverVars
<1>1. ASSUME NEW c \in Conns, AcceptInner(c), UNCHANGED serverVars PROVE WaitInv'
  BY <1>1 DEF AcceptInner
<1>2. ASSUME NEW c \in Conns, AcceptCount(c), UNCHANGED serverVars PROVE WaitInv'
  BY <1>2 DEF AcceptCount
<1>3. CASE AcceptFails /\ UNCHANGED serverVars
  BY <1>3 DEF AcceptFails
<1>4. ASSUME NEW c \in Conns, ConnClose(c), UNCHANGED serverVars PROVE WaitInv'
  BY <1>4 DEF ConnClose
<1>5. ASSUME NEW c \in Conns, ConnDecrement(c), UNCHANGED serverVars PROVE WaitInv'
  BY <1>5 DEF ConnDecrement
<1>6. ASSUME NEW c \in Conns, ConnDone(c), UNCHANGED serverVars PROVE WaitInv'
  BY <1>6 DEF ConnDone, CloseDone
<1>7. CASE ReceiveSignal
  BY <1>7 DEF ReceiveSignal, CloseInner
<1>8. CASE ManagerCloses
  BY <1>8 DEF ManagerCloses, Closing, CloseFlag, CloseCount, CloseSelect, CloseDone
<1>9. CASE \/ ServeReturns \/ ReceiveListenErr \/ SendOutcome \/ BackendStop
           \/ StopServer \/ WaitReceives \/ UNCHANGED vars
  BY <1>9 DEF ServeReturns, ReceiveListenErr, SendOutcome, BackendStop, StopServer,
     WaitReceives, vars
<1>10. QED
  BY <1>1, <1>2, <1>3, <1>4, <1>5, <1>6, <1>7, <1>8, <1>9
     DEF Next, Connections, ConnEnds, Manager

\* The outcome stays one.
LEMMA OneNext == TypeOK /\ OneInv /\ [Next]_vars => OneInv'
<1> SUFFICES ASSUME TypeOK, OneInv, [Next]_vars PROVE OneInv'
  OBVIOUS
<1> USE DEF TypeOK, ListenerTypeOK, OneInv, listenerVars, countVars, serverVars
<1>1. ASSUME NEW c \in Conns, AcceptInner(c), UNCHANGED serverVars PROVE OneInv'
  BY <1>1 DEF AcceptInner, Results
<1>2. ASSUME NEW c \in Conns, AcceptCount(c), UNCHANGED serverVars PROVE OneInv'
  BY <1>2 DEF AcceptCount, Results
<1>3. CASE AcceptFails /\ UNCHANGED serverVars
  BY <1>3 DEF AcceptFails, Results
<1>4. ASSUME NEW c \in Conns, ConnClose(c), UNCHANGED serverVars PROVE OneInv'
  BY <1>4 DEF ConnClose, Results
<1>5. ASSUME NEW c \in Conns, ConnDecrement(c), UNCHANGED serverVars PROVE OneInv'
  BY <1>5 DEF ConnDecrement, Results
<1>6. ASSUME NEW c \in Conns, ConnDone(c), UNCHANGED serverVars PROVE OneInv'
  BY <1>6 DEF ConnDone, CloseDone, Results
<1>7. CASE ServeReturns
  BY <1>7 DEF ServeReturns, Results
<1>8. CASE ReceiveListenErr
  BY <1>8 DEF ReceiveListenErr, Results
<1>9. CASE ReceiveSignal
  BY <1>9 DEF ReceiveSignal, CloseInner, Results
<1>10. CASE ManagerCloses
  BY <1>10 DEF ManagerCloses, Closing, CloseFlag, CloseCount, CloseSelect, CloseDone,
     Results
<1>11. CASE SendOutcome
  BY <1>11 DEF SendOutcome, Results
<1>12. CASE BackendStop
  BY <1>12 DEF BackendStop, Results
<1>13. CASE StopServer
  BY <1>13 DEF StopServer, Results
<1>14. CASE WaitReceives
  BY <1>14 DEF WaitReceives, Results
<1>15. CASE UNCHANGED vars
  BY <1>15 DEF vars
<1>16. QED
  BY <1>1, <1>2, <1>3, <1>4, <1>5, <1>6, <1>7, <1>8, <1>9, <1>10, <1>11, <1>12, <1>13,
     <1>14, <1>15 DEF Next, Connections, ConnEnds, Manager

\* A Stop never turns into an error, nor an error into a Stop.
LEMMA ErrorNext == TypeOK /\ CloseInv /\ OneInv /\ ErrorInv /\ [Next]_vars => ErrorInv'
<1> SUFFICES ASSUME TypeOK, CloseInv, OneInv, ErrorInv, [Next]_vars PROVE ErrorInv'
  OBVIOUS
<1> USE DEF TypeOK, ListenerTypeOK, OneInv, ErrorInv, listenerVars, countVars, serverVars
<1>1. ASSUME NEW c \in Conns, AcceptInner(c), UNCHANGED serverVars PROVE ErrorInv'
  BY <1>1 DEF AcceptInner, Results
<1>2. ASSUME NEW c \in Conns, AcceptCount(c), UNCHANGED serverVars PROVE ErrorInv'
  BY <1>2 DEF AcceptCount, Results
<1>3. CASE AcceptFails /\ UNCHANGED serverVars
  BY <1>3 DEF AcceptFails, Results
<1>4. ASSUME NEW c \in Conns, ConnClose(c), UNCHANGED serverVars PROVE ErrorInv'
  BY <1>4 DEF ConnClose, Results
<1>5. ASSUME NEW c \in Conns, ConnDecrement(c), UNCHANGED serverVars PROVE ErrorInv'
  BY <1>5 DEF ConnDecrement, Results
<1>6. ASSUME NEW c \in Conns, ConnDone(c), UNCHANGED serverVars PROVE ErrorInv'
  BY <1>6 DEF ConnDone, CloseDone, Results
<1>7. CASE ServeReturns
  BY <1>7 DEF ServeReturns, Results
<1>8. CASE ReceiveListenErr
  BY <1>8 DEF ReceiveListenErr, Results
<1>9. CASE ReceiveSignal
  BY <1>9 DEF ReceiveSignal, CloseInner, Results
<1>10. CASE ManagerCloses
  BY <1>10 DEF ManagerCloses, Closing, CloseFlag, CloseCount, CloseSelect, CloseDone,
     Results
<1>11. CASE SendOutcome
  BY <1>11 DEF SendOutcome, Results
<1>12. CASE BackendStop
  BY <1>12 DEF BackendStop, Results
<1>13. CASE StopServer
  BY <1>13 DEF StopServer, Results
<1>14. CASE WaitReceives
  BY <1>14 DEF WaitReceives, Results
<1>15. CASE UNCHANGED vars
  BY <1>15 DEF vars
<1>16. QED
  BY <1>1, <1>2, <1>3, <1>4, <1>5, <1>6, <1>7, <1>8, <1>9, <1>10, <1>11, <1>12, <1>13,
     <1>14, <1>15 DEF Next, Connections, ConnEnds, Manager

----------------------------------------------------------------------------
LEMMA InitInv == Init => Inv
<1> SUFFICES ASSUME Init PROVE Inv
  OBVIOUS
<1>1. Counted = {}
  BY DEF Init, ListenerInit, Counted
<1>2. CountIsExact
  BY <1>1, FS_EmptySet DEF Init, ListenerInit, CountIsExact
<1>3. QED
  <2>1. TypeOK
    <3>1. panic \in BOOLEAN /\ raced \in BOOLEAN /\ shutdownSignal \in BOOLEAN /\ module \in BOOLEAN
      BY DEF Init, ListenerInit
    <3>2. ListenerTypeOK
      BY <3>1 DEF Init, ListenerInit, ListenerTypeOK, ConnPoints, ClosePoints
    <3>3. QED
      BY <3>1, <3>2 DEF Init, TypeOK, Results
  <2>2. CloseInv /\ AcceptInv /\ WaitInv /\ OneInv /\ ErrorInv
    BY DEF Init, ListenerInit, CloseInv, AcceptInv, WaitInv, OneInv, ErrorInv
  <2>3. QED
    BY <1>2, <2>1, <2>2 DEF Inv

THEOREM Invariance == Spec => []Inv
<1>1. Inv /\ [Next]_vars => Inv'
  BY TypeNext, CountNext, CloseNext, AcceptNext, WaitNext, OneNext, ErrorNext DEF Inv
<1>2. QED
  BY InitInv, <1>1, PTL DEF Spec

\* Every variable keeps its type: the count is never negative and the flag of Close is
\* raised once (listener.go:44-110, server.go:88-150).
THEOREM TypeCorrect == Spec => []TypeOK
BY Invariance, PTL DEF Inv

\* A Close that returns without an error leaves no connection behind, for any number of
\* connections, unless the inner listener was closed while one was accepted and uncounted, or while a
\* zero in somebody's hands was stale (Close and gracefulConn.Close,
\* listener.go:69-113).
THEOREM CloseIsComplete == Spec => []CloseWaits
<1>1. Inv => CloseWaits
  <2> SUFFICES ASSUME Inv, close = "returned", ~raced, NEW c \in Conns
               PROVE  conn[c] \in {"none", "decremented", "closed"}
    BY DEF CloseWaits
  <2>1. Cardinality(Counted) = 0
    BY DEF Inv, WaitInv, CountIsExact
  <2>2. Counted = {}
    BY <2>1, CountedIsFinite, FS_EmptySet
  <2>3. conn[c] # "accepted" /\ conn[c] \in ConnPoints
    BY DEF Inv, WaitInv, TypeOK, ListenerTypeOK
  <2>4. QED
    BY <2>2, <2>3 DEF Counted, ConnPoints
<1>2. QED
  BY Invariance, <1>1, PTL

\* Whoever wins shuttingDown, there is one outcome, and the manager never blocks on the
\* channel it sends it on (server.go:95-125).
THEOREM OutcomeIsOne == Spec => []OneOutcome
<1>1. Inv => OneOutcome
  BY DEF Inv, OneInv, OneOutcome, Results, TypeOK
<1>2. QED
  BY Invariance, <1>1, PTL

\* A Stop that has won is never reported as a failure of the listener that it closed.
THEOREM NoFalseError == Spec => []StopIsNoError
<1>1. Inv => StopIsNoError
  BY DEF Inv, ErrorInv, CloseInv, StopIsNoError
<1>2. QED
  BY Invariance, <1>1, PTL
==============================================================================
