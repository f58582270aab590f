-------------------------- MODULE GracefulListener --------------------------
(***************************************************************************)
(* The listener of the API server: it counts the connections it hands out, *)
(* and its Close waits until the last of them is closed or a time limit is *)
(* over.  The connections are accepted by the loop of fasthttp's Serve and *)
(* closed by its workers, each at any time; Close is called once.          *)
(*                                                                         *)
(* Every access to the count and to the shutdown flag is an atomic         *)
(* operation of its own in the code and a step of its own here.  Closing   *)
(* the channel `done' a second time is a panic, which ends the program.    *)
(***************************************************************************)
EXTENDS Integers, FiniteSets

CONSTANT Conns          \* the connections that clients may open

ASSUME ConnsAssumption == IsFiniteSet(Conns)

VARIABLES
  inner,                \* the inner listener: "open" or "closed"
  accept,               \* Serve's loop: "accepting", "counting", or over with
                        \* the "eof" of a closed listener or "failed"
  conn,                 \* the program point of each connection
  seen,                 \* the count that the Close of a connection got back
  activeConnectionsCount, shutdown,
  done,                 \* the channel: "open" or "closed"
  close,                \* the program point of Close
  panic,
  raced                 \* history: when the inner listener was closed, a connection
                        \* was accepted and not counted yet, or somebody who had
                        \* counted down to zero had not used his zero before
                        \* another connection came

countVars == <<activeConnectionsCount, shutdown>>
listenerVars ==
  <<inner, accept, conn, seen, countVars, done, close, panic, raced>>

ConnPoints ==
  {"none", "accepted", "open", "innerClosed", "decremented", "closed", "stuck"}
ClosePoints ==
  {"idle", "innerClosed", "flagged", "waiting", "returned", "timedOut", "failed"}

\* The connections that the count stands for; one whose own Close failed is among them
\* for ever.
Counted == {c \in Conns : conn[c] \in {"open", "innerClosed", "stuck"}}

----------------------------------------------------------------------------
ListenerInit ==
  /\ inner = "open"
  /\ accept = "accepting"
  /\ conn = [c \in Conns |-> "none"]
  /\ seen = [c \in Conns |-> 0]
  /\ activeConnectionsCount = 0
  /\ shutdown = 0
  /\ done = "open"
  /\ close = "idle"
  /\ panic = FALSE
  /\ raced = FALSE

\* Accept: the inner listener returns a connection ...
AcceptInner(c) ==
  /\ accept = "accepting"
  /\ inner = "open"
  /\ conn[c] = "none"
  /\ conn' = [conn EXCEPT ![c] = "accepted"]
  /\ accept' = "counting"
  /\ UNCHANGED <<inner, seen, countVars, done, close, panic, raced>>

\* ... which is counted and handed to a worker.
AcceptCount(c) ==
  /\ conn[c] = "accepted"
  /\ activeConnectionsCount' = activeConnectionsCount + 1
  /\ conn' = [conn EXCEPT ![c] = "open"]
  /\ accept' = "accepting"
  /\ UNCHANGED <<inner, seen, shutdown, done, close, panic, raced>>

\* The inner listener returns an error: it was closed, or it failed for good.
AcceptFails ==
  /\ accept = "accepting"
  /\ accept' = IF inner = "closed" THEN "eof" ELSE "failed"
  /\ UNCHANGED <<inner, conn, seen, countVars, done, close, panic, raced>>

----------------------------------------------------------------------------
CloseDone ==
  /\ done' = "closed"
  /\ panic' = (done = "closed")

\* The Close of a connection: the connection itself, and when that fails nothing else ...
ConnClose(c) ==
  /\ conn[c] = "open"
  /\ \E point \in {"innerClosed", "stuck"} : conn' = [conn EXCEPT ![c] = point]
  /\ UNCHANGED <<inner, accept, seen, countVars, done, close, panic, raced>>

\* ... the count ...
ConnDecrement(c) ==
  /\ conn[c] = "innerClosed"
  /\ activeConnectionsCount' = activeConnectionsCount - 1
  /\ seen' = [seen EXCEPT ![c] = activeConnectionsCount - 1]
  /\ conn' = [conn EXCEPT ![c] = "decremented"]
  /\ UNCHANGED <<inner, accept, shutdown, done, close, panic, raced>>

\* Mutant: what the count was is not looked at.
ConnDoneAtOnce(c) ==
  /\ conn[c] = "decremented"
  /\ \/ /\ shutdown # 0
        /\ CloseDone
     \/ /\ shutdown = 0
        /\ UNCHANGED <<done, panic>>
  /\ conn' = [conn EXCEPT ![c] = "closed"]
  /\ seen' = [seen EXCEPT ![c] = 0]
  /\ UNCHANGED <<inner, accept, countVars, close, raced>>

\* ... and done, when the count it got back was zero and the flag is now up.
ConnDone(c) ==
  /\ conn[c] = "decremented"
  /\ \/ /\ shutdown # 0
        /\ seen[c] = 0
        /\ CloseDone
     \/ /\ shutdown = 0 \/ seen[c] # 0
        /\ UNCHANGED <<done, panic>>
  /\ conn' = [conn EXCEPT ![c] = "closed"]
  /\ seen' = [seen EXCEPT ![c] = 0]
  /\ UNCHANGED <<inner, accept, countVars, close, raced>>

----------------------------------------------------------------------------
\* Close: the inner listener, and when that fails, which may leave it open, nothing
\* else ...
CloseInner ==
  /\ close = "idle"
  /\ \/ inner' = "closed" /\ close' = "innerClosed"
     \/ inner' \in {"open", "closed"} /\ close' = "failed"
  /\ raced' = \/ accept = "counting"
              \/ /\ activeConnectionsCount # 0
                 /\ \E c \in Conns : conn[c] = "decremented" /\ seen[c] = 0
  /\ UNCHANGED <<accept, conn, seen, countVars, done, panic>>

\* ... the flag ...
CloseFlag ==
  /\ close = "innerClosed"
  /\ shutdown' = shutdown + 1
  /\ close' = "flagged"
  /\ UNCHANGED <<inner, accept, conn, seen, activeConnectionsCount, done, panic, raced>>

\* ... the count, and done when it is zero ...
CloseCount ==
  /\ close = "flagged"
  /\ \/ /\ activeConnectionsCount = 0
        /\ CloseDone
        /\ close' = "returned"
     \/ /\ activeConnectionsCount # 0
        /\ close' = "waiting"
        /\ UNCHANGED <<done, panic>>
  /\ UNCHANGED <<inner, accept, conn, seen, countVars, raced>>

\* ... or else a select over done and the time limit.
CloseSelect ==
  /\ close = "waiting"
  /\ \/ done = "closed" /\ close' = "returned"
     \/ close' = "timedOut"
  /\ UNCHANGED <<inner, accept, conn, seen, countVars, done, panic, raced>>

----------------------------------------------------------------------------
Closing == CloseFlag \/ CloseCount \/ CloseSelect
ConnEnds(c) == ConnDecrement(c) \/ ConnDone(c)

----------------------------------------------------------------------------
ListenerTypeOK ==
  /\ inner \in {"open", "closed"}
  /\ accept \in {"accepting", "counting", "eof", "failed"}
  /\ conn \in [Conns -> ConnPoints]
  /\ seen \in [Conns -> Nat]
  /\ activeConnectionsCount \in Nat
  /\ shutdown \in 0 .. 1
  /\ done \in {"open", "closed"}
  /\ close \in ClosePoints
  /\ panic \in BOOLEAN
  /\ raced \in BOOLEAN

\* A Close that returns without an error has waited for every connection: none is left
\* that was accepted and not closed, or closed with an error.  The count is not enough
\* for that when Close found a connection accepted and uncounted, or a zero in somebody's
\* hands that a later connection had made stale (Close, waitForZeroConns and
\* gracefulConn.Close).
CloseWaits ==
  close = "returned" /\ ~raced
    => \A c \in Conns : conn[c] \in {"none", "decremented", "closed"}
=============================================================================
