------------------------------- MODULE Server -------------------------------
(***************************************************************************)
(* The API server: a goroutine runs fasthttp's Serve on the graceful       *)
(* listener and sends its result on listenErr; a second one waits for that *)
(* result or for the signal of Stop, closes the listener, and sends the    *)
(* outcome on shutdownErr for Wait.  Stop and a failing Serve race for     *)
(* shuttingDown; backend.Stop forgets the module and calls Stop, and       *)
(* backend.Run waits in a goroutine of its own.                            *)
(***************************************************************************)
EXTENDS GracefulListener

VARIABLES
  listenErr, shutdownErr,       \* channels of capacity one: "none", or what is in it
  shutdownSignal,       \* a channel of capacity one: a signal is in it
  serve,                \* the goroutine of Serve: "serving" or "over"
  manager,              \* the other goroutine: "select", "closing", or the
                        \* outcome it is about to send
  shuttingDown,
  module,               \* backend.Stop has not forgotten the module
  stop,                 \* the program point of Stop
  wait                  \* "waiting", or what Wait returned

serverVars == <<listenErr, shutdownErr, shutdownSignal, serve, manager,
                shuttingDown, module, stop, wait>>
vars == <<listenerVars, serverVars>>

Results == {"nil", "error"}

Init ==
  /\ ListenerInit
  /\ listenErr = "none"
  /\ shutdownSignal = FALSE
  /\ shutdownErr = "none"
  /\ serve = "serving"
  /\ manager = "select"
  /\ shuttingDown = 0
  /\ module = TRUE
  /\ stop = "idle"
  /\ wait = "waiting"

----------------------------------------------------------------------------
\* Serve accepts and its workers close what they serve.
Connections ==
  /\ \/ \E c \in Conns : AcceptInner(c) \/ AcceptCount(c) \/ ConnClose(c) \/ ConnEnds(c)
     \/ AcceptFails
  /\ UNCHANGED serverVars

\* Serve takes a closed listener for the end of the file, which is no error.
ServeReturns ==
  /\ serve = "serving"
  /\ accept \in {"eof", "failed"}
  /\ listenErr = "none"
  /\ listenErr' = IF accept = "eof" THEN "nil" ELSE "error"
  /\ serve' = "over"
  /\ UNCHANGED <<listenerVars, shutdownSignal, shutdownErr, manager, shuttingDown,
                 module, stop, wait>>

----------------------------------------------------------------------------
\* Mutant: shuttingDown is not looked at.
ReceiveListenErrAlways ==
  /\ manager = "select"
  /\ listenErr # "none"
  /\ listenErr' = "none"
  /\ shuttingDown' = 1
  /\ manager' = listenErr
  /\ UNCHANGED <<listenerVars, shutdownSignal, shutdownErr, serve, module, stop,
                 wait>>

\* The manager receives the result of Serve ...
ReceiveListenErr ==
  /\ manager = "select"
  /\ listenErr # "none"
  /\ listenErr' = "none"
  /\ \/ /\ shuttingDown = 0
        /\ shuttingDown' = 1
        /\ manager' = listenErr
     \/ /\ shuttingDown = 1
        /\ UNCHANGED <<shuttingDown, manager>>
  /\ UNCHANGED <<listenerVars, shutdownSignal, shutdownErr, serve, module, stop,
                 wait>>

\* ... or the signal of Stop, and closes the listener ...
ReceiveSignal ==
  /\ manager = "select"
  /\ shutdownSignal
  /\ shutdownSignal' = FALSE
  /\ CloseInner
  /\ manager' = "closing"
  /\ UNCHANGED <<listenErr, shutdownErr, serve, shuttingDown, module, stop, wait>>

ManagerCloses ==
  /\ manager = "closing"
  /\ \/ Closing /\ UNCHANGED manager
     \/ /\ close \in {"returned", "timedOut", "failed"}
        /\ manager' = "nil"
        /\ UNCHANGED listenerVars
  /\ UNCHANGED <<listenErr, shutdownSignal, shutdownErr, serve, shuttingDown,
                 module, stop, wait>>

\* ... and sends the outcome, which blocks while shutdownErr is full.
SendOutcome ==
  /\ shutdownErr = "none"
  /\ manager \in Results
  /\ shutdownErr' = manager
  /\ manager' = "select"
  /\ UNCHANGED <<listenerVars, listenErr, shutdownSignal, serve, shuttingDown,
                 module, stop, wait>>

----------------------------------------------------------------------------
\* backend.Stop, then the Stop of the server.
BackendStop ==
  /\ module
  /\ module' = FALSE
  /\ stop' = "called"
  /\ UNCHANGED <<listenerVars, listenErr, shutdownSignal, shutdownErr, serve,
                 manager, shuttingDown, wait>>

\* Mutant: the signal is sent whoever won shuttingDown.
StopServerAlways ==
  /\ stop = "called"
  /\ stop' = "returned"
  /\ shuttingDown' = 1
  /\ shutdownSignal' = TRUE
  /\ UNCHANGED <<listenerVars, listenErr, shutdownErr, serve, manager, module,
                 wait>>

\* Mutant: Stop wins shuttingDown and sends no signal.
StopServerSilent ==
  /\ stop = "called"
  /\ stop' = "returned"
  /\ shuttingDown' = 1
  /\ UNCHANGED <<listenerVars, listenErr, shutdownSignal, shutdownErr, serve,
                 manager, module, wait>>

StopServer ==
  /\ stop = "called"
  /\ stop' = "returned"
  /\ \/ /\ shuttingDown = 0
        /\ shuttingDown' = 1
        /\ ~shutdownSignal
        /\ shutdownSignal' = TRUE
     \/ /\ shuttingDown = 1
        /\ UNCHANGED <<shuttingDown, shutdownSignal>>
  /\ UNCHANGED <<listenerVars, listenErr, shutdownErr, serve, manager, module,
                 wait>>

\* The goroutine of backend.Run receives the outcome.
WaitReceives ==
  /\ wait = "waiting"
  /\ shutdownErr # "none"
  /\ wait' = shutdownErr
  /\ shutdownErr' = "none"
  /\ UNCHANGED <<listenerVars, listenErr, shutdownSignal, serve, manager,
                 shuttingDown, module, stop>>

----------------------------------------------------------------------------
Manager == ReceiveListenErr \/ ReceiveSignal \/ ManagerCloses \/ SendOutcome

Next ==
  /\ ~panic
  /\ \/ Connections
     \/ ServeReturns
     \/ Manager
     \/ BackendStop
     \/ StopServer
     \/ WaitReceives

Spec == Init /\ [][Next]_vars

\* The goroutines of the server go on while they can and the accept loop hears of
\* a closed listener; clients and the user do as they like.
FairSpec ==
  /\ Spec
  /\ WF_vars(~panic /\ inner = "closed" /\ AcceptFails /\ UNCHANGED serverVars)
  /\ WF_vars(~panic /\ ServeReturns)
  /\ WF_vars(~panic /\ Manager)
  /\ WF_vars(~panic /\ StopServer)
  /\ WF_vars(~panic /\ WaitReceives)

----------------------------------------------------------------------------
TypeOK ==
  /\ ListenerTypeOK
  /\ listenErr \in {"none"} \cup Results
  /\ shutdownSignal \in BOOLEAN
  /\ shutdownErr \in {"none"} \cup Results
  /\ serve \in {"serving", "over"}
  /\ manager \in {"select", "closing"} \cup Results
  /\ shuttingDown \in 0 .. 1
  /\ module \in BOOLEAN
  /\ stop \in {"idle", "called", "returned"}
  /\ wait \in {"waiting"} \cup Results

\* There is one outcome, and one alone: whoever wins shuttingDown, the manager
\* sends once and never blocks on the full channel, and Wait misses nothing.
OneOutcome ==
  (manager \in Results \/ shutdownErr # "none")
    => /\ wait = "waiting"
       /\ manager \in Results => shutdownErr = "none"
       /\ shuttingDown = 1

\* Wait says that Serve failed only when no Stop had won: a Stop in progress is
\* never reported as an error of the listener that it closed.
StopIsNoError ==
  wait = "error" => (close = "idle" /\ ~shutdownSignal /\ inner = "open")

\* After a Stop, or a failure of Serve, Wait returns, unless the listener panics.
WaitReturns ==
  (stop = "returned" \/ serve = "over") ~> (wait # "waiting" \/ panic)
=============================================================================
