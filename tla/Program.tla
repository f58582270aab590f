------------------------------ MODULE Program ------------------------------
(***************************************************************************)
(* The life of the program: main.go starts the modules in order, runs them *)
(* from another goroutine, and stops them, after a failed start as well.   *)
(* The watchers are here as far as the others see them: a loop, notices    *)
(* under way to the logger, and saves, all of which hold the reference     *)
(* that their Stop waits for.  The outputs of the logger are here in full: *)
(* each counts its deliveries in a wait group, and Slack tries again.  The *)
(* wait group of main.go is handed over by value: nobody waits for it.     *)
(***************************************************************************)
EXTENDS Naturals, Sequences

CONSTANTS
  Notices,      \* the calls of the logger that can be under way at a time
  Configured,   \* the watchers that have something to watch
  Enabled       \* the outputs of the channel that the notices go to

Watchers == {"processwatcher", "freediskspacechecker", "webchecker", "tcpports"}
Outputs == {"file", "slack", "email"}
Modules == Watchers \cup Outputs \cup {"backend"}

ASSUME ProgramAssumption == Configured \subseteq Watchers /\ Enabled \subseteq Outputs

VARIABLES
  phase,        \* of main: "start", "serve", "abort" (the shutdown after a failed
                \* start), "stop", "exited", "panic"
  at,           \* position of main in StartOrder or in StopOrder
  waiting,      \* main has signalled the module at this position and waits for it
  runner,       \* position of the goroutine of run in RunOrder; 0: not started
  up,           \* the modules whose global pointer is set
  loop,         \* the goroutine of each Run: "none", "ready" or "running"
  listening,    \* the server accepts connections
  call,         \* the output that a call of the logger comes to next, or "none"
  from,         \* the watcher that a call comes from, or "request"
  delivery,     \* the goroutine that delivers a notice to an output
  writing,      \* watchers with a save under way
  torn,         \* watchers whose state file holds a part of a save
  spoilt        \* history: those whose last save failed or was cut short

vars == <<phase, at, waiting, runner, up, loop, listening, call, from, delivery,
          writing, torn, spoilt>>
mainVars == <<phase, at, waiting>>
noticeVars == <<call, from, delivery>>
fileVars == <<writing, torn, spoilt>>

----------------------------------------------------------------------------
\* Mutant: the server is started before the logger.
StartOrderServerFirst == <<"settings", "backend", "logger", "processwatcher",
                           "freediskspacechecker", "webchecker", "tcpports">>
StartOrder == <<"settings", "logger", "processwatcher", "freediskspacechecker",
                "webchecker", "tcpports", "backend">>
RunOrder == <<"email", "slack", "file", "processwatcher", "webchecker", "tcpports",
              "freediskspacechecker", "backend">>
\* Mutant: the process watcher is stopped after the logger.
StopOrderLoggerFirst == <<"backend", "freediskspacechecker", "tcpports", "webchecker",
                          "email", "slack", "file", "processwatcher">>

StopOrder == <<"backend", "freediskspacechecker", "tcpports", "webchecker",
               "processwatcher", "email", "slack", "file">>

Alive == phase \in {"start", "serve", "abort", "stop"}
Stopping == phase \in {"abort", "stop"}
Idle == [n \in Notices |-> [o \in Outputs |-> "none"]]

\* Mutant: a goroutine that saves holds no reference.
QuietBesideSaves(w) ==
  /\ loop[w] = "none"
  /\ \A n \in Notices : from[n] = w => call[n] = "none"

\* Nothing that a watcher does holds its rundown protection any more.  (While the
\* pointer is set, Acquire succeeds; Stop takes it away and begins the rundown.)
Quiet(w) ==
  /\ loop[w] = "none"
  /\ w \notin writing
  /\ \A n \in Notices : from[n] = w => call[n] = "none"

\* The shutdown channel of Slack is closed.
SlackClosed ==
  "slack" \notin up \/ (Stopping /\ waiting /\ StopOrder[at] = "slack")

Init ==
  /\ phase = "start"
  /\ at = 1
  /\ waiting = FALSE
  /\ runner = 0
  /\ up = {}
  /\ loop = [m \in Modules |-> "none"]
  /\ listening = FALSE
  /\ call = [n \in Notices |-> "none"]
  /\ from = [n \in Notices |-> "request"]
  /\ delivery = Idle
  /\ writing = {}
  /\ torn = {}
  /\ spoilt = {}

----------------------------------------------------------------------------
(***************************************************************************)
(* Start, run and Stop of main.go.                                         *)
(***************************************************************************)
StartModule ==
  /\ phase = "start"
  /\ at <= Len(StartOrder)
  /\ LET m == StartOrder[at]
     IN  /\ up' = up \cup IF m = "logger" THEN Outputs ELSE {m} \cap Modules
         /\ listening' = (listening \/ m = "backend")
  /\ at' = at + 1
  /\ UNCHANGED <<phase, waiting, runner, loop, noticeVars, fileVars>>

\* Bad settings, a state file that cannot be read, a port in use.  A watcher leaves
\* its pointer set, the backend does not; the three outputs never fail.
StartFails ==
  /\ phase = "start"
  /\ at <= Len(StartOrder)
  /\ StartOrder[at] # "logger"
  /\ up' = up \cup ({StartOrder[at]} \cap Watchers)
  /\ phase' = "abort"
  /\ at' = 1
  /\ UNCHANGED <<waiting, runner, loop, listening, noticeVars, fileVars>>

StartDone ==
  /\ phase = "start"
  /\ at = Len(StartOrder) + 1
  /\ phase' = "serve"
  /\ runner' = 1
  /\ UNCHANGED <<at, waiting, up, loop, listening, noticeVars, fileVars>>

\* A Run finds its module or not.  The goroutines of the outputs read the pointer
\* again once they are scheduled, the others have a copy of it.
RunModule ==
  /\ phase \in {"serve", "stop"}
  /\ runner \in 1..Len(RunOrder)
  /\ LET m == RunOrder[runner]
     IN  loop' = IF m \notin up THEN loop
                 ELSE [loop EXCEPT ![m] = IF m \in Outputs THEN "ready" ELSE "running"]
  /\ runner' = runner + 1
  /\ UNCHANGED <<mainVars, up, listening, noticeVars, fileVars>>

\* The service manager asks for a stop once Start has returned.
AskStop ==
  /\ phase = "serve"
  /\ phase' = "stop"
  /\ at' = 1
  /\ UNCHANGED <<waiting, runner, up, loop, listening, noticeVars, fileVars>>

\* Stop finds no module, or it is that of the backend, which only signals.
StopPasses ==
  /\ Stopping
  /\ ~waiting
  /\ at <= Len(StopOrder)
  /\ StopOrder[at] \notin up \/ StopOrder[at] = "backend"
  /\ up' = up \ {StopOrder[at]}
  /\ at' = at + 1
  /\ UNCHANGED <<phase, waiting, runner, loop, listening, noticeVars, fileVars>>

\* Mutant: e-mail and file do not hand over their signal, they only leave it.
StopBeginsUnheard ==
  /\ Stopping
  /\ ~waiting
  /\ at <= Len(StopOrder)
  /\ StopOrder[at] \in up \ {"backend"}
  /\ up' = up \ ({StopOrder[at]} \cap Watchers)
  /\ waiting' = TRUE
  /\ UNCHANGED <<phase, at, runner, loop, listening, noticeVars, fileVars>>

\* Stop signals and begins to wait.  E-mail and file send to the goroutine of Run,
\* which ends; Slack closes its channel and keeps the pointer, as they do.
StopBegins ==
  /\ Stopping
  /\ ~waiting
  /\ at <= Len(StopOrder)
  /\ StopOrder[at] \in up \ {"backend"}
  /\ LET m == StopOrder[at]
     IN  /\ m \in {"email", "file"} => loop[m] = "running"
         /\ loop' = IF m \in {"email", "file"} THEN [loop EXCEPT ![m] = "none"] ELSE loop
         /\ up' = up \ ({m} \cap Watchers)
  /\ waiting' = TRUE
  /\ UNCHANGED <<phase, at, runner, listening, noticeVars, fileVars>>

\* Mutant: the outputs do not wait for their deliveries.
StopEndsAtOnce ==
  /\ Stopping
  /\ waiting
  /\ at <= Len(StopOrder)
  /\ LET m == StopOrder[at]
     IN  /\ m \in Watchers => Quiet(m)
         /\ up' = up \ {m}
  /\ at' = at + 1
  /\ waiting' = FALSE
  /\ UNCHANGED <<phase, runner, loop, listening, noticeVars, fileVars>>

\* The wait is over: that of the rundown protection, or that of the wait group.
StopEnds ==
  /\ Stopping
  /\ waiting
  /\ at <= Len(StopOrder)
  /\ LET m == StopOrder[at]
     IN  /\ m \in Watchers => Quiet(m)
         /\ m \in Outputs => \A n \in Notices : delivery[n][m] = "none"
         /\ up' = up \ {m}
  /\ at' = at + 1
  /\ waiting' = FALSE
  /\ UNCHANGED <<phase, runner, loop, listening, noticeVars, fileVars>>

\* shutdown returns, and the program ends whatever goroutines it still has.
ProgramExits ==
  /\ Stopping
  /\ at = Len(StopOrder) + 1
  /\ phase' = "exited"
  /\ UNCHANGED <<at, waiting, runner, up, loop, listening, noticeVars, fileVars>>

----------------------------------------------------------------------------
(***************************************************************************)
(* The goroutines of Run.                                                  *)
(***************************************************************************)
Panic ==
  /\ phase' = "panic"
  /\ UNCHANGED <<at, waiting, runner, up, loop, listening, noticeVars, fileVars>>

\* The goroutine of an output reads the pointer that Stop may have set to nil.
LoopBegins(o) ==
  /\ Alive
  /\ loop[o] = "ready"
  /\ \/ o \notin up /\ Panic
     \/ /\ o \in up
        /\ loop' = [loop EXCEPT ![o] = "running"]
        /\ UNCHANGED <<mainVars, runner, up, listening, noticeVars, fileVars>>

\* The shutdown channel of the others is closed, or the server has an outcome.
LoopEnds(m) ==
  /\ Alive
  /\ loop[m] = "running"
  /\ IF m = "slack" THEN SlackClosed ELSE m \notin up
  /\ loop' = [loop EXCEPT ![m] = "none"]
  /\ UNCHANGED <<mainVars, runner, up, listening, noticeVars, fileVars>>

\* The server hears of its Stop at a time of its own.
ListenerCloses ==
  /\ Alive
  /\ listening
  /\ "backend" \notin up
  /\ listening' = FALSE
  /\ UNCHANGED <<mainVars, runner, up, loop, noticeVars, fileVars>>

----------------------------------------------------------------------------
(***************************************************************************)
(* Notices: LogError and the others call file, Slack and e-mail.           *)
(***************************************************************************)
CallLogger(n, who) ==
  /\ call[n] = "none"
  /\ delivery[n] = Idle[n]
  /\ call' = [call EXCEPT ![n] = "file"]
  /\ from' = [from EXCEPT ![n] = who]
  /\ UNCHANGED <<mainVars, runner, up, loop, listening, delivery, fileVars>>

\* A watcher got its reference and calls the logger from a new goroutine.
Notify(n) ==
  \E w \in Configured : Alive /\ w \in up /\ loop[w] = "running" /\ CallLogger(n, w)

\* A client calls it, through no rundown protection.
PostNotify(n) == Alive /\ listening /\ CallLogger(n, "request")

\* An output counts the call in its wait group, through a pointer that may be nil,
\* and starts a goroutine that delivers if the channel has this output.
Log(n, o) ==
  /\ Alive
  /\ call[n] = o
  /\ \/ o \notin up /\ Panic
     \/ /\ o \in up
        /\ delivery' = [delivery EXCEPT ![n][o] = IF o \in Enabled THEN "sending" ELSE "none"]
        /\ call' = [call EXCEPT ![n] = IF o = "file" THEN "slack"
                                      ELSE IF o = "slack" THEN "email" ELSE "none"]
        /\ UNCHANGED <<mainVars, runner, up, loop, listening, from, fileVars>>

MoveDelivery(n, o, a, b) ==
  /\ Alive
  /\ delivery[n][o] = a
  /\ delivery' = [delivery EXCEPT ![n][o] = b]
  /\ UNCHANGED <<mainVars, runner, up, loop, listening, call, from, fileVars>>

\* Delivered, or given up with an error that the console shows.
Deliver(n, o) == MoveDelivery(n, o, "sending", "none")
\* Too many requests: wait as long as the answer says, then try again ...
SlackRefuses(n) == MoveDelivery(n, "slack", "sending", "backoff")
SlackRetries(n) == MoveDelivery(n, "slack", "backoff", "sending")
\* Mutant: the wait is a plain sleep.
SlackCancelsNever(n) == FALSE /\ MoveDelivery(n, "slack", "backoff", "none")

\* ... or give up because the module is stopping.
SlackCancels(n) == SlackClosed /\ MoveDelivery(n, "slack", "backoff", "none")

----------------------------------------------------------------------------
(***************************************************************************)
(* State files: opened for writing without truncation, written in place;   *)
(* the error of a write is lost and the file stays.                        *)
(***************************************************************************)
SaveBegins(w) ==
  /\ Alive
  /\ w \in up \ writing
  /\ loop[w] = "running" \/ (w = "processwatcher" /\ listening)
  /\ writing' = writing \cup {w}
  /\ torn' = torn \cup {w}
  /\ UNCHANGED <<mainVars, runner, up, loop, listening, noticeVars, spoilt>>

SaveEnds(w) ==
  /\ Alive
  /\ w \in writing
  /\ writing' = writing \ {w}
  /\ torn' = torn \ {w}
  /\ spoilt' = spoilt \ {w}
  /\ UNCHANGED <<mainVars, runner, up, loop, listening, noticeVars>>

SaveFails(w) ==
  /\ Alive
  /\ w \in writing
  /\ writing' = writing \ {w}
  /\ spoilt' = spoilt \cup {w}
  /\ UNCHANGED <<mainVars, runner, up, loop, listening, noticeVars, torn>>

\* The program is killed, or has ended, and is started again.
Restart ==
  /\ phase' = "start"
  /\ at' = 1
  /\ waiting' = FALSE
  /\ runner' = 0
  /\ up' = {}
  /\ loop' = [m \in Modules |-> "none"]
  /\ listening' = FALSE
  /\ call' = [n \in Notices |-> "none"]
  /\ from' = [n \in Notices |-> "request"]
  /\ delivery' = Idle
  /\ writing' = {}
  /\ spoilt' = spoilt \cup writing
  /\ UNCHANGED torn

----------------------------------------------------------------------------
Start == StartModule \/ StartFails \/ StartDone
Stop == StopPasses \/ StopBegins \/ StopEnds \/ ProgramExits
Delivering(n) == Deliver(n, "slack") \/ SlackRefuses(n)

\* The steps of one life of the program.
Life ==
  \/ Start \/ AskStop \/ Stop
  \/ RunModule
  \/ \E o \in Outputs : LoopBegins(o)
  \/ \E m \in Modules : LoopEnds(m)
  \/ ListenerCloses
  \/ \E n \in Notices : Notify(n)
  \/ \E n \in Notices : PostNotify(n)
  \/ \E n \in Notices, o \in Outputs : Log(n, o)
  \/ \E n \in Notices, o \in Outputs : Deliver(n, o)
  \/ \E n \in Notices : SlackRefuses(n)
  \/ \E n \in Notices : SlackRetries(n)
  \/ \E n \in Notices : SlackCancels(n)
  \/ \E w \in Configured : SaveBegins(w) \/ SaveEnds(w) \/ SaveFails(w)

Next == Life \/ Restart

Spec == Init /\ [][Next]_vars

\* Goroutines that can go on go on; files and mail servers take a message some
\* time; Slack answers within its time limit, but may refuse as often as it likes.
\* The channel that a stop closes is ready whenever a delivery selects.
Fairness ==
  /\ WF_vars(Start) /\ WF_vars(Stop) /\ WF_vars(RunModule)
  /\ WF_vars(ListenerCloses)
  /\ \A o \in Outputs : WF_vars(LoopBegins(o))
  /\ \A m \in Modules : WF_vars(LoopEnds(m))
  /\ \A n \in Notices :
       /\ \A o \in Outputs : WF_vars(Log(n, o))
       /\ WF_vars(Deliver(n, "file")) /\ WF_vars(Deliver(n, "email"))
       /\ WF_vars(Delivering(n))
       /\ SF_vars(SlackCancels(n))
  /\ \A w \in Configured : WF_vars(SaveEnds(w) \/ SaveFails(w))

FairSpec == Spec /\ Fairness

\* One life that is not cut short from outside.
LifeSpec == Init /\ [][Life]_vars /\ Fairness

----------------------------------------------------------------------------
TypeOK ==
  /\ phase \in {"start", "serve", "abort", "stop", "exited", "panic"}
  /\ at \in 1..Len(StopOrder) + 1
  /\ waiting \in BOOLEAN
  /\ runner \in 0..Len(RunOrder) + 1
  /\ up \subseteq Modules
  /\ loop \in [Modules -> {"none", "ready", "running"}]
  /\ listening \in BOOLEAN
  /\ call \in [Notices -> Outputs \cup {"none"}]
  /\ from \in [Notices -> Watchers \cup {"request"}]
  /\ delivery \in [Notices -> [Outputs -> {"none", "sending", "backoff"}]]
  /\ writing \subseteq Configured
  /\ torn \subseteq Configured
  /\ spoilt \subseteq Configured

\* A notice of a watcher finds the output it is about to be passed to: the logger
\* outlives every goroutine that holds a reference of a watcher (main.go:97-103).
NoticeFindsLogger ==
  Alive => \A n \in Notices : call[n] # "none" /\ from[n] \in Watchers => call[n] \in up

\* When the program ends by itself no notice of a watcher is still on its way or
\* being delivered (the wait groups of email.go:45, slack.go:49, file.go:88).
NoticesAreDelivered ==
  phase = "exited" =>
    \A n \in Notices : from[n] \in Watchers => call[n] = "none" /\ delivery[n] = Idle[n]

\* Neither is a loop of a watcher, of the file log or of e-mail, although run may
\* not be over and main waits for no wait group (main.go:86-106).
NothingLeftBehind ==
  phase = "exited" => \A m \in Watchers \cup {"email", "file"} : loop[m] = "none"

\* A state file that is torn after the program ended by itself was torn by a write
\* that failed or by a crash, not by a Stop that overtook a save.
FilesAreWhole == phase = "exited" => torn \subseteq spoilt

\* Whatever the clients do while modules start and run, no nil pointer is met
\* before a stop was asked for (main.go:36, "Must be initialize first").
PanicOnlyWhenStopping == [][phase' = "panic" => phase = "stop"]_vars

\* A stop that is asked for ends, however long Slack refuses, also when run has not
\* come to the logger yet.
StopReturns == phase = "stop" ~> phase # "stop"

\* Start returns, as the service library asks of it (service.go:299-301).
StartReturns == phase \in {"start", "abort"} ~> phase \notin {"start", "abort"}
=============================================================================
