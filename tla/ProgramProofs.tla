---------------------------- MODULE ProgramProofs ----------------------------
(***************************************************************************)
(* The program as a whole, from the settings it loads to the log files it  *)
(* leaves.  Its life first, for any number of notices, any watchers with   *)
(* something to watch and any channel: what the order of the starts and    *)
(* that of the stops protect.  Then what Load makes of any settings, and   *)
(* what the cleaner makes of the log files.                                *)
(***************************************************************************)
EXTENDS Program, Settings, LogFiles, NaturalsInduction, WellFoundedInduction, TLAPS

\* The place of a module in StopOrder, and of one in RunOrder.
Place(m) ==
  IF m = "backend" THEN 1
  ELSE IF m = "freediskspacechecker" THEN 2
  ELSE IF m = "tcpports" THEN 3
  ELSE IF m = "webchecker" THEN 4
  ELSE IF m = "processwatcher" THEN 5
  ELSE IF m = "email" THEN 6
  ELSE IF m = "slack" THEN 7
  ELSE 8
Turn(m) ==
  IF m = "email" THEN 1
  ELSE IF m = "slack" THEN 2
  ELSE IF m = "file" THEN 3
  ELSE IF m = "processwatcher" THEN 4
  ELSE IF m = "webchecker" THEN 5
  ELSE IF m = "tcpports" THEN 6
  ELSE IF m = "freediskspacechecker" THEN 7
  ELSE 8

LEMMA StopPlaces ==
  /\ Len(StopOrder) = 8
  /\ \A i \in 1..8 : StopOrder[i] \in Modules /\ Place(StopOrder[i]) = i
  /\ \A m \in Modules : Place(m) \in 1..8 /\ StopOrder[Place(m)] = m
<1>1. /\ Len(StopOrder) = 8
      /\ StopOrder[1] = "backend" /\ StopOrder[2] = "freediskspacechecker"
      /\ StopOrder[3] = "tcpports" /\ StopOrder[4] = "webchecker"
      /\ StopOrder[5] = "processwatcher" /\ StopOrder[6] = "email"
      /\ StopOrder[7] = "slack" /\ StopOrder[8] = "file"
  BY DEF StopOrder
<1>2. /\ Place("backend") = 1
      /\ Place("freediskspacechecker") = 2
      /\ Place("tcpports") = 3
      /\ Place("webchecker") = 4
      /\ Place("processwatcher") = 5
      /\ Place("email") = 6
      /\ Place("slack") = 7
      /\ Place("file") = 8
  BY DEF Place
<1>3. ASSUME NEW i \in 1..8 PROVE StopOrder[i] \in Modules /\ Place(StopOrder[i]) = i
  <2>1. i = 1 \/ i = 2 \/ i = 3 \/ i = 4 \/ i = 5 \/ i = 6 \/ i = 7 \/ i = 8
    OBVIOUS
  <2>2. QED
    BY <1>1, <1>2, <2>1, Zenon DEF Modules, Watchers, Outputs
<1>4. ASSUME NEW m \in Modules PROVE Place(m) \in 1..8 /\ StopOrder[Place(m)] = m
  BY <1>1, <1>2 DEF Modules, Watchers, Outputs
<1>5. QED
  BY <1>1, <1>3, <1>4

LEMMA RunTurns ==
  /\ Len(RunOrder) = 8
  /\ \A i \in 1..8 : RunOrder[i] \in Modules /\ Turn(RunOrder[i]) = i
  /\ \A m \in Modules : Turn(m) \in 1..8
<1>1. /\ Len(RunOrder) = 8
      /\ RunOrder[1] = "email" /\ RunOrder[2] = "slack"
      /\ RunOrder[3] = "file" /\ RunOrder[4] = "processwatcher"
      /\ RunOrder[5] = "webchecker" /\ RunOrder[6] = "tcpports"
      /\ RunOrder[7] = "freediskspacechecker" /\ RunOrder[8] = "backend"
  BY DEF RunOrder
<1>2. /\ Turn("email") = 1
      /\ Turn("slack") = 2
      /\ Turn("file") = 3
      /\ Turn("processwatcher") = 4
      /\ Turn("webchecker") = 5
      /\ Turn("tcpports") = 6
      /\ Turn("freediskspacechecker") = 7
      /\ Turn("backend") = 8
  BY DEF Turn
<1>3. ASSUME NEW i \in 1..8 PROVE RunOrder[i] \in Modules /\ Turn(RunOrder[i]) = i
  <2>1. i = 1 \/ i = 2 \/ i = 3 \/ i = 4 \/ i = 5 \/ i = 6 \/ i = 7 \/ i = 8
    OBVIOUS
  <2>2. QED
    BY <1>1, <1>2, <2>1, Zenon DEF Modules, Watchers, Outputs
<1>4. ASSUME NEW m \in Modules PROVE Turn(m) \in 1..8
  BY DEF Turn
<1>5. QED
  BY <1>1, <1>3, <1>4

LEMMA StartPlaces ==
  /\ Len(StartOrder) = 7
  /\ StartOrder[1] = "settings" /\ StartOrder[2] = "logger"
  /\ StartOrder[3] = "processwatcher" /\ StartOrder[4] = "freediskspacechecker"
  /\ StartOrder[5] = "webchecker" /\ StartOrder[6] = "tcpports"
  /\ StartOrder[7] = "backend"
BY DEF StartOrder

----------------------------------------------------------------------------
(***************************************************************************)
(* The invariant.                                                          *)
(***************************************************************************)
\* Before run is started there are no loops and no notices of watchers; before the
\* server is there nothing happens at all.
StartInv ==
  /\ phase \in {"start", "abort"} =>
       /\ runner = 0
       /\ \A m \in Modules : loop[m] = "none"
       /\ \A n \in Notices : from[n] = "request"
  /\ phase = "abort" \/ (phase = "start" /\ at <= 7) =>
       /\ ~listening
       /\ writing = {}
       /\ \A n \in Notices : call[n] = "none"
  /\ phase = "start" => ~waiting /\ at <= 8

\* What the start has put in place so far.
UpInv ==
  /\ phase = "start" =>
       /\ at >= 3 => Outputs \subseteq up
       /\ at >= 4 => "processwatcher" \in up
       /\ at >= 5 => "freediskspacechecker" \in up
       /\ at >= 6 => "webchecker" \in up
       /\ at >= 7 => "tcpports" \in up
  /\ phase = "serve" => ~waiting /\ Watchers \cup Outputs \subseteq up

\* A loop is there only when run has passed its module.
TurnInv == \A m \in Modules : Turn(m) >= runner => loop[m] = "none"

\* What a stop after a whole start has left in place, ...
StopUpInv ==
  phase = "stop" =>
    /\ \A m \in Watchers \cup Outputs :
         /\ at < Place(m) \/ (at = Place(m) /\ ~waiting) => m \in up
         /\ at > Place(m) => m \notin up
    /\ \A o \in Outputs : at = Place(o) => o \in up

\* ... and what it has waited for.
StopQuietInv ==
  phase = "stop" =>
    /\ \A w \in Watchers : at > Place(w) => Quiet(w)
    /\ \A o \in Outputs : at > Place(o) => \A n \in Notices : delivery[n][o] = "none"
    /\ \A o \in {"email", "file"} :
         /\ at > Place(o) => loop[o] = "none"
         /\ at = Place(o) /\ waiting => loop[o] = "none" /\ Turn(o) < runner

\* A file is torn by a save that is going on, or by one that failed or was cut short.
TornInv == torn \subseteq spoilt \cup writing

EndInv == NoticesAreDelivered /\ NothingLeftBehind /\ FilesAreWhole

Inv == StartInv /\ UpInv /\ TurnInv /\ StopUpInv /\ StopQuietInv /\ TornInv /\ EndInv

USE ProgramAssumption

----------------------------------------------------------------------------
LEMMA Kinds == /\ Modules = Watchers \cup Outputs \cup {"backend"}
               /\ {"file", "slack", "email"} = Outputs
               /\ Watchers \cap Outputs = {}
               /\ "backend" \notin Watchers \cup Outputs
               /\ "none" \notin Outputs /\ "request" \notin Watchers
BY DEF Modules, Watchers, Outputs

\* Every step keeps the types.
LEMMA TypeNext == TypeOK /\ [Next]_vars => TypeOK'
<1> SUFFICES ASSUME TypeOK, [Next]_vars PROVE TypeOK'
  OBVIOUS
<1> USE DEF TypeOK, mainVars, noticeVars, fileVars
<1>1. CASE StartModule
  BY <1>1, Kinds, StopPlaces, StartPlaces DEF StartModule
<1>2. CASE StartFails
  BY <1>2, Kinds, StopPlaces, StartPlaces DEF StartFails
<1>3. CASE StartDone
  BY <1>3, StopPlaces, StartPlaces, RunTurns DEF StartDone
<1>4. CASE AskStop
  BY <1>4, StopPlaces DEF AskStop
<1>5. CASE StopPasses
  BY <1>5, StopPlaces DEF StopPasses
<1>6. CASE StopBegins
  BY <1>6, StopPlaces DEF StopBegins
<1>7. CASE StopEnds
  <2>1. /\ up' \subseteq up /\ at' = at + 1 /\ waiting' = FALSE
        /\ UNCHANGED <<phase, runner, loop, listening, call, from, delivery, writing,
                       torn, spoilt>>
    BY <1>7 DEF StopEnds
  <2>2. at' \in 1..Len(StopOrder) + 1
    BY <1>7, StopPlaces DEF StopEnds
  <2>3. QED
    BY <2>1, <2>2
<1>8. CASE ProgramExits
  BY <1>8 DEF ProgramExits
<1>9. CASE RunModule
  BY <1>9, RunTurns DEF RunModule
<1>10. ASSUME NEW o \in Outputs, LoopBegins(o) PROVE TypeOK'
  BY <1>10, Kinds DEF LoopBegins, Panic
<1>11. ASSUME NEW m \in Modules, LoopEnds(m) PROVE TypeOK'
  BY <1>11, Kinds DEF LoopEnds
<1>12. CASE ListenerCloses
  BY <1>12, Kinds DEF ListenerCloses
<1>13. ASSUME NEW n \in Notices, Notify(n) PROVE TypeOK'
  BY <1>13, Kinds DEF Notify, CallLogger
<1>14. ASSUME NEW n \in Notices, PostNotify(n) PROVE TypeOK'
  BY <1>14, Kinds DEF PostNotify, CallLogger
<1>15. ASSUME NEW n \in Notices, NEW o \in Outputs, Log(n, o) PROVE TypeOK'
  <2>1. CASE o \notin up
    BY <1>15, <2>1 DEF Log, Panic
  <2>2. CASE o \in up
    <3> DEFINE Row == [delivery[n] EXCEPT ![o] = IF o \in Enabled THEN "sending" ELSE "none"]
    <3>1. Row \in [Outputs -> {"none", "sending", "backoff"}]
      OBVIOUS
    <3>2. delivery' = [delivery EXCEPT ![n] = Row]
      BY <1>15, <2>2 DEF Log
    <3> HIDE DEF Row
    <3>3. delivery' \in [Notices -> [Outputs -> {"none", "sending", "backoff"}]]
      BY <3>1, <3>2
    <3>4. call' \in [Notices -> Outputs \cup {"none"}]
      BY <1>15, <2>2, Kinds DEF Log
    <3>5. QED
      BY <1>15, <2>2, <3>3, <3>4 DEF Log
  <2>3. QED
    BY <2>1, <2>2
<1>16. ASSUME NEW n \in Notices, NEW o \in Outputs, Deliver(n, o) PROVE TypeOK'
  BY <1>16, Kinds DEF Deliver, MoveDelivery
<1>17. ASSUME NEW n \in Notices, SlackRefuses(n) PROVE TypeOK'
  BY <1>17, Kinds DEF SlackRefuses, MoveDelivery
<1>18. ASSUME NEW n \in Notices, SlackRetries(n) PROVE TypeOK'
  BY <1>18, Kinds DEF SlackRetries, MoveDelivery
<1>19. ASSUME NEW n \in Notices, SlackCancels(n) PROVE TypeOK'
  BY <1>19, Kinds DEF SlackCancels, MoveDelivery
<1>20. ASSUME NEW w \in Configured, SaveBegins(w) PROVE TypeOK'
  BY <1>20, Kinds DEF SaveBegins
<1>21. ASSUME NEW w \in Configured, SaveEnds(w) PROVE TypeOK'
  BY <1>21, Kinds DEF SaveEnds
<1>22. ASSUME NEW w \in Configured, SaveFails(w) PROVE TypeOK'
  BY <1>22, Kinds DEF SaveFails
<1>23. CASE Restart
  <2>1. delivery' \in [Notices -> [Outputs -> {"none", "sending", "backoff"}]]
    BY <1>23 DEF Restart, Idle
  <2>2. /\ loop' \in [Modules -> {"none", "ready", "running"}]
        /\ call' \in [Notices -> Outputs \cup {"none"}]
        /\ from' \in [Notices -> Watchers \cup {"request"}]
    BY <1>23 DEF Restart
  <2>3. /\ phase' = "start" /\ at' = 1 /\ waiting' = FALSE /\ runner' = 0
        /\ up' = {} /\ listening' = FALSE /\ writing' = {} /\ torn' = torn
        /\ spoilt' = spoilt \cup writing
    BY <1>23 DEF Restart
  <2>4. at' \in 1..Len(StopOrder) + 1 /\ runner' \in 0..Len(RunOrder) + 1
    BY <2>3, StopPlaces, RunTurns
  <2>5. spoilt' \subseteq Configured
    BY <2>3
  <2>6. QED
    BY <2>1, <2>2, <2>3, <2>4, <2>5
<1>24. CASE UNCHANGED vars
  BY <1>24 DEF vars
<1>25. QED
  BY <1>1, <1>2, <1>3, <1>4, <1>5, <1>6, <1>7, <1>8, <1>9, <1>10, <1>11, <1>12, <1>13,
     <1>14, <1>15, <1>16, <1>17, <1>18, <1>19, <1>20, <1>21, <1>22, <1>23, <1>24 DEF Next,
     Life, Start, Stop

\* Nothing is done before it is started.
LEMMA StartNext == TypeOK /\ StartInv /\ [Next]_vars => StartInv'
<1> SUFFICES ASSUME TypeOK /\ StartInv, [Next]_vars PROVE StartInv'
  OBVIOUS
<1> USE DEF TypeOK, StartInv, mainVars, noticeVars, fileVars
<1>1. CASE StartModule
  BY <1>1, StartPlaces DEF StartModule
<1>2. CASE StartFails
  BY <1>2, StartPlaces DEF StartFails
<1>3. CASE StartDone
  BY <1>3, StartPlaces DEF StartDone
<1>4. CASE AskStop
  BY <1>4 DEF AskStop
<1>5. CASE StopPasses
  BY <1>5 DEF StopPasses, Stopping
<1>6. CASE StopBegins
  BY <1>6 DEF StopBegins, Stopping
<1>7. CASE StopEnds
  BY <1>7 DEF StopEnds, Stopping
<1>8. CASE ProgramExits
  BY <1>8 DEF ProgramExits, Stopping
<1>9. CASE RunModule
  BY <1>9 DEF RunModule
<1>10. ASSUME NEW o \in Outputs, LoopBegins(o) PROVE StartInv'
  BY <1>10 DEF LoopBegins, Panic, Alive
<1>11. ASSUME NEW m \in Modules, LoopEnds(m) PROVE StartInv'
  BY <1>11 DEF LoopEnds, Alive
<1>12. CASE ListenerCloses
  BY <1>12 DEF ListenerCloses, Alive
<1>13. ASSUME NEW n \in Notices, Notify(n) PROVE StartInv'
  BY <1>13 DEF Notify, CallLogger, Alive
<1>14. ASSUME NEW n \in Notices, PostNotify(n) PROVE StartInv'
  BY <1>14 DEF PostNotify, CallLogger, Alive
<1>15. ASSUME NEW n \in Notices, NEW o \in Outputs, Log(n, o) PROVE StartInv'
  BY <1>15 DEF Log, Panic, Alive
<1>16. ASSUME NEW n \in Notices, NEW o \in Outputs, Deliver(n, o) PROVE StartInv'
  BY <1>16 DEF Deliver, MoveDelivery, Alive
<1>17. ASSUME NEW n \in Notices, SlackRefuses(n) PROVE StartInv'
  BY <1>17 DEF SlackRefuses, MoveDelivery, Alive
<1>18. ASSUME NEW n \in Notices, SlackRetries(n) PROVE StartInv'
  BY <1>18 DEF SlackRetries, MoveDelivery, Alive
<1>19. ASSUME NEW n \in Notices, SlackCancels(n) PROVE StartInv'
  BY <1>19 DEF SlackCancels, MoveDelivery, Alive
<1>20. ASSUME NEW w \in Configured, SaveBegins(w) PROVE StartInv'
  BY <1>20 DEF SaveBegins, Alive
<1>21. ASSUME NEW w \in Configured, SaveEnds(w) PROVE StartInv'
  BY <1>21 DEF SaveEnds, Alive
<1>22. ASSUME NEW w \in Configured, SaveFails(w) PROVE StartInv'
  BY <1>22 DEF SaveFails, Alive
<1>23. CASE Restart
  BY <1>23 DEF Restart
<1>24. CASE UNCHANGED vars
  BY <1>24 DEF vars
<1>25. QED
  BY <1>1, <1>2, <1>3, <1>4, <1>5, <1>6, <1>7, <1>8, <1>9, <1>10, <1>11, <1>12, <1>13,
     <1>14, <1>15, <1>16, <1>17, <1>18, <1>19, <1>20, <1>21, <1>22, <1>23, <1>24 DEF Next,
     Life, Start, Stop

\* A start that is over has put all modules in place.
LEMMA UpNext == TypeOK /\ StartInv /\ UpInv /\ [Next]_vars => UpInv'
<1> SUFFICES ASSUME TypeOK /\ StartInv /\ UpInv, [Next]_vars PROVE UpInv'
  OBVIOUS
<1> USE DEF TypeOK, UpInv, mainVars, noticeVars, fileVars
<1>1. CASE StartModule
  <2>1. up \subseteq up' /\ at' = at + 1 /\ phase' = "start" /\ at \in 1..7
    BY <1>1, StartPlaces DEF StartModule
  <2>2. /\ at = 2 => Outputs \subseteq up'
        /\ at = 3 => "processwatcher" \in up'
        /\ at = 4 => "freediskspacechecker" \in up'
        /\ at = 5 => "webchecker" \in up'
        /\ at = 6 => "tcpports" \in up'
    BY <1>1, StartPlaces DEF StartModule, Modules, Watchers
  <2>3. QED
    BY <1>1, <2>1, <2>2 DEF StartModule
<1>2. CASE StartFails
  BY <1>2, StartPlaces DEF StartFails
<1>3. CASE StartDone
  <2>1. phase = "start" /\ at = 8 /\ phase' = "serve" /\ UNCHANGED <<up, waiting>>
    BY <1>3, StartPlaces DEF StartDone
  <2>2. ~waiting
    BY <2>1 DEF StartInv
  <2>3. QED
    BY <2>1, <2>2 DEF Watchers
<1>4. CASE AskStop
  BY <1>4 DEF AskStop
<1>5. CASE StopPasses
  BY <1>5 DEF StopPasses, Stopping
<1>6. CASE StopBegins
  BY <1>6 DEF StopBegins, Stopping
<1>7. CASE StopEnds
  BY <1>7 DEF StopEnds, Stopping
<1>8. CASE ProgramExits
  BY <1>8 DEF ProgramExits, Stopping
<1>9. CASE RunModule
  BY <1>9 DEF RunModule
<1>10. ASSUME NEW o \in Outputs, LoopBegins(o) PROVE UpInv'
  BY <1>10 DEF LoopBegins, Panic, Alive
<1>11. ASSUME NEW m \in Modules, LoopEnds(m) PROVE UpInv'
  BY <1>11 DEF LoopEnds, Alive
<1>12. CASE ListenerCloses
  BY <1>12 DEF ListenerCloses, Alive
<1>13. ASSUME NEW n \in Notices, Notify(n) PROVE UpInv'
  BY <1>13 DEF Notify, CallLogger, Alive
<1>14. ASSUME NEW n \in Notices, PostNotify(n) PROVE UpInv'
  BY <1>14 DEF PostNotify, CallLogger, Alive
<1>15. ASSUME NEW n \in Notices, NEW o \in Outputs, Log(n, o) PROVE UpInv'
  BY <1>15 DEF Log, Panic, Alive
<1>16. ASSUME NEW n \in Notices, NEW o \in Outputs, Deliver(n, o) PROVE UpInv'
  BY <1>16 DEF Deliver, MoveDelivery, Alive
<1>17. ASSUME NEW n \in Notices, SlackRefuses(n) PROVE UpInv'
  BY <1>17 DEF SlackRefuses, MoveDelivery, Alive
<1>18. ASSUME NEW n \in Notices, SlackRetries(n) PROVE UpInv'
  BY <1>18 DEF SlackRetries, MoveDelivery, Alive
<1>19. ASSUME NEW n \in Notices, SlackCancels(n) PROVE UpInv'
  BY <1>19 DEF SlackCancels, MoveDelivery, Alive
<1>20. ASSUME NEW w \in Configured, SaveBegins(w) PROVE UpInv'
  BY <1>20 DEF SaveBegins, Alive
<1>21. ASSUME NEW w \in Configured, SaveEnds(w) PROVE UpInv'
  BY <1>21 DEF SaveEnds, Alive
<1>22. ASSUME NEW w \in Configured, SaveFails(w) PROVE UpInv'
  BY <1>22 DEF SaveFails, Alive
<1>23. CASE Restart
  BY <1>23 DEF Restart
<1>24. CASE UNCHANGED vars
  BY <1>24 DEF vars
<1>25. QED
  BY <1>1, <1>2, <1>3, <1>4, <1>5, <1>6, <1>7, <1>8, <1>9, <1>10, <1>11, <1>12, <1>13,
     <1>14, <1>15, <1>16, <1>17, <1>18, <1>19, <1>20, <1>21, <1>22, <1>23, <1>24 DEF Next,
     Life, Start, Stop

\* Loops come in the order of run.
LEMMA TurnNext == TypeOK /\ StartInv /\ TurnInv /\ [Next]_vars => TurnInv'
<1> SUFFICES ASSUME TypeOK /\ StartInv /\ TurnInv, [Next]_vars PROVE TurnInv'
  OBVIOUS
<1> USE DEF TypeOK, TurnInv, mainVars, noticeVars, fileVars
<1>1. CASE StartModule
  BY <1>1, RunTurns DEF StartModule
<1>2. CASE StartFails
  BY <1>2, RunTurns DEF StartFails
<1>3. CASE StartDone
  BY <1>3, RunTurns DEF StartDone, StartInv
<1>4. CASE AskStop
  BY <1>4, RunTurns DEF AskStop
<1>5. CASE StopPasses
  BY <1>5, RunTurns DEF StopPasses, Stopping
<1>6. CASE StopBegins
  BY <1>6, RunTurns DEF StopBegins, Stopping
<1>7. CASE StopEnds
  BY <1>7, RunTurns DEF StopEnds, Stopping
<1>8. CASE ProgramExits
  BY <1>8, RunTurns DEF ProgramExits, Stopping
<1>9. CASE RunModule
  BY <1>9, RunTurns DEF RunModule
<1>10. ASSUME NEW o \in Outputs, LoopBegins(o) PROVE TurnInv'
  BY <1>10, RunTurns DEF LoopBegins, Panic, Alive
<1>11. ASSUME NEW m \in Modules, LoopEnds(m) PROVE TurnInv'
  BY <1>11, RunTurns DEF LoopEnds, Alive
<1>12. CASE ListenerCloses
  BY <1>12, RunTurns DEF ListenerCloses, Alive
<1>13. ASSUME NEW n \in Notices, Notify(n) PROVE TurnInv'
  BY <1>13, RunTurns DEF Notify, CallLogger, Alive
<1>14. ASSUME NEW n \in Notices, PostNotify(n) PROVE TurnInv'
  BY <1>14, RunTurns DEF PostNotify, CallLogger, Alive
<1>15. ASSUME NEW n \in Notices, NEW o \in Outputs, Log(n, o) PROVE TurnInv'
  BY <1>15, RunTurns DEF Log, Panic, Alive
<1>16. ASSUME NEW n \in Notices, NEW o \in Outputs, Deliver(n, o) PROVE TurnInv'
  BY <1>16, RunTurns DEF Deliver, MoveDelivery, Alive
<1>17. ASSUME NEW n \in Notices, SlackRefuses(n) PROVE TurnInv'
  BY <1>17, RunTurns DEF SlackRefuses, MoveDelivery, Alive
<1>18. ASSUME NEW n \in Notices, SlackRetries(n) PROVE TurnInv'
  BY <1>18, RunTurns DEF SlackRetries, MoveDelivery, Alive
<1>19. ASSUME NEW n \in Notices, SlackCancels(n) PROVE TurnInv'
  BY <1>19, RunTurns DEF SlackCancels, MoveDelivery, Alive
<1>20. ASSUME NEW w \in Configured, SaveBegins(w) PROVE TurnInv'
  BY <1>20, RunTurns DEF SaveBegins, Alive
<1>21. ASSUME NEW w \in Configured, SaveEnds(w) PROVE TurnInv'
  BY <1>21, RunTurns DEF SaveEnds, Alive
<1>22. ASSUME NEW w \in Configured, SaveFails(w) PROVE TurnInv'
  BY <1>22, RunTurns DEF SaveFails, Alive
<1>23. CASE Restart
  BY <1>23, RunTurns DEF Restart
<1>24. CASE UNCHANGED vars
  BY <1>24 DEF vars
<1>25. QED
  BY <1>1, <1>2, <1>3, <1>4, <1>5, <1>6, <1>7, <1>8, <1>9, <1>10, <1>11, <1>12, <1>13,
     <1>14, <1>15, <1>16, <1>17, <1>18, <1>19, <1>20, <1>21, <1>22, <1>23, <1>24 DEF Next,
     Life, Start, Stop

\* A file is torn by a save that is going on or that has failed.
LEMMA TornNext == TypeOK /\ TornInv /\ [Next]_vars => TornInv'
<1> SUFFICES ASSUME TypeOK /\ TornInv, [Next]_vars PROVE TornInv'
  OBVIOUS
<1> USE DEF TypeOK, TornInv, mainVars, noticeVars, fileVars
<1>1. CASE StartModule
  BY <1>1 DEF StartModule
<1>2. CASE StartFails
  BY <1>2 DEF StartFails
<1>3. CASE StartDone
  BY <1>3 DEF StartDone
<1>4. CASE AskStop
  BY <1>4 DEF AskStop
<1>5. CASE StopPasses
  BY <1>5 DEF StopPasses
<1>6. CASE StopBegins
  BY <1>6 DEF StopBegins
<1>7. CASE StopEnds
  BY <1>7 DEF StopEnds
<1>8. CASE ProgramExits
  BY <1>8 DEF ProgramExits
<1>9. CASE RunModule
  BY <1>9 DEF RunModule
<1>10. ASSUME NEW o \in Outputs, LoopBegins(o) PROVE TornInv'
  BY <1>10 DEF LoopBegins, Panic
<1>11. ASSUME NEW m \in Modules, LoopEnds(m) PROVE TornInv'
  BY <1>11 DEF LoopEnds
<1>12. CASE ListenerCloses
  BY <1>12 DEF ListenerCloses
<1>13. ASSUME NEW n \in Notices, Notify(n) PROVE TornInv'
  BY <1>13 DEF Notify, CallLogger
<1>14. ASSUME NEW n \in Notices, PostNotify(n) PROVE TornInv'
  BY <1>14 DEF PostNotify, CallLogger
<1>15. ASSUME NEW n \in Notices, NEW o \in Outputs, Log(n, o) PROVE TornInv'
  BY <1>15 DEF Log, Panic
<1>16. ASSUME NEW n \in Notices, NEW o \in Outputs, Deliver(n, o) PROVE TornInv'
  BY <1>16 DEF Deliver, MoveDelivery
<1>17. ASSUME NEW n \in Notices, SlackRefuses(n) PROVE TornInv'
  BY <1>17 DEF SlackRefuses, MoveDelivery
<1>18. ASSUME NEW n \in Notices, SlackRetries(n) PROVE TornInv'
  BY <1>18 DEF SlackRetries, MoveDelivery
<1>19. ASSUME NEW n \in Notices, SlackCancels(n) PROVE TornInv'
  BY <1>19 DEF SlackCancels, MoveDelivery
<1>20. ASSUME NEW w \in Configured, SaveBegins(w) PROVE TornInv'
  BY <1>20 DEF SaveBegins
<1>21. ASSUME NEW w \in Configured, SaveEnds(w) PROVE TornInv'
  BY <1>21 DEF SaveEnds
<1>22. ASSUME NEW w \in Configured, SaveFails(w) PROVE TornInv'
  BY <1>22 DEF SaveFails
<1>23. CASE Restart
  BY <1>23 DEF Restart
<1>24. CASE UNCHANGED vars
  BY <1>24 DEF vars
<1>25. QED
  BY <1>1, <1>2, <1>3, <1>4, <1>5, <1>6, <1>7, <1>8, <1>9, <1>10, <1>11, <1>12, <1>13,
     <1>14, <1>15, <1>16, <1>17, <1>18, <1>19, <1>20, <1>21, <1>22, <1>23, <1>24 DEF Next,
     Life, Start, Stop

\* A stop takes the modules away in its order.
LEMMA StopUpNext == TypeOK /\ UpInv /\ StopUpInv /\ [Next]_vars => StopUpInv'
<1> SUFFICES ASSUME TypeOK /\ UpInv /\ StopUpInv, [Next]_vars PROVE StopUpInv'
  OBVIOUS
<1> USE DEF TypeOK, StopUpInv, mainVars, noticeVars, fileVars
<1>1. CASE StartModule
  BY <1>1 DEF StartModule
<1>2. CASE StartFails
  BY <1>2 DEF StartFails
<1>3. CASE StartDone
  BY <1>3 DEF StartDone
<1>4. CASE AskStop
  BY <1>4, StopPlaces, Kinds DEF AskStop, UpInv
<1>5. CASE StopPasses
  BY <1>5, StopPlaces, Kinds DEF StopPasses, Stopping, Watchers, Outputs
<1>6. CASE StopBegins
  <2> DEFINE M == StopOrder[at]
  <2>1. at \in 1..8 /\ M \in Modules /\ Place(M) = at
    BY <1>6, StopPlaces DEF StopBegins
  <2>2. \A m \in Watchers \cup Outputs : Place(m) \in 1..8 /\ (Place(m) = at => m = M)
    BY StopPlaces, Kinds
  <2>3. /\ phase' = phase /\ at' = at /\ ~waiting /\ waiting'
        /\ M \in up /\ up' = up \ ({M} \cap Watchers)
    BY <1>6 DEF StopBegins
  <2> HIDE DEF M
  <2>4. QED
    BY <2>1, <2>2, <2>3, Kinds
<1>7. CASE StopEnds
  <2> DEFINE M == StopOrder[at]
  <2>1. at \in 1..8 /\ M \in Modules /\ Place(M) = at
    BY <1>7, StopPlaces DEF StopEnds
  <2>2. \A m \in Watchers \cup Outputs : Place(m) \in 1..8 /\ (Place(m) = at => m = M)
    BY StopPlaces, Kinds
  <2>3. phase' = phase /\ at' = at + 1 /\ ~waiting' /\ up' = up \ {M}
    BY <1>7 DEF StopEnds
  <2> HIDE DEF M
  <2>4. QED
    BY <2>1, <2>2, <2>3, Kinds
<1>8. CASE ProgramExits
  BY <1>8 DEF ProgramExits, Stopping
<1>9. CASE RunModule
  BY <1>9 DEF RunModule
<1>10. ASSUME NEW o \in Outputs, LoopBegins(o) PROVE StopUpInv'
  BY <1>10 DEF LoopBegins, Panic, Alive
<1>11. ASSUME NEW m \in Modules, LoopEnds(m) PROVE StopUpInv'
  BY <1>11 DEF LoopEnds, Alive
<1>12. CASE ListenerCloses
  BY <1>12 DEF ListenerCloses, Alive
<1>13. ASSUME NEW n \in Notices, Notify(n) PROVE StopUpInv'
  BY <1>13 DEF Notify, CallLogger, Alive
<1>14. ASSUME NEW n \in Notices, PostNotify(n) PROVE StopUpInv'
  BY <1>14 DEF PostNotify, CallLogger, Alive
<1>15. ASSUME NEW n \in Notices, NEW o \in Outputs, Log(n, o) PROVE StopUpInv'
  BY <1>15 DEF Log, Panic, Alive
<1>16. ASSUME NEW n \in Notices, NEW o \in Outputs, Deliver(n, o) PROVE StopUpInv'
  BY <1>16 DEF Deliver, MoveDelivery, Alive
<1>17. ASSUME NEW n \in Notices, SlackRefuses(n) PROVE StopUpInv'
  BY <1>17 DEF SlackRefuses, MoveDelivery, Alive
<1>18. ASSUME NEW n \in Notices, SlackRetries(n) PROVE StopUpInv'
  BY <1>18 DEF SlackRetries, MoveDelivery, Alive
<1>19. ASSUME NEW n \in Notices, SlackCancels(n) PROVE StopUpInv'
  BY <1>19 DEF SlackCancels, MoveDelivery, Alive
<1>20. ASSUME NEW w \in Configured, SaveBegins(w) PROVE StopUpInv'
  BY <1>20 DEF SaveBegins, Alive
<1>21. ASSUME NEW w \in Configured, SaveEnds(w) PROVE StopUpInv'
  BY <1>21 DEF SaveEnds, Alive
<1>22. ASSUME NEW w \in Configured, SaveFails(w) PROVE StopUpInv'
  BY <1>22 DEF SaveFails, Alive
<1>23. CASE Restart
  BY <1>23 DEF Restart
<1>24. CASE UNCHANGED vars
  BY <1>24 DEF vars
<1>25. QED
  BY <1>1, <1>2, <1>3, <1>4, <1>5, <1>6, <1>7, <1>8, <1>9, <1>10, <1>11, <1>12, <1>13,
     <1>14, <1>15, <1>16, <1>17, <1>18, <1>19, <1>20, <1>21, <1>22, <1>23, <1>24 DEF Next,
     Life, Start, Stop

\* Nothing comes back of what a stop has waited for.
LEMMA StopQuietNext ==
  TypeOK /\ UpInv /\ TurnInv /\ StopUpInv /\ StopQuietInv /\ [Next]_vars => StopQuietInv'
<1> SUFFICES ASSUME TypeOK /\ UpInv /\ TurnInv /\ StopUpInv /\ StopQuietInv, [Next]_vars
             PROVE  StopQuietInv'
  OBVIOUS
<1> USE DEF TypeOK, StopQuietInv, Quiet, mainVars, noticeVars, fileVars
<1>1. CASE StartModule
  BY <1>1, Kinds DEF StartModule
<1>2. CASE StartFails
  BY <1>2, Kinds DEF StartFails
<1>3. CASE StartDone
  BY <1>3, Kinds DEF StartDone
<1>4. CASE AskStop
  <2>1. phase = "serve" /\ at' = 1 /\ ~waiting'
    BY <1>4 DEF AskStop, UpInv
  <2>2. \A m \in Modules : ~(at' > Place(m))
    BY <2>1, StopPlaces
  <2>3. QED
    BY <2>1, <2>2, Kinds
<1>5. CASE StopPasses
  <2> DEFINE M == StopOrder[at]
  <2>1. at \in 1..8 /\ M \in Modules /\ Place(M) = at
    BY <1>5, StopPlaces DEF StopPasses
  <2>2. \A m \in Watchers \cup Outputs : Place(m) \in 1..8 /\ (Place(m) = at => m = M)
    BY StopPlaces, Kinds
  <2>3. phase' = phase /\ at' = at + 1 /\ ~waiting' /\ ~waiting
    BY <1>5 DEF StopPasses
  <2>4. UNCHANGED <<loop, call, from, delivery, writing>>
    BY <1>5 DEF StopPasses
  <2>5. phase = "stop" => M \notin Watchers \cup Outputs
    BY <1>5, <2>1, <2>3, Kinds DEF StopPasses, StopUpInv
  <2> HIDE DEF M
  <2>6. phase = "stop" => \A m \in Watchers \cup Outputs : at' > Place(m) => at > Place(m)
    BY <2>1, <2>2, <2>3, <2>5
  <2>7. QED
    BY <2>3, <2>4, <2>6, Kinds
<1>6. CASE StopBegins
  <2> DEFINE M == StopOrder[at]
  <2>1. at \in 1..8 /\ M \in Modules /\ Place(M) = at
    BY <1>6, StopPlaces DEF StopBegins
  <2>2. \A m \in Watchers \cup Outputs : Place(m) \in 1..8 /\ (Place(m) = at => m = M)
    BY StopPlaces, Kinds
  <2>3. /\ phase' = phase /\ at' = at
        /\ UNCHANGED <<runner, call, from, delivery, writing>>
    BY <1>6 DEF StopBegins
  <2>4. \A m \in Modules : loop[m] = "none" => loop'[m] = "none"
    BY <1>6 DEF StopBegins
  <2>5. M \in {"email", "file"} => loop'[M] = "none" /\ Turn(M) < runner
    <3>1. M \in {"email", "file"} => loop[M] = "running" /\ loop'[M] = "none"
      BY <1>6, <2>1 DEF StopBegins
    <3> HIDE DEF M
    <3>2. QED
      BY <2>1, <3>1, RunTurns DEF TurnInv
  <2> HIDE DEF M
  <2>6. QED
    BY <2>1, <2>2, <2>3, <2>4, <2>5, Kinds
<1>7. CASE StopEnds
  <2> DEFINE M == StopOrder[at]
  <2>1. at \in 1..8 /\ M \in Modules /\ Place(M) = at
    BY <1>7, StopPlaces DEF StopEnds
  <2>2. \A m \in Watchers \cup Outputs : Place(m) \in 1..8 /\ (Place(m) = at => m = M)
    BY StopPlaces, Kinds
  <2>3. phase' = phase /\ at' = at + 1 /\ waiting /\ ~waiting'
    BY <1>7 DEF StopEnds
  <2>4. UNCHANGED <<runner, loop, call, from, delivery, writing>>
    BY <1>7 DEF StopEnds
  <2>5. /\ M \in Watchers => Quiet(M)
        /\ M \in Outputs => \A n \in Notices : delivery[n][M] = "none"
    BY <1>7 DEF StopEnds
  <2> HIDE DEF M
  <2>6. phase = "stop" => \A m \in Watchers \cup Outputs :
          /\ at' > Place(m) => at > Place(m) \/ m = M
          /\ m \in {"email", "file"} /\ m = M => loop[m] = "none"
    BY <2>1, <2>2, <2>3, Kinds
  <2>7. QED
    BY <2>2, <2>3, <2>4, <2>5, <2>6, Kinds
<1>8. CASE ProgramExits
  BY <1>8, Kinds DEF ProgramExits, Stopping
<1>9. CASE RunModule
  BY <1>9, RunTurns, StopPlaces, Kinds DEF RunModule, StopUpInv
<1>10. ASSUME NEW o \in Outputs, LoopBegins(o) PROVE StopQuietInv'
  BY <1>10, Kinds DEF LoopBegins, Panic, Alive
<1>11. ASSUME NEW m \in Modules, LoopEnds(m) PROVE StopQuietInv'
  BY <1>11, Kinds DEF LoopEnds, Alive
<1>12. CASE ListenerCloses
  BY <1>12, Kinds DEF ListenerCloses, Alive
<1>13. ASSUME NEW n \in Notices, Notify(n) PROVE StopQuietInv'
  BY <1>13, Kinds DEF Notify, CallLogger, StopUpInv
<1>14. ASSUME NEW n \in Notices, PostNotify(n) PROVE StopQuietInv'
  BY <1>14, Kinds DEF PostNotify, CallLogger, Alive
<1>15. ASSUME NEW n \in Notices, NEW o \in Outputs, Log(n, o) PROVE StopQuietInv'
  <2>1. CASE o \notin up
    BY <1>15, <2>1 DEF Log, Panic
  <2>2. CASE o \in up
    <3>1. UNCHANGED <<phase, at, waiting, runner, loop, from, writing>> /\ call[n] = o
      BY <1>15, <2>2 DEF Log
    <3>2. /\ call' \in [Notices -> Outputs \cup {"none"}]
          /\ \A k \in Notices : call[k] = "none" => call'[k] = "none"
      BY <1>15, <2>2, Kinds DEF Log
    <3>3. \A k \in Notices, p \in Outputs :
            delivery[k][p] = "none" /\ p # o => delivery'[k][p] = "none"
      BY <1>15, <2>2 DEF Log
    <3>4. phase = "stop" => ~(at > Place(o))
      BY <2>2 DEF StopUpInv
    <3>5. QED
      BY <3>1, <3>2, <3>3, <3>4, Kinds
  <2>3. QED
    BY <2>1, <2>2
<1>16. ASSUME NEW n \in Notices, NEW o \in Outputs, Deliver(n, o) PROVE StopQuietInv'
  BY <1>16, Kinds DEF Deliver, MoveDelivery, Alive
<1>17. ASSUME NEW n \in Notices, SlackRefuses(n) PROVE StopQuietInv'
  BY <1>17, Kinds DEF SlackRefuses, MoveDelivery, Alive
<1>18. ASSUME NEW n \in Notices, SlackRetries(n) PROVE StopQuietInv'
  BY <1>18, Kinds DEF SlackRetries, MoveDelivery, Alive
<1>19. ASSUME NEW n \in Notices, SlackCancels(n) PROVE StopQuietInv'
  BY <1>19, Kinds DEF SlackCancels, MoveDelivery, Alive
<1>20. ASSUME NEW w \in Configured, SaveBegins(w) PROVE StopQuietInv'
  BY <1>20, Kinds DEF SaveBegins, StopUpInv
<1>21. ASSUME NEW w \in Configured, SaveEnds(w) PROVE StopQuietInv'
  BY <1>21, Kinds DEF SaveEnds, Alive
<1>22. ASSUME NEW w \in Configured, SaveFails(w) PROVE StopQuietInv'
  BY <1>22, Kinds DEF SaveFails, Alive
<1>23. CASE Restart
  BY <1>23, Kinds DEF Restart
<1>24. CASE UNCHANGED vars
  BY <1>24 DEF vars
<1>25. QED
  BY <1>1, <1>2, <1>3, <1>4, <1>5, <1>6, <1>7, <1>8, <1>9, <1>10, <1>11, <1>12, <1>13,
     <1>14, <1>15, <1>16, <1>17, <1>18, <1>19, <1>20, <1>21, <1>22, <1>23, <1>24 DEF Next,
     Life, Start, Stop

\* A stop leaves nothing behind when it lets the program end.
LEMMA EndNext == TypeOK /\ Inv /\ [Next]_vars => EndInv'
<1> SUFFICES ASSUME TypeOK /\ Inv, [Next]_vars PROVE EndInv'
  OBVIOUS
<1> USE DEF Inv, EndInv, mainVars, noticeVars, fileVars
<1>1. CASE StartModule
  BY <1>1 DEF StartModule, NoticesAreDelivered, NothingLeftBehind, FilesAreWhole
<1>2. CASE StartFails
  BY <1>2 DEF StartFails, NoticesAreDelivered, NothingLeftBehind, FilesAreWhole
<1>3. CASE StartDone
  BY <1>3 DEF StartDone, NoticesAreDelivered, NothingLeftBehind, FilesAreWhole
<1>4. CASE AskStop
  BY <1>4 DEF AskStop, NoticesAreDelivered, NothingLeftBehind, FilesAreWhole
<1>5. CASE StopPasses
  BY <1>5 DEF StopPasses, Stopping, NoticesAreDelivered, NothingLeftBehind, FilesAreWhole
<1>6. CASE StopBegins
  BY <1>6 DEF StopBegins, Stopping, NoticesAreDelivered, NothingLeftBehind, FilesAreWhole
<1>7. CASE StopEnds
  BY <1>7 DEF StopEnds, Stopping, NoticesAreDelivered, NothingLeftBehind, FilesAreWhole
<1>8. CASE ProgramExits
  <2>1. Stopping /\ at = 9 /\ UNCHANGED <<loop, call, from, delivery, writing, torn,
          spoilt>>
    BY <1>8, StopPlaces DEF ProgramExits
  <2>2. \A w \in Watchers : Quiet(w)
    <3>1. CASE phase = "stop"
      BY <2>1, <3>1, StopPlaces, Kinds DEF StopQuietInv
    <3>2. CASE phase = "abort"
      BY <3>2, Kinds DEF StartInv, Quiet
    <3>3. QED
      BY <2>1, <3>1, <3>2 DEF Stopping
  <2>3. \A n \in Notices : from[n] \in Watchers
          => \A o \in Outputs : delivery[n][o] = "none"
    <3>1. CASE phase = "stop"
      BY <2>1, <3>1, StopPlaces, Kinds DEF StopQuietInv
    <3>2. CASE phase = "abort"
      BY <3>2, Kinds DEF StartInv
    <3>3. QED
      BY <2>1, <3>1, <3>2 DEF Stopping
  <2>4. NoticesAreDelivered'
    <3>1. ASSUME NEW n \in Notices, from[n] \in Watchers PROVE delivery[n] = Idle[n]
      <4>1. delivery[n] \in [Outputs -> {"none", "sending", "backoff"}]
        BY DEF TypeOK
      <4>2. Idle[n] = [o \in Outputs |-> "none"]
        BY DEF Idle
      <4>3. QED
        BY <2>3, <3>1, <4>1, <4>2
    <3>2. Idle' = Idle
      BY DEF Idle
    <3>3. QED
      BY <2>1, <2>2, <3>1, <3>2 DEF NoticesAreDelivered, Quiet
  <2>5. NothingLeftBehind'
    <3>1. CASE phase = "stop"
      BY <2>1, <2>2, <3>1, StopPlaces, Kinds DEF StopQuietInv, NothingLeftBehind, Quiet
    <3>2. CASE phase = "abort"
      BY <2>1, <3>2, Kinds DEF StartInv, NothingLeftBehind
    <3>3. QED
      BY <2>1, <3>1, <3>2 DEF Stopping
  <2>6. FilesAreWhole'
    BY <2>1, <2>2 DEF TypeOK, TornInv, FilesAreWhole, Quiet
  <2>7. QED
    BY <2>4, <2>5, <2>6
<1>9. CASE RunModule
  BY <1>9 DEF RunModule, NoticesAreDelivered, NothingLeftBehind, FilesAreWhole
<1>10. ASSUME NEW o \in Outputs, LoopBegins(o) PROVE EndInv'
  BY <1>10 DEF LoopBegins, Panic, Alive, NoticesAreDelivered, NothingLeftBehind,
     FilesAreWhole
<1>11. ASSUME NEW m \in Modules, LoopEnds(m) PROVE EndInv'
  BY <1>11 DEF LoopEnds, Alive, NoticesAreDelivered, NothingLeftBehind, FilesAreWhole
<1>12. CASE ListenerCloses
  BY <1>12 DEF ListenerCloses, Alive, NoticesAreDelivered, NothingLeftBehind, FilesAreWhole
<1>13. ASSUME NEW n \in Notices, Notify(n) PROVE EndInv'
  BY <1>13 DEF Notify, CallLogger, Alive, NoticesAreDelivered, NothingLeftBehind,
     FilesAreWhole
<1>14. ASSUME NEW n \in Notices, PostNotify(n) PROVE EndInv'
  BY <1>14 DEF PostNotify, CallLogger, Alive, NoticesAreDelivered, NothingLeftBehind,
     FilesAreWhole
<1>15. ASSUME NEW n \in Notices, NEW o \in Outputs, Log(n, o) PROVE EndInv'
  BY <1>15 DEF Log, Panic, Alive, NoticesAreDelivered, NothingLeftBehind, FilesAreWhole
<1>16. ASSUME NEW n \in Notices, NEW o \in Outputs, Deliver(n, o) PROVE EndInv'
  BY <1>16 DEF Deliver, MoveDelivery, Alive, NoticesAreDelivered, NothingLeftBehind,
     FilesAreWhole
<1>17. ASSUME NEW n \in Notices, SlackRefuses(n) PROVE EndInv'
  BY <1>17 DEF SlackRefuses, MoveDelivery, Alive, NoticesAreDelivered, NothingLeftBehind,
     FilesAreWhole
<1>18. ASSUME NEW n \in Notices, SlackRetries(n) PROVE EndInv'
  BY <1>18 DEF SlackRetries, MoveDelivery, Alive, NoticesAreDelivered, NothingLeftBehind,
     FilesAreWhole
<1>19. ASSUME NEW n \in Notices, SlackCancels(n) PROVE EndInv'
  BY <1>19 DEF SlackCancels, MoveDelivery, Alive, NoticesAreDelivered, NothingLeftBehind,
     FilesAreWhole
<1>20. ASSUME NEW w \in Configured, SaveBegins(w) PROVE EndInv'
  BY <1>20 DEF SaveBegins, Alive, NoticesAreDelivered, NothingLeftBehind, FilesAreWhole
<1>21. ASSUME NEW w \in Configured, SaveEnds(w) PROVE EndInv'
  BY <1>21 DEF SaveEnds, Alive, NoticesAreDelivered, NothingLeftBehind, FilesAreWhole
<1>22. ASSUME NEW w \in Configured, SaveFails(w) PROVE EndInv'
  BY <1>22 DEF SaveFails, Alive, NoticesAreDelivered, NothingLeftBehind, FilesAreWhole
<1>23. CASE Restart
  BY <1>23 DEF Restart, NoticesAreDelivered, NothingLeftBehind, FilesAreWhole
<1>24. CASE UNCHANGED vars
  BY <1>24 DEF vars, Idle, NoticesAreDelivered, NothingLeftBehind, FilesAreWhole
<1>25. QED
  BY <1>1, <1>2, <1>3, <1>4, <1>5, <1>6, <1>7, <1>8, <1>9, <1>10, <1>11, <1>12, <1>13,
     <1>14, <1>15, <1>16, <1>17, <1>18, <1>19, <1>20, <1>21, <1>22, <1>23, <1>24 DEF Next,
     Life, Start, Stop

----------------------------------------------------------------------------
LEMMA InitInv == Init => TypeOK /\ Inv
<1> SUFFICES ASSUME Init PROVE TypeOK /\ Inv
  OBVIOUS
<1>1. TypeOK
  <2>1. at \in 1..Len(StopOrder) + 1 /\ runner \in 0..Len(RunOrder) + 1
    BY StopPlaces, RunTurns DEF Init
  <2>2. delivery \in [Notices -> [Outputs -> {"none", "sending", "backoff"}]]
    BY DEF Init, Idle
  <2>3. QED
    BY <2>1, <2>2 DEF Init, TypeOK
<1>2. Inv
  BY DEF Init, Inv, StartInv, UpInv, TurnInv, StopUpInv, StopQuietInv, TornInv, EndInv,
         NoticesAreDelivered, NothingLeftBehind, FilesAreWhole
<1>3. QED
  BY <1>1, <1>2

\* The program keeps its types and its invariant (main.go:27-106).
THEOREM Invariance == Spec => [](TypeOK /\ Inv)
<1>1. TypeOK /\ Inv /\ [Next]_vars => (TypeOK /\ Inv)'
  BY TypeNext, StartNext, UpNext, TurnNext, StopUpNext, StopQuietNext, TornNext,
     EndNext DEF Inv
<1>2. QED
  BY InitInv, <1>1, PTL DEF Spec

\* Every variable keeps its type (main.go and the modules that it starts and stops).
THEOREM TypeCorrect == Spec => []TypeOK
BY Invariance, PTL

\* The logger is there whenever a notice of a watcher comes to one of its outputs,
\* because it is started before and stopped after all of them (main.go:36, 97-103).
THEOREM LoggerOutlives == Spec => []NoticeFindsLogger
<1>1. TypeOK /\ Inv => NoticeFindsLogger
  <2> SUFFICES ASSUME TypeOK, Inv, Alive, NEW n \in Notices, call[n] # "none",
                      from[n] \in Watchers
               PROVE  call[n] \in up
    BY DEF NoticeFindsLogger
  <2>1. call[n] \in Outputs
    BY DEF TypeOK
  <2>2. phase \notin {"start", "abort"}
    BY Kinds DEF Inv, StartInv
  <2>3. CASE phase = "serve"
    BY <2>1, <2>3 DEF Inv, UpInv
  <2>4. CASE phase = "stop"
    <3>1. ~(at > Place(from[n]))
      BY <2>4 DEF Inv, StopQuietInv, Quiet
    <3>2. Place(from[n]) \in 1..5 /\ Place(call[n]) \in 6..8
      BY <2>1 DEF Place, Watchers, Outputs
    <3>3. at < Place(call[n])
      BY <3>1, <3>2 DEF TypeOK
    <3>4. QED
      BY <2>1, <2>4, <3>3 DEF Inv, StopUpInv
  <2>5. QED
    BY <2>2, <2>3, <2>4 DEF Alive
<1>2. QED
  BY Invariance, <1>1, PTL

\* When the program ends by itself, the notices of the watchers are delivered or were
\* given up for good (the wait groups of email.go:45, slack.go:49 and file.go:88).
THEOREM Delivered == Spec => []NoticesAreDelivered
BY Invariance, PTL DEF Inv, EndInv

\* ... no loop of a watcher, of e-mail or of the file log is left (main.go:97-106) ...
THEOREM NothingLeft == Spec => []NothingLeftBehind
BY Invariance, PTL DEF Inv, EndInv

\* ... and no state file is left half-written but by a write that failed or by an
\* earlier crash (storage.go:58-74).
THEOREM Whole == Spec => []FilesAreWhole
BY Invariance, PTL DEF Inv, EndInv

\* A nil pointer is met only once a stop has begun (main.go:36, 89, slack.go:64).
THEOREM NoEarlyPanic == Spec => PanicOnlyWhenStopping
<1>1. TypeOK /\ Inv /\ [Next]_vars => [phase' = "panic" => phase = "stop"]_vars
  <2> SUFFICES ASSUME TypeOK, Inv, Next, phase' = "panic"
               PROVE  phase = "stop" \/ UNCHANGED vars
    OBVIOUS
  <2>1. ASSUME NEW o \in Outputs, LoopBegins(o) PROVE phase = "stop"
    BY <2>1, Kinds DEF LoopBegins, Alive, Inv, StartInv, UpInv, mainVars
  <2>2. ASSUME NEW n \in Notices, NEW o \in Outputs, Log(n, o) PROVE phase = "stop"
    BY <2>2, Kinds DEF Log, Alive, Inv, StartInv, UpInv, TypeOK, mainVars
  <2>3. QED
    BY <2>1, <2>2 DEF Next, Life, Start, Stop, StartModule, StartFails, StartDone, AskStop,
       StopPasses, StopBegins, StopEnds, ProgramExits, RunModule, LoopEnds, ListenerCloses,
       Notify, PostNotify, CallLogger, Deliver, SlackRefuses, SlackRetries, SlackCancels,
       MoveDelivery, SaveBegins, SaveEnds, SaveFails, Restart, mainVars, Alive, Stopping
<1>2. QED
  BY Invariance, <1>1, PTL DEF Spec, PanicOnlyWhenStopping

----------------------------------------------------------------------------
(***************************************************************************)
(* Load of the settings.  The loops of its parsers are recursive functions *)
(* on the parts of a text; what they compute is proved by induction on the *)
(* number of parts, which is stated about a set of numbers here: a number  *)
(* that is missing from it has a least one.                                *)
(***************************************************************************)
\* Induction up to n.
LEMMA FiniteInduction ==
  ASSUME NEW n \in Nat, NEW S, 0 \in S, \A k \in 1..n : k - 1 \in S => k \in S
  PROVE  0..n \subseteq S
<1> DEFINE R == {ss \in Nat \X Nat : ss[1] < ss[2]}
           Missed == {k \in 0..n : k \notin S}
<1> SUFFICES ASSUME Missed # {} PROVE FALSE
  OBVIOUS
<1>1. IsWellFoundedOn(R, Nat)
  BY NatLessThanWellFounded DEF OpToRel
<1>2. Missed \in SUBSET Nat
  OBVIOUS
<1>3. PICK x \in Missed : \A y \in Missed : ~(<<y, x>> \in R)
  BY <1>1, <1>2, WFMin, Zenon
<1>4. x \in 1..n /\ x - 1 \in 0..n
  BY <1>3
<1>5. <<x - 1, x>> \in R
  BY <1>4
<1>6. QED
  BY <1>3, <1>4, <1>5

\* f begins with a, and step yields each value from the one before.
Follows(f, n, a, step) == f[0] = a /\ \A k \in 1..n : f[k] = step[<<k, f[k - 1]>>]

\* A function that is defined by recursion up to n exists.
LEMMA Recursion ==
  ASSUME NEW n \in Nat, NEW S, NEW a \in S, NEW step \in [(1..n) \X S -> S]
  PROVE  \E f \in [0..n -> S] : Follows(f, n, a, step)
<1> DEFINE Fits(f, m) == /\ f \in [0..m -> S]
                         /\ f[0] = a
                         /\ \A k \in 1..m : f[k] = step[<<k, f[k - 1]>>]
           Good == {m \in 0..n : \E f : Fits(f, m)}
<1>1. 0 \in Good
  <2>1. Fits([i \in 0..0 |-> a], 0)
    OBVIOUS
  <2> HIDE DEF Fits
  <2>2. QED
    BY <2>1
<1>2. ASSUME NEW k \in 1..n, k - 1 \in Good
      PROVE  k \in Good
  <2>1. PICK f : Fits(f, k - 1)
    BY <1>2
  <2> DEFINE g == [i \in 0..k |-> IF i < k THEN f[i] ELSE step[<<k, f[k - 1]>>]]
  <2>2. f[k - 1] \in S
    BY <2>1
  <2>3. step[<<k, f[k - 1]>>] \in S
    BY <2>2
  <2>4. g \in [0..k -> S]
    BY <2>1, <2>3
  <2>5. ASSUME NEW i \in 1..k PROVE g[i] = step[<<i, g[i - 1]>>]
    <3>1. g[i - 1] = f[i - 1] /\ i - 1 < k
      OBVIOUS
    <3>2. CASE i = k
      <4>1. g[k] = step[<<k, f[k - 1]>>]
        OBVIOUS
      <4>2. QED
        BY <3>1, <3>2, <4>1
    <3>3. CASE i < k
      <4>1. i \in 1..k - 1
        BY <3>3
      <4>2. f[i] = step[<<i, f[i - 1]>>]
        BY <2>1, <4>1
      <4>3. g[i] = f[i]
        BY <3>3
      <4>4. QED
        <5> HIDE DEF g
        <5>1. QED
          BY <3>1, <4>2, <4>3
    <3>4. QED
      <4> HIDE DEF g
      <4>1. QED
        BY <3>2, <3>3
  <2>6. g[0] = a
    BY <2>1
  <2>7. Fits(g, k)
    BY <2>4, <2>5, <2>6
  <2> HIDE DEF Fits, g
  <2>8. QED
    BY <2>7
<1>3. n \in Good
  <2> HIDE DEF Good
  <2>1. 0..n \subseteq Good
    BY <1>1, <1>2, FiniteInduction
  <2>2. QED
    BY <2>1
<1>4. QED
  BY <1>3 DEF Follows

----------------------------------------------------------------------------
\* A sum of 64 bits is in their range, and is the true one if that is.
LEMMA WrapRange ==
  ASSUME NEW x \in Int
  PROVE  /\ Wrap(x) \in -HalfRange..HalfRange - 1
         /\ x \in 0..HalfRange - 1 => Wrap(x) = x
<1> DEFINE w == 2 * HalfRange
           y == x + HalfRange
<1>1. w \in Nat \ {0} /\ y \in Int /\ HalfRange \in Nat
  BY SettingsAssumption
<1> HIDE DEF w, y
<1>2. y % w \in 0..w - 1
  BY <1>1
<1>3. y \in 0..w - 1 => y % w = y
  BY <1>1
<1>4. QED
  BY <1>1, <1>2, <1>3 DEF Wrap, w, y

Texts == Seq(Parts)
Results == [ok : BOOLEAN, value : Int]

\* What a part adds.
LEMMA PartValue ==
  ASSUME NEW text \in Texts, NEW k \in 1..Len(text), IsPart(text[k], UnitOfTime)
  PROVE  text[k].number * UnitOfTime[text[k].unit] \in Nat
<1>1. text[k].number \in Nat
  <2>1. text[k] \in Parts
    BY DEF Texts
  <2>2. QED
    BY <2>1 DEF Parts
<1>2. UnitOfTime[text[k].unit] \in Nat
  BY SettingsAssumption DEF IsPart
<1>3. QED
  BY <1>1, <1>2

\* One pass of the loop yields a verdict and a number.
LEMMA AddPartResult ==
  ASSUME NEW text \in Texts, NEW k \in 1..Len(text), NEW d \in Results
  PROVE  AddPart(d, text[k]) \in Results
<1>1. CASE IsPart(text[k], UnitOfTime)
  <2> DEFINE sum == d.value + text[k].number * UnitOfTime[text[k].unit]
  <2>1. sum \in Int
    BY <1>1, PartValue DEF Results
  <2>2. Wrap(sum) \in Int
    BY <2>1, WrapRange, SettingsAssumption
  <2>3. QED
    BY <2>2 DEF AddPart, Results, Refused, Accepted
<1>2. CASE ~IsPart(text[k], UnitOfTime)
  BY <1>2 DEF AddPart, Results, Refused
<1>3. QED
  BY <1>1, <1>2

\* The loop of ValidateTimeSpan, part by part.
LEMMA ValidateTimeSpanSteps ==
  ASSUME NEW text \in Texts
  PROVE  \E After \in [0..Len(text) -> Results] :
           /\ After[0] = Accepted(0)
           /\ \A k \in 1..Len(text) : After[k] = AddPart(After[k - 1], text[k])
           /\ ValidateTimeSpan(text) = After[Len(text)]
<1> DEFINE n == Len(text)
           Is(f) == f = [k \in 0..n |->
                          IF k = 0 THEN Accepted(0) ELSE AddPart(f[k - 1], text[k])]
           After == CHOOSE f : Is(f)
           step == [kr \in (1..n) \X Results |-> AddPart(kr[2], text[kr[1]])]
<1>1. n \in Nat
  BY DEF Texts
<1>2. Accepted(0) \in Results
  BY DEF Results, Accepted
<1>3. step \in [(1..n) \X Results -> Results]
  BY AddPartResult
<1>4. PICK f \in [0..n -> Results] : Follows(f, n, Accepted(0), step)
  <2> HIDE DEF step, n
  <2>1. QED
    BY <1>1, <1>2, <1>3, Recursion
<1>5. ASSUME NEW k \in 1..n PROVE f[k] = AddPart(f[k - 1], text[k])
  <2>1. k - 1 \in 0..n
    BY <1>1
  <2>2. f[k - 1] \in Results
    BY <1>4, <2>1
  <2>3. step[<<k, f[k - 1]>>] = AddPart(f[k - 1], text[k])
    BY <2>2
  <2>4. QED
    BY <1>4, <2>3 DEF Follows
<1>6. Is(f)
  BY <1>1, <1>4, <1>5 DEF Follows
<1>7. Is(After)
  BY <1>6
<1>8. ValidateTimeSpan(text) = After[n]
  BY DEF ValidateTimeSpan
<1>9. /\ After[0] = Accepted(0)
      /\ \A k \in 1..n : After[k] = AddPart(After[k - 1], text[k])
      /\ After = [k \in 0..n |-> After[k]]
  <2>1. After = [k \in 0..n |->
                  IF k = 0 THEN Accepted(0) ELSE AddPart(After[k - 1], text[k])]
    BY <1>7
  <2> HIDE DEF After
  <2>2. After[0] = Accepted(0)
    BY <1>1, <2>1
  <2>3. \A k \in 1..n : After[k] = AddPart(After[k - 1], text[k])
    BY <1>1, <2>1
  <2>4. After = [k \in 0..n |-> After[k]]
    BY <2>1
  <2>5. QED
    BY <2>2, <2>3, <2>4
<1> HIDE DEF After
<1>10. 0..n \subseteq {k \in 0..n : After[k] \in Results}
  <2> DEFINE S == {k \in 0..n : After[k] \in Results}
  <2>1. 0 \in S
    BY <1>1, <1>2, <1>9
  <2>2. ASSUME NEW k \in 1..n, k - 1 \in S PROVE k \in S
    <3>1. k \in 0..n /\ After[k - 1] \in Results
      BY <1>1, <2>2
    <3>2. AddPart(After[k - 1], text[k]) \in Results
      BY <3>1, AddPartResult
    <3>3. QED
      BY <1>9, <3>1, <3>2
  <2> HIDE DEF S
  <2>3. 0..n \subseteq S
    BY <1>1, <2>1, <2>2, FiniteInduction
  <2>4. QED
    BY <2>3 DEF S
<1>11. After \in [0..n -> Results]
  BY <1>9, <1>10
<1>12. QED
  BY <1>8, <1>9, <1>11

\* The sum of a text without blanks and unknown units, part by part.
LEMMA TrueSpanSteps ==
  ASSUME NEW text \in Texts, WellFormed(text)
  PROVE  \E Sum \in [0..Len(text) -> Nat] :
           /\ Sum[0] = 0
           /\ \A k \in 1..Len(text) :
                Sum[k] = Sum[k - 1] + text[k].number * UnitOfTime[text[k].unit]
           /\ TrueSpan(text) = Sum[Len(text)]
<1> DEFINE n == Len(text)
           part == [k \in 1..n |-> text[k].number * UnitOfTime[text[k].unit]]
           Is(f) == f = [k \in 0..n |->
                          IF k = 0 THEN 0
                          ELSE f[k - 1] + text[k].number * UnitOfTime[text[k].unit]]
           Sum == CHOOSE f : Is(f)
           step == [kr \in (1..n) \X Nat |-> kr[2] + part[kr[1]]]
<1>1. n \in Nat
  BY DEF Texts
<1>2. part \in [1..n -> Nat]
  <2>1. \A k \in 1..n : IsPart(text[k], UnitOfTime)
    BY DEF WellFormed, Texts
  <2>2. QED
    BY <2>1, PartValue
<1>3. step \in [(1..n) \X Nat -> Nat]
  <2> HIDE DEF part
  <2>1. QED
    BY <1>2
<1>4. PICK f \in [0..n -> Nat] : Follows(f, n, 0, step)
  <2> HIDE DEF step, n
  <2>1. QED
    BY <1>1, <1>3, Recursion
<1>5. ASSUME NEW k \in 1..n PROVE f[k] = f[k - 1] + part[k]
  <2>1. k - 1 \in 0..n
    BY <1>1
  <2>2. f[k - 1] \in Nat
    BY <1>4, <2>1
  <2> HIDE DEF part
  <2>3. step[<<k, f[k - 1]>>] = f[k - 1] + part[k]
    BY <2>2
  <2>4. QED
    BY <1>4, <2>3 DEF Follows
<1>6. Is(f)
  BY <1>1, <1>4, <1>5 DEF Follows
<1>7. Is(Sum)
  BY <1>6
<1>8. TrueSpan(text) = Sum[n]
  BY DEF TrueSpan
<1>9. /\ Sum[0] = 0
      /\ \A k \in 1..n : Sum[k] = Sum[k - 1] + part[k]
      /\ Sum = [k \in 0..n |-> Sum[k]]
  <2>1. Sum = [k \in 0..n |->
                IF k = 0 THEN 0
                ELSE Sum[k - 1] + text[k].number * UnitOfTime[text[k].unit]]
    BY <1>7
  <2> HIDE DEF Sum
  <2>2. Sum[0] = 0
    BY <1>1, <2>1
  <2>3. \A k \in 1..n : Sum[k] = Sum[k - 1] + part[k]
    BY <1>1, <2>1
  <2>4. Sum = [k \in 0..n |-> Sum[k]]
    BY <2>1
  <2>5. QED
    BY <2>2, <2>3, <2>4
<1> HIDE DEF Sum
<1>10. 0..n \subseteq {k \in 0..n : Sum[k] \in Nat}
  <2> DEFINE S == {k \in 0..n : Sum[k] \in Nat}
  <2> HIDE DEF part
  <2>1. 0 \in S
    BY <1>1, <1>9
  <2>2. ASSUME NEW k \in 1..n, k - 1 \in S PROVE k \in S
    <3>1. k \in 0..n /\ Sum[k - 1] \in Nat /\ part[k] \in Nat
      BY <1>1, <1>2, <2>2
    <3>2. Sum[k] = Sum[k - 1] + part[k]
      BY <1>9
    <3>3. QED
      BY <3>1, <3>2
  <2> HIDE DEF S
  <2>3. 0..n \subseteq S
    BY <1>1, <2>1, <2>2, FiniteInduction
  <2>4. QED
    BY <2>3 DEF S
<1>11. Sum \in [0..n -> Nat]
  BY <1>9, <1>10
<1>12. QED
  BY <1>8, <1>9, <1>11

\* Whatever the text, ValidateTimeSpan accepts none but durations made of numbers and
\* units, and never yields a negative one (settings.go:395-483).
THEOREM SpanIsInRange ==
  ASSUME NEW text \in Texts, ValidateTimeSpan(text).ok
  PROVE  WellFormed(text) /\ ValidateTimeSpan(text).value \in 0..HalfRange - 1
<1> DEFINE n == Len(text)
           Sound(d, k) == d.ok => /\ d.value \in 0..HalfRange - 1
                                  /\ \A i \in 1..k : IsPart(text[i], UnitOfTime)
<1>1. n \in Nat
  BY DEF Texts
<1>2. PICK After \in [0..n -> Results] :
        /\ After[0] = Accepted(0)
        /\ \A k \in 1..n : After[k] = AddPart(After[k - 1], text[k])
        /\ ValidateTimeSpan(text) = After[n]
  BY ValidateTimeSpanSteps
<1> DEFINE S == {k \in 0..n : Sound(After[k], k)}
<1>3. 0 \in S
  BY <1>1, <1>2, SettingsAssumption DEF Accepted
<1>4. ASSUME NEW k \in 1..n, k - 1 \in S PROVE k \in S
  <2> DEFINE d == After[k - 1]
             sum == d.value + text[k].number * UnitOfTime[text[k].unit]
  <2>1. d \in Results /\ Sound(d, k - 1) /\ k \in 0..n
    BY <1>1, <1>2, <1>4
  <2>2. After[k] = AddPart(d, text[k])
    BY <1>2
  <2>3. SUFFICES ASSUME After[k].ok
                 PROVE  Sound(After[k], k)
    BY <2>1
  <2>4. d.ok /\ IsPart(text[k], UnitOfTime) /\ After[k].value = Wrap(sum) /\ Wrap(sum) >= d.value
    <3> HIDE DEF d
    <3>1. d.ok /\ IsPart(text[k], UnitOfTime)
      BY <2>2, <2>3 DEF AddPart, Refused
    <3>2. sum \in Int
      BY <2>1, <3>1, PartValue DEF Results
    <3>3. Wrap(sum) \in Int /\ d.value \in Int
      BY <2>1, <3>2, WrapRange, SettingsAssumption DEF Results
    <3>4. QED
      BY <2>2, <2>3, <3>1, <3>3 DEF AddPart, Refused, Accepted
  <2>5. sum \in Int
    BY <2>1, <2>4, PartValue DEF Results
  <2>6. Wrap(sum) \in -HalfRange..HalfRange - 1
    BY <2>5, WrapRange
  <2>7. After[k].value \in 0..HalfRange - 1
    BY <2>1, <2>4, <2>6, SettingsAssumption
  <2>8. \A i \in 1..k : i \in 1..k - 1 \/ i = k
    OBVIOUS
  <2>9. QED
    BY <2>1, <2>4, <2>7, <2>8
<1>5. n \in S
  <2> HIDE DEF S
  <2>1. 0..n \subseteq S
    BY <1>1, <1>3, <1>4, FiniteInduction
  <2>2. QED
    BY <1>1, <2>1
<1>6. QED
  BY <1>2, <1>5 DEF WellFormed, Texts

\* Every duration made of numbers and units that a time.Duration can hold is accepted,
\* and for what it says: no check of the loop refuses it (settings.go:406-480).
THEOREM SpanIsTrue ==
  ASSUME NEW text \in Texts, WellFormed(text), TrueSpan(text) < HalfRange
  PROVE  ValidateTimeSpan(text) = Accepted(TrueSpan(text))
<1> DEFINE n == Len(text)
<1>1. n \in Nat
  BY DEF Texts
<1>2. PICK After \in [0..n -> Results] :
        /\ After[0] = Accepted(0)
        /\ \A k \in 1..n : After[k] = AddPart(After[k - 1], text[k])
        /\ ValidateTimeSpan(text) = After[n]
  BY ValidateTimeSpanSteps
<1>3. PICK Sum \in [0..n -> Nat] :
        /\ Sum[0] = 0
        /\ \A k \in 1..n : Sum[k] = Sum[k - 1] + text[k].number * UnitOfTime[text[k].unit]
        /\ TrueSpan(text) = Sum[n]
  BY TrueSpanSteps
<1> DEFINE S == {k \in 0..n : Sum[k] < HalfRange => After[k] = Accepted(Sum[k])}
<1>4. 0 \in S
  BY <1>1, <1>2, <1>3
<1>5. ASSUME NEW k \in 1..n, k - 1 \in S PROVE k \in S
  <2> DEFINE x == text[k].number * UnitOfTime[text[k].unit]
  <2>1. IsPart(text[k], UnitOfTime) /\ x \in Nat
    BY PartValue DEF WellFormed, Texts
  <2> HIDE DEF x
  <2>2. k \in 0..n /\ Sum[k - 1] \in Nat /\ Sum[k] = Sum[k - 1] + x
    BY <1>1, <1>3, <1>5 DEF x
  <2>3. SUFFICES ASSUME Sum[k] < HalfRange
                 PROVE  After[k] = Accepted(Sum[k])
    BY <2>2
  <2>4. Sum[k] \in 0..HalfRange - 1 /\ Sum[k - 1] < HalfRange /\ Sum[k] >= Sum[k - 1]
    BY <2>1, <2>2, <2>3, SettingsAssumption
  <2>5. After[k - 1] = Accepted(Sum[k - 1])
    BY <1>5, <2>4
  <2>6. Wrap(Sum[k]) = Sum[k]
    BY <2>4, WrapRange
  <2>7. After[k] = AddPart(Accepted(Sum[k - 1]), text[k])
    BY <1>2, <2>5
  <2>8. AddPart(Accepted(Sum[k - 1]), text[k]) = Accepted(Sum[k])
    <3> DEFINE d == Accepted(Sum[k - 1])
    <3>1. d.ok /\ d.value = Sum[k - 1]
      BY DEF Accepted
    <3> HIDE DEF d
    <3>2. Wrap(d.value + x) = Sum[k] /\ ~(Sum[k] < d.value)
      BY <2>2, <2>4, <2>6, <3>1
    <3>3. AddPart(d, text[k]) = Accepted(Sum[k])
      BY <2>1, <3>1, <3>2 DEF AddPart, x
    <3>4. QED
      BY <3>3 DEF d
  <2>9. QED
    BY <2>7, <2>8
<1>6. n \in S
  <2> HIDE DEF S
  <2>1. 0..n \subseteq S
    BY <1>1, <1>4, <1>5, FiniteInduction
  <2>2. QED
    BY <1>1, <2>1
<1>7. QED
  BY <1>2, <1>3, <1>6

\* What div and mod are to each other.
LEMMA Division ==
  ASSUME NEW a \in Int, NEW w \in Nat \ {0}
  PROVE  a \div w \in Int /\ a % w \in 0..w - 1 /\ a = w * (a \div w) + (a % w)
OBVIOUS

LEMMA Remainder ==
  ASSUME NEW w \in Nat \ {0}, NEW m \in Int, NEW r \in 0..w - 1
  PROVE  (w * m + r) % w = r
OBVIOUS

\* It does not matter whether a sum is cut to 64 bits at each part or at the end.
LEMMA WrapSum ==
  ASSUME NEW x \in Int, NEW y \in Int
  PROVE  Wrap(Wrap(x) + y) = Wrap(x + y)
<1> DEFINE w == 2 * HalfRange
<1>1. w \in Nat \ {0} /\ HalfRange \in Nat
  BY SettingsAssumption
<1> HIDE DEF w
<1> DEFINE a == x + HalfRange
           b == x + y + HalfRange
<1>2. PICK q \in Int, r \in Int : a = w * q + r /\ a % w = r
  <2>1. a \in Int
    BY <1>1
  <2> HIDE DEF a
  <2>2. a \div w \in Int /\ a % w \in Int /\ a = w * (a \div w) + (a % w)
    BY <1>1, <2>1, Division
  <2>3. QED
    BY <2>2
<1>3. PICK p \in Int, s \in 0..w - 1 : b = w * p + s /\ b % w = s
  <2>1. b \in Int
    BY <1>1
  <2> HIDE DEF b
  <2>2. b \div w \in Int /\ b % w \in 0..w - 1 /\ b = w * (b \div w) + (b % w)
    BY <1>1, <2>1, Division
  <2>3. QED
    BY <2>2
<1>4. Wrap(x) = r - HalfRange /\ Wrap(x + y) = s - HalfRange
  BY <1>2, <1>3 DEF Wrap, w
<1>5. Wrap(x) + y + HalfRange = w * (p - q) + s
  BY <1>1, <1>2, <1>3, <1>4
<1>6. (Wrap(x) + y + HalfRange) % w = s
  <2>1. p - q \in Int
    BY <1>2, <1>3
  <2>2. (w * (p - q) + s) % w = s
    BY <1>1, <1>3, <2>1, Remainder
  <2>3. QED
    BY <1>5, <2>2
<1>7. QED
  BY <1>4, <1>6 DEF Wrap, w

\* A duration that is too long for 64 bits is not always refused, but what is accepted
\* of it can only be the true value less a multiple of 2^64 (settings.go:471).
THEOREM SpanIsCongruent ==
  ASSUME NEW text \in Texts, ValidateTimeSpan(text).ok
  PROVE  ValidateTimeSpan(text).value = Wrap(TrueSpan(text))
<1> DEFINE n == Len(text)
<1>1. n \in Nat
  BY DEF Texts
<1>2. PICK After \in [0..n -> Results] :
        /\ After[0] = Accepted(0)
        /\ \A k \in 1..n : After[k] = AddPart(After[k - 1], text[k])
        /\ ValidateTimeSpan(text) = After[n]
  BY ValidateTimeSpanSteps
<1>3. PICK Sum \in [0..n -> Nat] :
        /\ Sum[0] = 0
        /\ \A k \in 1..n : Sum[k] = Sum[k - 1] + text[k].number * UnitOfTime[text[k].unit]
        /\ TrueSpan(text) = Sum[n]
  BY SpanIsInRange, TrueSpanSteps
<1> DEFINE S == {k \in 0..n : After[k].ok => After[k].value = Wrap(Sum[k])}
<1>4. 0 \in S
  <2>1. Wrap(0) = 0
    BY WrapRange, SettingsAssumption
  <2>2. QED
    BY <1>1, <1>2, <1>3, <2>1 DEF Accepted
<1>5. ASSUME NEW k \in 1..n, k - 1 \in S PROVE k \in S
  <2> DEFINE x == text[k].number * UnitOfTime[text[k].unit]
             d == After[k - 1]
  <2>1. SUFFICES ASSUME After[k].ok
                 PROVE  After[k].value = Wrap(Sum[k])
    BY <1>1
  <2>2. After[k] = AddPart(d, text[k])
    BY <1>2
  <2> HIDE DEF d
  <2>3. d.ok /\ IsPart(text[k], UnitOfTime) /\ After[k].value = Wrap(d.value + x)
    BY <2>1, <2>2 DEF AddPart, Refused, Accepted
  <2>4. d.value = Wrap(Sum[k - 1])
    BY <1>5, <2>3 DEF d
  <2>5. x \in Nat
    BY <2>3, PartValue
  <2> HIDE DEF x
  <2>6. Sum[k - 1] \in Nat /\ Sum[k] = Sum[k - 1] + x
    BY <1>1, <1>3 DEF x
  <2>7. Wrap(Wrap(Sum[k - 1]) + x) = Wrap(Sum[k - 1] + x)
    <3>1. Sum[k - 1] \in Int /\ x \in Int
      BY <2>5, <2>6
    <3>2. QED
      BY <3>1, WrapSum, Zenon
  <2>8. QED
    BY <2>3, <2>4, <2>6, <2>7
<1>6. n \in S
  <2> HIDE DEF S
  <2>1. 0..n \subseteq S
    BY <1>1, <1>4, <1>5, FiniteInduction
  <2>2. QED
    BY <1>1, <2>1
<1>7. QED
  BY <1>2, <1>3, <1>6

----------------------------------------------------------------------------
\* What a setting may say of a duration: a text or nothing.
Given == Durations \cup {Unset}

\* A period that is accepted is the default or has its least value, and it is exact.
LEMMA SpanOfResult ==
  ASSUME NEW text \in Given, NEW least \in Nat, NEW default
  PROVE  /\ SpanOf(text, least, default).ok
              => \/ text = Unset /\ SpanOf(text, least, default).value = default
                 \/ SpanOf(text, least, default).value \in least..HalfRange - 1
         /\ SpanIsExact(text, SpanOf(text, least, default).value)
<1>1. CASE text = Unset
  BY <1>1 DEF SpanOf, SpanIsExact, Accepted
<1>2. CASE text # Unset
  <2> DEFINE d == ValidateTimeSpan(text)
             s == SpanOf(text, least, default)
  <2>1. text \in Texts
    BY <1>2, SettingsAssumption DEF Given, Texts
  <2>2. d \in Results
    <3>1. PICK After \in [0..Len(text) -> Results] : d = After[Len(text)]
      BY <2>1, ValidateTimeSpanSteps
    <3>2. Len(text) \in 0..Len(text)
      BY <2>1 DEF Texts
    <3>3. QED
      BY <3>1, <3>2
  <2>3. s = [d EXCEPT !.ok = d.ok /\ d.value >= least]
    BY <1>2 DEF SpanOf
  <2>4. d.ok => d.value \in 0..HalfRange - 1
    BY <2>1, SpanIsInRange
  <2>5. WellFormed(text) /\ TrueSpan(text) < HalfRange => d.value = TrueSpan(text)
    BY <2>1, SpanIsTrue DEF Accepted
  <2> HIDE DEF d, s
  <2>6. s.value = d.value /\ (s.ok => d.ok /\ d.value >= least)
    BY <2>2, <2>3 DEF Results
  <2>7. s.ok => s.value \in least..HalfRange - 1
    BY <2>2, <2>4, <2>6, SettingsAssumption DEF Results
  <2>8. SpanIsExact(text, s.value)
    BY <2>5, <2>6 DEF SpanIsExact
  <2>9. QED
    BY <2>7, <2>8 DEF s
<1>3. QED
  BY <1>1, <1>2

\* A list of ports that is accepted yields the ports that begin its groups.
LEMMA PortsListed ==
  ASSUME NEW list \in PortLists, ParsePortsList(list).ok
  PROVE  /\ ParsePortsList(list).value # {}
         /\ ParsePortsList(list).value \subseteq 0..MaxPort
<1> DEFINE ports == ParsePortsList(list).value
<1>1. list \in Seq(Seq(Nat))
  BY SettingsAssumption
<1>2. /\ list # <<>>
      /\ \A i \in DOMAIN list : list[i][1] \in 0..MaxPort
      /\ ports = UNION {PortsOf(list[i]) : i \in DOMAIN list}
  BY DEF ParsePortsList
<1>3. \A i \in DOMAIN list : PortsOf(list[i]) = {list[i][1]}
  BY <1>2, SettingsAssumption DEF PortsOf
<1>4. ports = {list[i][1] : i \in DOMAIN list}
  BY <1>2, <1>3
<1>5. 1 \in DOMAIN list
  BY <1>1, <1>2
<1>6. ports # {} /\ ports \subseteq 0..MaxPort
  <2> HIDE DEF ports
  <2>1. list[1][1] \in ports
    BY <1>4, <1>5
  <2>2. QED
    BY <1>2, <1>4, <2>1
<1>7. QED
  BY <1>6

LEMMA SeverityKnown ==
  ASSUME NEW s, ValidateSeverity(s) # ""
  PROVE  ValidateSeverity(s) \in Severities
BY DEF ValidateSeverity, Severities

----------------------------------------------------------------------------
Sections == {"server", "log", "channels", "processes", "webs", "tcpPorts", "freeDiskSpace",
             "loaded", "refused"}

\* The sections in the order of Load.
OrderInv ==
  /\ section \in Sections
  /\ section \in {"server", "log", "channels", "processes"} => item = NoItem
\* The age of the log files once the section of the log was read.
AgeInv ==
  /\ section \notin {"server", "log", "refused"} => maxAge.value \in TenMinutes..HalfRange - 1
  /\ SpanIsExact(maxAge.text, maxAge.value)
\* Every channel that was accepted has an output.
ChannelsInv ==
  section \notin {"server", "log", "channels", "refused"} =>
    channels # {} /\ \A c \in channels : c.file \/ c.slack = "on" \/ c.email = "on"

\* What the modules take for granted of an item.
ItemUsable ==
  /\ item # NoItem =>
       /\ item.severity \in Severities
       /\ \E c \in channels : c.name = item.channel
  /\ item.kind \in {"web", "tcp"} => item.period \in TenSeconds..HalfRange - 1
  /\ item.kind = "web" => item.checked \in 1..item.groups
  /\ item.kind = "tcp" => item.ports # {} /\ item.ports \subseteq 0..MaxPort
  /\ item.kind = "disk" => item.period \in {Unlimited} \cup 0..HalfRange - 1
ItemInv ==
  /\ section # "refused" => ItemUsable
  /\ item.kind \in {"web", "tcp", "disk"} => SpanIsExact(item.text, item.period)
SettingsInv == OrderInv /\ AgeInv /\ ChannelsInv /\ ItemInv

LEMMA SettingsInvInit == SettingsInit => SettingsInv
BY DEF SettingsInit, SettingsInv, OrderInv, AgeInv, ChannelsInv, ItemInv, ItemUsable, Sections,
   NoItem, SpanIsExact

\* A step that reads no item leaves what was read of one.
LEMMA ItemKept ==
  ASSUME ItemInv, UNCHANGED <<channels, item>>, section # "refused" \/ section' = "refused"
  PROVE  ItemInv'
BY DEF ItemInv, ItemUsable

\* A step that reads an item.
LEMMA ItemLoaded ==
  ASSUME SettingsInv, NEW this, NEW next, NEW ok, NEW read,
         LoadItem(this, next, ok, read),
         <<this, next>> \in {<<"processes", "webs">>, <<"webs", "tcpPorts">>,
                            <<"tcpPorts", "freeDiskSpace">>, <<"freeDiskSpace", "loaded">>},
         ok => (section' # "refused" /\ item' = read => ItemUsable'),
         read.kind \in {"web", "tcp", "disk"} => SpanIsExact(read.text, read.period)
  PROVE  SettingsInv'
<1>1. /\ section = this
      /\ section' = IF ok THEN next ELSE "refused"
      /\ item' = read
      /\ UNCHANGED <<channels, maxAge>>
  BY DEF LoadItem, Leave
<1>2. ChannelsInv' /\ AgeInv' /\ OrderInv'
  BY <1>1 DEF SettingsInv, ChannelsInv, AgeInv, OrderInv, Sections
<1>3. ItemInv'
  BY <1>1 DEF ItemInv
<1>4. QED
  BY <1>2, <1>3 DEF SettingsInv

LEMMA SettingsInvStep == SettingsInv /\ [SettingsNext]_settingsVars => SettingsInv'
<1> SUFFICES ASSUME SettingsInv, [SettingsNext]_settingsVars
             PROVE  SettingsInv'
  OBVIOUS
<1>1. ASSUME LoadServer PROVE SettingsInv'
  <2>1. /\ section = "server" /\ section' \in {"log", "refused"}
        /\ UNCHANGED <<channels, maxAge, item>>
    BY <1>1 DEF LoadServer, Leave
  <2>2. ItemInv'
    BY <2>1, ItemKept DEF SettingsInv
  <2>3. QED
    BY <2>1, <2>2 DEF SettingsInv, OrderInv, AgeInv, ChannelsInv, Sections
<1>2. ASSUME LoadLog PROVE SettingsInv'
  <2>1. PICK text \in Given :
          LET age == SpanOf(text, TenMinutes, SevenDays)
          IN  /\ Leave("log", age.ok, "channels")
              /\ maxAge' = [text |-> text, value |-> age.value]
              /\ UNCHANGED <<channels, item>>
    BY <1>2 DEF LoadLog, Given
  <2> DEFINE age == SpanOf(text, TenMinutes, SevenDays)
  <2>2. /\ age.ok => age.value \in TenMinutes..HalfRange - 1
        /\ SpanIsExact(text, age.value)
    <3>1. /\ TenMinutes \in Nat /\ TenMinutes =< TenMinutes
          /\ SevenDays \in TenMinutes..HalfRange - 1
      BY SettingsAssumption
    <3>2. QED
      BY <3>1, SpanOfResult
  <2>3. section = "log" /\ section' = IF age.ok THEN "channels" ELSE "refused"
    BY <2>1 DEF Leave
  <2>4. ItemInv'
    BY <2>1, <2>3, ItemKept DEF SettingsInv
  <2>5. AgeInv'
    BY <2>1, <2>2, <2>3 DEF AgeInv
  <2>6. QED
    BY <2>1, <2>3, <2>4, <2>5 DEF SettingsInv, OrderInv, ChannelsInv, Sections
<1>3. ASSUME LoadChannels PROVE SettingsInv'
  <2>1. PICK cs \in SUBSET Channels :
          /\ Leave("channels", cs # {} /\ \A c \in cs : ChannelOk(c), "processes")
          /\ channels' = cs
          /\ UNCHANGED <<maxAge, item>>
    BY <1>3 DEF LoadChannels
  <2>2. section = "channels" /\ section' \in {"processes", "refused"}
    BY <2>1 DEF Leave
  <2>3. item = NoItem
    BY <2>2 DEF SettingsInv, OrderInv
  <2>4. ItemInv'
    BY <2>1, <2>3 DEF ItemInv, ItemUsable, NoItem
  <2>5. ChannelsInv'
    BY <2>1, <2>2 DEF ChannelsInv, Leave, ChannelOk
  <2>6. QED
    BY <2>1, <2>2, <2>4, <2>5 DEF SettingsInv, OrderInv, AgeInv, Sections
<1>4. ASSUME LoadNothing PROVE SettingsInv'
  <2>1. /\ <<section, section'>> \in {<<"processes", "webs">>, <<"webs", "tcpPorts">>,
                            <<"tcpPorts", "freeDiskSpace">>, <<"freeDiskSpace", "loaded">>}
        /\ UNCHANGED <<channels, maxAge, item>>
    BY <1>4 DEF LoadNothing, Leave
  <2>2. ItemInv'
    BY <2>1, ItemKept DEF SettingsInv
  <2>3. QED
    BY <2>1, <2>2 DEF SettingsInv, OrderInv, AgeInv, ChannelsInv, Sections
<1>5. ASSUME LoadProcess PROVE SettingsInv'
  <2>1. PICK c \in Names, s \in SeverityTexts, named \in BOOLEAN :
          LoadItem("processes", "webs", named /\ ItemOk(c, s),
             [kind |-> "process", channel |-> c, severity |-> ValidateSeverity(s)])
    BY <1>5 DEF LoadProcess
  <2> DEFINE ok == named /\ ItemOk(c, s)
             read == [kind |-> "process", channel |-> c, severity |-> ValidateSeverity(s)]
  <2>2. ok => /\ ValidateSeverity(s) \in Severities
              /\ \E x \in channels : x.name = c
    BY SeverityKnown DEF ItemOk
  <2>3. UNCHANGED channels
    BY <2>1 DEF LoadItem
  <2>4. ok /\ item' = read => ItemUsable'
    BY <2>2, <2>3 DEF ItemUsable
  <2>5. read.kind = "process"
    OBVIOUS
  <2> HIDE DEF ok, read
  <2>6. LoadItem("processes", "webs", ok, read)
    BY <2>1 DEF ok, read
  <2>7. QED
    BY <2>4, <2>5, <2>6, ItemLoaded
<1>6. ASSUME LoadWeb PROVE SettingsInv'
  <2>1. PICK c \in Names, s \in SeverityTexts, url \in BOOLEAN, t \in Given,
             groups \in 1..2, checked \in 0..2 :
          LET period == SpanOf(t, TenSeconds, TenSeconds)
          IN  LoadItem("webs", "tcpPorts",
                 url /\ period.ok /\ checked \in 1..groups /\ ItemOk(c, s),
                 [kind |-> "web", channel |-> c, severity |-> ValidateSeverity(s), text |-> t,
                  period |-> period.value, groups |-> groups, checked |-> checked])
    BY <1>6 DEF LoadWeb, Given
  <2> DEFINE period == SpanOf(t, TenSeconds, TenSeconds)
             ok == url /\ period.ok /\ checked \in 1..groups /\ ItemOk(c, s)
             read == [kind |-> "web", channel |-> c, severity |-> ValidateSeverity(s), text |-> t,
                      period |-> period.value, groups |-> groups, checked |-> checked]
  <2>2. ok => /\ ValidateSeverity(s) \in Severities
              /\ \E x \in channels : x.name = c
    BY SeverityKnown DEF ItemOk
  <2>3. /\ ok => period.value \in TenSeconds..HalfRange - 1
        /\ SpanIsExact(t, period.value)
    <3>1. TenSeconds \in Nat /\ TenSeconds \in TenSeconds..HalfRange - 1
      BY SettingsAssumption
    <3>2. QED
      BY <3>1, SpanOfResult
  <2> HIDE DEF period
  <2>4. UNCHANGED channels
    BY <2>1 DEF LoadItem
  <2>5. ok /\ item' = read => ItemUsable'
    BY <2>2, <2>3, <2>4 DEF ItemUsable
  <2>6. read.kind \in {"web", "tcp", "disk"} => SpanIsExact(read.text, read.period)
    BY <2>3
  <2>7. LoadItem("webs", "tcpPorts", ok, read)
    BY <2>1 DEF period
  <2> HIDE DEF ok, read
  <2>8. QED
    BY <2>5, <2>6, <2>7, ItemLoaded
<1>7. ASSUME LoadTcpPorts PROVE SettingsInv'
  <2>1. PICK c \in Names, s \in SeverityTexts, host \in BOOLEAN, t \in Given,
             list \in PortLists :
          LET period == SpanOf(t, TenSeconds, TenSeconds)
              ports == ParsePortsList(list)
          IN  LoadItem("tcpPorts", "freeDiskSpace",
                 host /\ ports.ok /\ period.ok /\ ItemOk(c, s),
                 [kind |-> "tcp", channel |-> c, severity |-> ValidateSeverity(s), text |-> t,
                  period |-> period.value, ports |-> ports.value])
    BY <1>7 DEF LoadTcpPorts, Given
  <2> DEFINE period == SpanOf(t, TenSeconds, TenSeconds)
             ports == ParsePortsList(list)
             ok == host /\ ports.ok /\ period.ok /\ ItemOk(c, s)
             read == [kind |-> "tcp", channel |-> c, severity |-> ValidateSeverity(s), text |-> t,
                      period |-> period.value, ports |-> ports.value]
  <2>2. ok => /\ ValidateSeverity(s) \in Severities
              /\ \E x \in channels : x.name = c
    BY SeverityKnown DEF ItemOk
  <2>3. /\ ok => period.value \in TenSeconds..HalfRange - 1
        /\ SpanIsExact(t, period.value)
    <3>1. TenSeconds \in Nat /\ TenSeconds \in TenSeconds..HalfRange - 1
      BY SettingsAssumption
    <3>2. QED
      BY <3>1, SpanOfResult
  <2>4. ok => ports.value # {} /\ ports.value \subseteq 0..MaxPort
    BY PortsListed
  <2> HIDE DEF period, ports
  <2>5. UNCHANGED channels
    BY <2>1 DEF LoadItem
  <2>6. ok /\ item' = read => ItemUsable'
    BY <2>2, <2>3, <2>4, <2>5 DEF ItemUsable
  <2>7. read.kind \in {"web", "tcp", "disk"} => SpanIsExact(read.text, read.period)
    BY <2>3
  <2>8. LoadItem("tcpPorts", "freeDiskSpace", ok, read)
    BY <2>1 DEF period, ports
  <2> HIDE DEF ok, read
  <2>9. QED
    BY <2>6, <2>7, <2>8, ItemLoaded
<1>8. ASSUME LoadFreeDiskSpace PROVE SettingsInv'
  <2>1. PICK c \in Names, s \in SeverityTexts, size \in BOOLEAN, t \in Given, a \in Amounts :
          LET period == SpanOf(t, 0, Unlimited)
              minimum == ValidateMemoryAmount(a)
          IN  LoadItem("freeDiskSpace", "loaded",
                 size /\ minimum.ok /\ period.ok /\ ItemOk(c, s),
                 [kind |-> "disk", channel |-> c, severity |-> ValidateSeverity(s), text |-> t,
                  period |-> period.value, amount |-> a, minimum |-> minimum.value])
    BY <1>8 DEF LoadFreeDiskSpace, Given
  <2> DEFINE period == SpanOf(t, 0, Unlimited)
             minimum == ValidateMemoryAmount(a)
             ok == size /\ minimum.ok /\ period.ok /\ ItemOk(c, s)
             read == [kind |-> "disk", channel |-> c, severity |-> ValidateSeverity(s), text |-> t,
                      period |-> period.value, amount |-> a, minimum |-> minimum.value]
  <2>2. ok => /\ ValidateSeverity(s) \in Severities
              /\ \E x \in channels : x.name = c
    BY SeverityKnown DEF ItemOk
  <2>3. /\ ok => period.value \in {Unlimited} \cup 0..HalfRange - 1
        /\ SpanIsExact(t, period.value)
    BY SpanOfResult
  <2> HIDE DEF period, minimum
  <2>4. UNCHANGED channels
    BY <2>1 DEF LoadItem
  <2>5. ok /\ item' = read => ItemUsable'
    BY <2>2, <2>3, <2>4 DEF ItemUsable
  <2>6. read.kind \in {"web", "tcp", "disk"} => SpanIsExact(read.text, read.period)
    BY <2>3
  <2>7. LoadItem("freeDiskSpace", "loaded", ok, read)
    BY <2>1 DEF period, minimum
  <2> HIDE DEF ok, read
  <2>8. QED
    BY <2>5, <2>6, <2>7, ItemLoaded
<1>9. ASSUME UNCHANGED settingsVars PROVE SettingsInv'
  BY <1>9 DEF settingsVars, SettingsInv, OrderInv, AgeInv, ChannelsInv, ItemInv, ItemUsable
<1>10. QED
  BY <1>1, <1>2, <1>3, <1>4, <1>5, <1>6, <1>7, <1>8, <1>9 DEF SettingsNext

\* The invariant of Load: which sections were accepted, and what that says of them.
LEMMA SettingsInvariance == SettingsSpec => []SettingsInv
BY SettingsInvInit, SettingsInvStep, PTL DEF SettingsSpec

\* What Load accepts is what the modules take for granted (settings.go:61-347).
THEOREM Usable == SettingsSpec => []AcceptedIsUsable
<1>1. SettingsInv => AcceptedIsUsable
  BY DEF SettingsInv, AgeInv, ChannelsInv, ItemInv, ItemUsable, AcceptedIsUsable
<1>2. QED
  BY SettingsInvariance, <1>1, PTL

\* The age of the log files and the period of an item are what their texts say
\* (settings.go:395-483).
THEOREM Exact == SettingsSpec => []SpansAreExact
<1>1. SettingsInv => SpansAreExact
  BY DEF SettingsInv, AgeInv, ItemInv, SpansAreExact
<1>2. QED
  BY SettingsInvariance, <1>1, PTL

----------------------------------------------------------------------------
(***************************************************************************)
(* The log files, with whatever age Load has accepted.                     *)
(***************************************************************************)
\* Type invariant of the log files.
LogTypeOK ==
  /\ now \in 0..Horizon
  /\ modTime \in [Days -> 0..Horizon \cup {None}]
  /\ stamp \in [Messages -> 0..Horizon \cup {None}]
  /\ opened \subseteq Messages
  /\ doomed \subseteq Days

\* There are no files before the settings are loaded, so that their age stays the same.
FilesInv == section # "loaded" => \A d \in Days : modTime[d] = None
\* A file that is old was noted as such, and so were those that are about to be removed,
\* whatever was written to them since.
OldInv == \A d \in Days : modTime[d] # None /\ now - modTime[d] > MaxAge => d \in idle
DoomedInv == \A d \in doomed : modTime[d] # None /\ d \in idle
LogInv == FilesInv /\ OldInv /\ DoomedInv

LEMMA LogInvInit == LogInit => LogTypeOK /\ LogInv
BY LogFilesAssumption
   DEF LogInit, SettingsInit, LogTypeOK, LogInv, FilesInv, OldInv, DoomedInv

\* Once the settings are loaded nothing more is read.
LEMMA LoadedIsLast == SettingsNext => section # "loaded"
BY DEF SettingsNext, LoadServer, LoadLog, LoadChannels, LoadProcess, LoadWeb, LoadTcpPorts,
   LoadFreeDiskSpace, LoadNothing, LoadItem, Leave

LEMMA LogStepsSettings == [LogNext]_logSpecVars => [SettingsNext]_settingsVars
BY DEF LogNext, Logging, logSpecVars

LEMMA LogInvStep ==
  SettingsInv /\ LogTypeOK /\ LogInv /\ [LogNext]_logSpecVars => (LogTypeOK /\ LogInv)'
<1> DEFINE Goal == (LogTypeOK /\ LogInv)'
<1> SUFFICES ASSUME SettingsInv, LogTypeOK, LogInv, [LogNext]_logSpecVars
             PROVE  Goal
  OBVIOUS
<1>1. CASE SettingsNext /\ UNCHANGED logVars
  <2>1. \A d \in Days : modTime'[d] = None
    BY <1>1, LoadedIsLast DEF LogInv, FilesInv, logVars
  <2>2. QED
    BY <1>1, <2>1 DEF LogTypeOK, LogInv, FilesInv, OldInv, DoomedInv, logVars
<1>2. CASE UNCHANGED logSpecVars
  BY <1>2 DEF LogTypeOK, LogInv, FilesInv, OldInv, DoomedInv, logVars, logSpecVars, settingsVars,
     MaxAge
<1>3. ASSUME Logging
      PROVE  /\ section = "loaded" /\ section' = "loaded"
             /\ MaxAge \in Nat /\ MaxAge' = MaxAge
  BY <1>3, SettingsAssumption DEF Logging, settingsVars, MaxAge, SettingsInv, AgeInv
<1> HIDE DEF MaxAge
<1>4. ASSUME Logging, NEW m \in Messages, Stamp(m) PROVE Goal
  BY <1>3, <1>4 DEF Stamp, LogTypeOK, LogInv, FilesInv, OldInv, DoomedInv
<1>5. ASSUME Logging, NEW m \in Messages, Open(m) PROVE Goal
  <2> DEFINE day == DayOf(stamp[m])
  <2>1. /\ UNCHANGED <<now, stamp, doomed>>
        /\ opened' = opened \cup {m}
        /\ IF modTime[day] = None
           THEN modTime' = [modTime EXCEPT ![day] = now] /\ idle' = idle \ {day}
           ELSE UNCHANGED <<modTime, idle>>
    BY <1>5 DEF Open
  <2> HIDE DEF day
  <2>2. CASE modTime[day] = None
    <3>1. \A d \in Days : modTime'[d] = IF d = day THEN now ELSE modTime[d]
      BY <2>1, <2>2 DEF LogTypeOK
    <3>2. LogTypeOK'
      BY <2>1, <2>2 DEF LogTypeOK
    <3>3. OldInv'
      BY <1>3, <1>5, <2>1, <2>2, <3>1 DEF LogTypeOK, LogInv, OldInv
    <3>4. DoomedInv'
      <4>1. day \notin doomed
        BY <2>2 DEF LogInv, DoomedInv
      <4>2. QED
        BY <2>1, <2>2, <3>1, <4>1 DEF LogTypeOK, LogInv, DoomedInv
    <3>5. QED
      BY <1>3, <1>5, <3>2, <3>3, <3>4 DEF LogInv, FilesInv
  <2>3. CASE modTime[day] # None
    BY <1>3, <1>5, <2>1, <2>3 DEF LogTypeOK, LogInv, FilesInv, OldInv, DoomedInv
  <2>4. QED
    BY <2>2, <2>3
<1>6. ASSUME Logging, NEW m \in Messages, AppendLine(m) PROVE Goal
  <2> DEFINE day == DayOf(stamp[m])
  <2>1. /\ UNCHANGED <<now, doomed, idle>>
        /\ opened' = opened \ {m}
        /\ stamp' = [stamp EXCEPT ![m] = None]
        /\ modTime' = IF m \in orphans THEN modTime ELSE [modTime EXCEPT ![day] = now]
    BY <1>6 DEF AppendLine
  <2> HIDE DEF day
  <2>2. \A d \in Days : modTime'[d] = modTime[d] \/ modTime'[d] = now
    BY <2>1 DEF LogTypeOK
  <2>3. LogTypeOK'
    BY <2>1 DEF LogTypeOK
  <2>4. now \in Nat /\ \A d \in Days : modTime[d] \in Int
    BY LogFilesAssumption DEF LogTypeOK, None
  <2>5. OldInv'
    BY <1>3, <1>6, <2>1, <2>2, <2>4 DEF LogInv, OldInv
  <2>6. DoomedInv'
    BY <2>1, <2>2, <2>4 DEF LogTypeOK, LogInv, DoomedInv, None
  <2>7. QED
    BY <1>3, <1>6, <2>3, <2>5, <2>6 DEF LogInv, FilesInv
<1>7. ASSUME Logging, ReadDir PROVE Goal
  <2>1. /\ UNCHANGED <<now, modTime, stamp, opened, idle>>
        /\ doomed' = {d \in Days : modTime[d] # None /\ modTime[d] < now - MaxAge}
    BY <1>7 DEF ReadDir
  <2>2. \A d \in doomed' : d \in Days /\ modTime[d] # None /\ now - modTime[d] > MaxAge
    BY <1>3, <1>7, <2>1, LogFilesAssumption DEF LogTypeOK, None
  <2>3. QED
    BY <1>3, <1>7, <2>1, <2>2 DEF LogTypeOK, LogInv, FilesInv, OldInv, DoomedInv
<1>8. ASSUME Logging, NEW d \in Days, Remove(d) PROVE Goal
  <2>1. /\ UNCHANGED <<now, stamp, opened, idle>>
        /\ doomed' = doomed \ {d}
        /\ modTime' = [modTime EXCEPT ![d] = None]
    BY <1>8 DEF Remove
  <2>2. \A e \in Days : modTime'[e] = IF e = d THEN None ELSE modTime[e]
    BY <2>1 DEF LogTypeOK
  <2>3. QED
    BY <1>3, <1>8, <2>1, <2>2 DEF LogTypeOK, LogInv, FilesInv, OldInv, DoomedInv
<1>9. ASSUME Logging, Tick PROVE Goal
  <2>1. /\ UNCHANGED <<modTime, stamp, opened, doomed>>
        /\ now < Horizon /\ now' = now + 1
        /\ idle' = idle \cup {d \in Days : modTime[d] # None /\ now' - modTime[d] > MaxAge}
    BY <1>9 DEF Tick
  <2>2. LogTypeOK'
    BY <2>1, LogFilesAssumption DEF LogTypeOK
  <2>3. QED
    BY <1>3, <1>9, <2>1, <2>2 DEF LogTypeOK, LogInv, FilesInv, OldInv, DoomedInv
<1>10. QED
  BY <1>1, <1>2, <1>4, <1>5, <1>6, <1>7, <1>8, <1>9 DEF LogNext

\* The invariant of the log files, over any settings.
LEMMA LogInvariance == LogSpec => [](SettingsInv /\ LogTypeOK /\ LogInv)
<1>1. LogInit => SettingsInv /\ LogTypeOK /\ LogInv
  BY LogInvInit, SettingsInvInit DEF LogInit
<1>2. SettingsInv /\ LogTypeOK /\ LogInv /\ [LogNext]_logSpecVars
      => (SettingsInv /\ LogTypeOK /\ LogInv)'
  BY LogInvStep, SettingsInvStep, LogStepsSettings
<1>3. QED
  BY <1>1, <1>2, PTL DEF LogSpec

\* What is removed was old at some time since it was created, whatever age Load has
\* accepted and whatever is written while the cleaner works its list off
\* (file.go:161-185 against 216-275): a file that gets a line in time is never removed.
THEOREM BusyStay == LogSpec => BusyFilesStay
<1>1. LogTypeOK /\ LogInv /\ [LogNext]_logSpecVars
      => [\A d \in Days : modTime[d] # None /\ modTime'[d] = None => d \in idle]_logSpecVars
  <2> SUFFICES ASSUME LogTypeOK, LogInv, LogNext, NEW d \in Days,
                      modTime[d] # None, modTime'[d] = None
               PROVE  d \in idle
    BY DEF logSpecVars
  <2>1. now # None
    BY LogFilesAssumption DEF LogTypeOK, None
  <2>2. PICK e \in Days : Remove(e)
    <3>1. ~(SettingsNext /\ UNCHANGED logVars)
      BY DEF logVars
    <3>2. \A m \in Messages : ~Stamp(m)
      BY DEF Stamp
    <3>3. \A m \in Messages : ~Open(m)
      <4> SUFFICES ASSUME NEW m \in Messages, Open(m)
                   PROVE  FALSE
        OBVIOUS
      <4> DEFINE day == DayOf(stamp[m])
      <4>1. modTime' = [modTime EXCEPT ![day] = now] \/ modTime' = modTime
        BY DEF Open
      <4> HIDE DEF day
      <4>2. QED
        BY <2>1, <4>1 DEF LogTypeOK
    <3>4. \A m \in Messages : ~AppendLine(m)
      <4> SUFFICES ASSUME NEW m \in Messages, AppendLine(m)
                   PROVE  FALSE
        OBVIOUS
      <4> DEFINE day == DayOf(stamp[m])
      <4>1. modTime' = [modTime EXCEPT ![day] = now] \/ modTime' = modTime
        BY DEF AppendLine
      <4> HIDE DEF day
      <4>2. QED
        BY <2>1, <4>1 DEF LogTypeOK
    <3>5. ~ReadDir /\ ~Tick
      BY DEF ReadDir, Tick
    <3>6. QED
      BY <3>1, <3>2, <3>3, <3>4, <3>5 DEF LogNext
  <2>3. d \in doomed
    BY <2>2 DEF Remove, LogTypeOK
  <2>4. QED
    BY <2>3 DEF LogInv, DoomedInv
<1>2. QED
  BY LogInvariance, <1>1, PTL DEF LogSpec, BusyFilesStay
=============================================================================
