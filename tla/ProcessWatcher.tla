--------------------------- MODULE ProcessWatcher ---------------------------
(***************************************************************************)
(* The process watcher: a list of watched processes that client requests   *)
(* add to and remove from, that a loop every two seconds clears of ended   *)
(* processes (with a notice) and fills with the processes the settings     *)
(* ask for, and that is saved in a state file for the next life of the     *)
(* program.  processListMtx is held over each of the steps below that      *)
(* touches the list, so each of them is one action.  A panic ends the      *)
(* program; it is started again afterwards.                                *)
(*                                                                         *)
(* A process identifier is used once.  The rundown protection is the       *)
(* abstract one of module Rundown.                                         *)
(***************************************************************************)
EXTENDS Integers, FiniteSets, Sequences, Functions

CONSTANTS
  Pids,                 \* the processes, in the order the system lists them
  Parent,               \* the parent of each, 0 for none that matters
  Exe,                  \* the executable of each
  WatchedExe,           \* the executable that the settings ask to watch
  IncludeChilds,        \* and their includeChilds
  Channels,             \* the channels a client can name
  SettingsChannel,      \* the channel of the settings' processes
  Requests,             \* the API requests that can be in progress
  MaxSavers             \* no request comes while more saves are outstanding

ASSUME WatcherAssumption ==
  /\ Pids \subseteq Nat \ {0}
  /\ Parent \in [Pids -> Pids \cup {0}]
  /\ IncludeChilds \in BOOLEAN
  /\ SettingsChannel \in Channels
  /\ IsFiniteSet(Requests)
  /\ MaxSavers \in Nat

VARIABLES
  process,              \* the system's processes: "unborn", "alive" or "ended"
  list,                 \* processList
  file,                 \* the state file
  toLoad,               \* loadedItems: what loadState has still to add
  thread, todo,         \* the thread of Start and Run, and the processes that
                        \* checkForNewProcesses has still to look at
  req, arg,             \* the program point of each request and its arguments
  savers,               \* the goroutines of runSaveState
  refs, rundown,        \* the rundown protection
  stop,                 \* the program point of Stop
  noticed,              \* history: the items whose end was notified
  unsaved               \* history: the list was changed and no save asked for

goVars == <<toLoad, thread, todo, req, arg, savers, refs, rundown, stop>>
vars == <<process, list, file, goVars, noticed, unsaved>>

Items == [pid : Pids, channel : Channels]
Item(p, c) == [pid |-> p, channel |-> c]
NoArg == [op |-> "none"]
Calls == [op : {"add", "remove"}, item : Items]

Starting == {"load", "startDead", "startNew"}
ThreadPoints == Starting \cup {"started", "entered", "wait", "loopNew", "exited", "panic"}
RequestPoints == {"idle", "entered", "inside", "save"}
StopPoints == {"idle", "signalled", "draining", "stopped"}

Alive(p) == process[p] = "alive"
ShuttingDown == stop # "idle"
Running == thread \in {"wait", "loopNew"}

----------------------------------------------------------------------------
\* The last element takes the place of the removed one.
SwapRemove(s, i) ==
  [j \in 1 .. Len(s) - 1 |-> IF j = i THEN s[Len(s)] ELSE s[j]]

\* Mutant: the list is not searched.
AddedAlways(s, item) == IF Alive(item.pid) THEN Append(s, item) ELSE s

\* Mutant: whether the process is there is not asked.
AddedUnseen(s, item) == IF item \notin Range(s) THEN Append(s, item) ELSE s

\* addProcessInternal: an item that is there is left as it is, and a process that
\* is not there is silently not added (its error is assigned to another err).
Added(s, item) ==
  IF item \notin Range(s) /\ Alive(item.pid) THEN Append(s, item) ELSE s

\* Mutant: a process that is not there any more is taken for alive.
NoneDeadIn(s) == {i \in DOMAIN s : process[s[i].pid] = "unborn"}

\* The items whose process has ended, and the last two of them in the list.
DeadIn(s) == {i \in DOMAIN s : ~Alive(s[i].pid)}
LastTwo(S) == {i \in S : Cardinality({j \in S : j > i}) < 2}

----------------------------------------------------------------------------
Volatile(point) ==
  /\ thread' = point
  /\ toLoad' = IF point = "load" THEN file ELSE <<>>
  /\ todo' = {}
  /\ req' = [r \in Requests |-> "idle"]
  /\ arg' = [r \in Requests |-> NoArg]
  /\ savers' = 0
  /\ refs' = 0
  /\ rundown' = FALSE
  /\ stop' = "idle"

Init ==
  /\ process = [p \in Pids |-> "unborn"]
  /\ list = <<>>
  /\ file = <<>>
  /\ toLoad = <<>>
  /\ thread = "load"
  /\ todo = {}
  /\ req = [r \in Requests |-> "idle"]
  /\ arg = [r \in Requests |-> NoArg]
  /\ savers = 0
  /\ refs = 0
  /\ rundown = FALSE
  /\ stop = "idle"
  /\ noticed = {}
  /\ unsaved = FALSE

\* loadState: what is still alive is watched again; of the rest nothing is said,
\* because addProcessInternal never returns errProcessNotFound.
LoadItem ==
  /\ thread = "load"
  /\ toLoad # <<>>
  /\ list' = Added(list, Head(toLoad))
  /\ toLoad' = Tail(toLoad)
  /\ UNCHANGED <<process, file, thread, todo, req, arg, savers, refs, rundown, stop,
                 noticed, unsaved>>

EndLoad ==
  /\ thread = "load"
  /\ toLoad = <<>>
  /\ thread' = "startDead"
  /\ unsaved' = (list # file)
  /\ UNCHANGED <<process, list, file, toLoad, todo, req, arg, savers, refs, rundown,
                 stop, noticed>>

\* checkForDeadProcesses goes down the list and keeps its length from before the
\* first removal: a second ended process is notified and then indexes the list
\* past its end.
CheckForDeadProcesses(from, to) ==
  LET dead == DeadIn(list) IN
  /\ thread = from
  /\ noticed' = noticed \cup {list[i] : i \in LastTwo(dead)}
  /\ \/ /\ \A i, j \in dead : i = j
        /\ \/ dead = {} /\ list' = list
           \/ \E i \in dead : list' = SwapRemove(list, i)
        /\ unsaved' = (unsaved \/ dead # {})
        /\ thread' = to
        /\ todo' = {p \in Pids : Alive(p)}
        /\ UNCHANGED <<toLoad, req, arg, savers, refs, rundown, stop>>
     \/ /\ \E i, j \in dead : i # j
        /\ list' = <<>>
        /\ unsaved' = FALSE
        /\ Volatile("panic")
  /\ UNCHANGED <<process, file>>

\* With includeChilds a process is left out when its parent or grandparent runs
\* the same executable.
SameAbove(p) ==
  LET up == Parent[p]
      Same(q) == q # 0 /\ Alive(q) /\ Exe[q] = Exe[p]
  IN  Same(up) \/ (up # 0 /\ Alive(up) /\ Same(Parent[up]))

\* Mutant: forks are left out when includeChilds is not set.
WantedWithoutForks(p) == Exe[p] = WatchedExe /\ ~(~IncludeChilds /\ SameAbove(p))

Wanted(p) == Exe[p] = WatchedExe /\ ~(IncludeChilds /\ SameAbove(p))

\* checkForNewProcesses looks at one process of its snapshot after the other; one
\* that has ended by then has no executable any more.
CheckNewProcess(point, p) ==
  /\ thread = point
  /\ p \in todo
  /\ \A q \in todo : p <= q
  /\ todo' = todo \ {p}
  /\ list' = IF Alive(p) /\ Wanted(p) THEN Added(list, Item(p, SettingsChannel))
             ELSE list
  /\ unsaved' = (unsaved \/ list' # list)
  /\ UNCHANGED <<process, file, toLoad, thread, req, arg, savers, refs, rundown, stop,
                 noticed>>

EndNewProcesses(from, to) ==
  /\ thread = from
  /\ todo = {}
  /\ thread' = to
  /\ UNCHANGED <<process, list, file, toLoad, todo, req, arg, savers, refs, rundown,
                 stop, noticed, unsaved>>

Start ==
  \/ LoadItem
  \/ EndLoad
  \/ CheckForDeadProcesses("startDead", "startNew")
  \/ \E p \in Pids : CheckNewProcess("startNew", p)
  \/ EndNewProcesses("startNew", "started")

----------------------------------------------------------------------------
RunEnter ==
  /\ thread = "started"
  /\ ~ShuttingDown
  /\ thread' = "entered"
  /\ UNCHANGED <<process, list, file, toLoad, todo, req, arg, savers, refs, rundown,
                 stop, noticed, unsaved>>

RunAcquire ==
  /\ thread = "entered"
  /\ thread' = IF rundown THEN "exited" ELSE "wait"
  /\ refs' = IF rundown THEN refs ELSE refs + 1
  /\ UNCHANGED <<process, list, file, toLoad, todo, req, arg, savers, rundown, stop,
                 noticed, unsaved>>

LoopShutdown ==
  /\ thread = "wait"
  /\ ShuttingDown
  /\ thread' = "exited"
  /\ refs' = refs - 1
  /\ UNCHANGED <<process, list, file, toLoad, todo, req, arg, savers, rundown, stop,
                 noticed, unsaved>>

\* The two seconds are over.
LoopTimer ==
  \/ CheckForDeadProcesses("wait", "loopNew")
  \/ \E p \in Pids : CheckNewProcess("loopNew", p)
  \/ EndNewProcesses("loopNew", "wait")

----------------------------------------------------------------------------
\* The handlers of /process/watch and /process/unwatch, through AddProcess and
\* RemoveProcess: the module is read ...
RequestEnter(r) ==
  /\ thread \notin Starting \cup {"panic"}
  /\ req[r] = "idle"
  /\ ~ShuttingDown
  /\ savers < MaxSavers
  /\ req' = [req EXCEPT ![r] = "entered"]
  /\ \E call \in Calls : arg' = [arg EXCEPT ![r] = call]
  /\ UNCHANGED <<process, list, file, toLoad, thread, todo, savers, refs, rundown, stop,
                 noticed, unsaved>>

\* ... a reference is taken; without one the request is answered all the same ...
RequestAcquire(r) ==
  /\ req[r] = "entered"
  /\ \/ /\ ~rundown
        /\ req' = [req EXCEPT ![r] = "inside"]
        /\ refs' = refs + 1
        /\ UNCHANGED arg
     \/ /\ rundown
        /\ req' = [req EXCEPT ![r] = "idle"]
        /\ arg' = [arg EXCEPT ![r] = NoArg]
        /\ UNCHANGED refs
  /\ UNCHANGED <<process, list, file, toLoad, thread, todo, savers, rundown, stop,
                 noticed, unsaved>>

\* Mutant: no save is asked for.
AddProcessUnsaved(r) ==
  /\ req[r] = "inside"
  /\ arg[r].op = "add"
  /\ list' = Added(list, arg[r].item)
  /\ req' = [req EXCEPT ![r] = "idle"]
  /\ arg' = [arg EXCEPT ![r] = NoArg]
  /\ refs' = refs - 1
  /\ UNCHANGED <<process, file, toLoad, thread, todo, savers, rundown, stop, noticed,
                 unsaved>>

\* ... the list is changed under the mutex ...
AddProcess(r) ==
  /\ req[r] = "inside"
  /\ arg[r].op = "add"
  /\ list' = Added(list, arg[r].item)
  /\ req' = [req EXCEPT ![r] = "save"]
  /\ UNCHANGED <<process, file, toLoad, thread, todo, arg, savers, refs, rundown, stop,
                 noticed, unsaved>>

\* Mutant: a process that is not found returns early, without the Release.
RemoveProcessLeaks(r) ==
  /\ req[r] = "inside"
  /\ arg[r].op = "remove"
  /\ \/ \E i \in DOMAIN list :
          /\ list[i] = arg[r].item
          /\ list' = SwapRemove(list, i)
          /\ req' = [req EXCEPT ![r] = "save"]
          /\ UNCHANGED arg
     \/ /\ arg[r].item \notin Range(list)
        /\ req' = [req EXCEPT ![r] = "idle"]
        /\ arg' = [arg EXCEPT ![r] = NoArg]
        /\ UNCHANGED list
  /\ UNCHANGED <<process, file, toLoad, thread, todo, savers, refs, rundown, stop,
                 noticed, unsaved>>

RemoveProcess(r) ==
  /\ req[r] = "inside"
  /\ arg[r].op = "remove"
  /\ \/ \E i \in DOMAIN list :
          /\ list[i] = arg[r].item
          /\ list' = SwapRemove(list, i)
          /\ req' = [req EXCEPT ![r] = "save"]
          /\ UNCHANGED <<arg, refs>>
     \/ /\ arg[r].item \notin Range(list)
        /\ req' = [req EXCEPT ![r] = "idle"]
        /\ arg' = [arg EXCEPT ![r] = NoArg]
        /\ refs' = refs - 1
        /\ UNCHANGED list
  /\ UNCHANGED <<process, file, toLoad, thread, todo, savers, rundown, stop, noticed,
                 unsaved>>

\* ... and runSaveState is called, which a rundown refuses, before the reference
\* is given back.
RequestSave(r) ==
  /\ req[r] = "save"
  /\ req' = [req EXCEPT ![r] = "idle"]
  /\ arg' = [arg EXCEPT ![r] = NoArg]
  /\ \/ /\ ~rundown
        /\ savers' = savers + 1
        /\ UNCHANGED <<refs, unsaved>>  \* one taken by the save, one given back
     \/ /\ rundown
        /\ refs' = refs - 1
        /\ unsaved' = TRUE
        /\ UNCHANGED savers
  /\ UNCHANGED <<process, list, file, toLoad, thread, todo, rundown, stop, noticed>>

\* A goroutine of runSaveState: it saves under the mutex what the list is by then.
SaveState ==
  /\ savers > 0
  /\ savers' = savers - 1
  /\ refs' = refs - 1
  /\ file' = list
  /\ unsaved' = FALSE
  /\ UNCHANGED <<process, list, toLoad, thread, todo, req, arg, rundown, stop, noticed>>

----------------------------------------------------------------------------
StopSignal ==
  /\ thread \notin Starting \cup {"panic"}
  /\ stop = "idle"
  /\ stop' = "signalled"
  /\ UNCHANGED <<process, list, file, toLoad, thread, todo, req, arg, savers, refs,
                 rundown, noticed, unsaved>>

StopRundown ==
  /\ stop = "signalled"
  /\ rundown' = TRUE
  /\ stop' = "draining"
  /\ UNCHANGED <<process, list, file, toLoad, thread, todo, req, arg, savers, refs,
                 noticed, unsaved>>

StopDrained ==
  /\ stop = "draining"
  /\ refs = 0
  /\ stop' = "stopped"
  /\ UNCHANGED <<process, list, file, toLoad, thread, todo, req, arg, savers, refs,
                 rundown, noticed, unsaved>>

Stop == StopSignal \/ StopRundown \/ StopDrained

\* The program is started again, after a Stop or a panic.
Restart ==
  /\ stop = "stopped" \/ thread = "panic"
  /\ list' = <<>>
  /\ Volatile("load")
  /\ unsaved' = FALSE
  /\ UNCHANGED <<process, file, noticed>>

----------------------------------------------------------------------------
\* The system: processes come, after their parents, and go.
Launch(p) ==
  /\ process[p] = "unborn"
  /\ Parent[p] # 0 => Alive(Parent[p])
  /\ process' = [process EXCEPT ![p] = "alive"]
  /\ UNCHANGED <<list, file, goVars, noticed, unsaved>>

Exit(p) ==
  /\ Alive(p)
  /\ process' = [process EXCEPT ![p] = "ended"]
  /\ UNCHANGED <<list, file, goVars, noticed, unsaved>>

Request(r) ==
  RequestAcquire(r) \/ AddProcess(r) \/ RemoveProcess(r) \/ RequestSave(r)
Loop == RunEnter \/ RunAcquire \/ LoopShutdown \/ LoopTimer

Step ==
  \/ Start
  \/ Loop
  \/ \E r \in Requests : RequestEnter(r) \/ Request(r)
  \/ SaveState
  \/ Stop
  \/ \E p \in Pids : Launch(p) \/ Exit(p)

Next == Step \/ Restart

Spec == Init /\ [][Next]_vars

\* Every thread of the program that can go on goes on; clients, the user and the
\* system's processes do as they like.
FairSpec ==
  /\ Spec
  /\ WF_vars(Start)
  /\ WF_vars(RunEnter \/ RunAcquire)
  /\ SF_vars(LoopShutdown)
  /\ WF_vars(LoopTimer)
  /\ \A r \in Requests : WF_vars(Request(r))
  /\ WF_vars(SaveState)
  /\ WF_vars(StopRundown \/ StopDrained)

----------------------------------------------------------------------------
TypeOK ==
  /\ process \in [Pids -> {"unborn", "alive", "ended"}]
  /\ {list, file, toLoad} \subseteq Seq(Items)
  /\ thread \in ThreadPoints
  /\ todo \subseteq Pids
  /\ req \in [Requests -> RequestPoints]
  /\ arg \in [Requests -> Calls \cup {NoArg}]
  /\ savers \in Nat
  /\ refs \in Nat
  /\ rundown \in BOOLEAN
  /\ stop \in StopPoints
  /\ noticed \subseteq Items
  /\ unsaved \in BOOLEAN

\* No process is watched twice for a channel, however requests, the settings and
\* the state file add it (addProcessInternal's search under the mutex).
WatchedOnce == \A i, j \in DOMAIN list : list[i] = list[j] => i = j

\* The references are those of the loop, of the requests that got one and of the
\* saves; Stop returns with none of them left.
RefsAreExact ==
  refs = savers + (IF Running THEN 1 ELSE 0)
                + Cardinality({r \in Requests : req[r] \in {"inside", "save"}})

\* The file holds the list whenever no save is on its way, but for the changes
\* that nobody asks a save for: those of the loop, and of a request that the
\* rundown overtakes.  Saves may run in any order (runSaveState).
FileFollowsList ==
  (savers = 0 /\ ~unsaved /\ \A r \in Requests : req[r] # "save")
     => thread \in {"load", "panic"} \/ file = list

\* The end of a process is notified once for each item, also over restarts: what
\* was notified is never on the list again, neither from a request, nor from the
\* settings, nor from a state file that still names it.
NoticedIsGone == Range(list) \cap noticed = {}

\* A watched process that ends is notified, unless a client takes it off first or
\* the program stops or panics (the loop of Run, checkForDeadProcesses).
EndIsNoticed ==
  \A item \in Items :
    (item \in Range(list) /\ process[item.pid] = "ended")
       ~> (item \in noticed \/ item \notin Range(list) \/ ShuttingDown)

\* A process that the settings ask for is watched some time, unless it ends or
\* the program stops or panics (checkForNewProcesses).  It holds without
\* includeChilds; with it the code leaves the forks out.
MatchingIsWatched ==
  \A p \in Pids :
    (Alive(p) /\ Exe[p] = WatchedExe)
       ~> \/ Item(p, SettingsChannel) \in Range(list)
          \/ ~Alive(p)
          \/ ShuttingDown
          \/ thread = "panic"
=============================================================================
