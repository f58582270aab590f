# A specification of server-watchdog

server-watchdog is a service that watches processes, free disk space, web sites
and TCP ports, delivers messages of client applications, and notifies by file,
Slack and e-mail.  This directory specifies it in TLA+:  the modules below are
translated from the Go source, model-checked with TLC on small instances, and
the safety properties that the runs check are proved with TLAPS for every value of
the constants.

Paths are relative to the repository (`src/` is its root, so the program's own
code is below `src/src/`).  Line numbers are in `PROJECT.json`, `map`.

## 1. The system

| part | state | operations | works with |
|---|---|---|---|
| rundown protection (`vendor/.../rundown-protection.go`) | one 32-bit word (flag + count), a channel of one | `Acquire`, `Release`, `Wait` | guards every module below |
| free disk space checker | devices with their timers, `LastCheckStatus`, `CheckInProgress`; `checkDone`; a state file | `Start`, `Run` (loop), `checkDevices`, `runSaveState`, `Stop` | logger, state files |
| web checker | the same for sites, with the contents seen last | the same | the same |
| TCP ports checker | the same for groups of ports, with a set of open ports under a mutex | the same | the same |
| process watcher | `processList` under a mutex; a state file | `Start`, `Run` (loop), `AddProcess`, `RemoveProcess`, two scans, `runSaveState`, `Stop` | API handlers, logger, state files, the system's processes |
| server and graceful listener | a count of connections, a flag, channels | `Create`, `Wait`, `Stop`; `Accept`, `Close` | fasthttp, backend |
| backend and handlers | the pointer to the server | `Start`, `Run`, `Stop`; the routes | server, process watcher, logger |
| logger (file, Slack, e-mail) | shutdown channels, wait groups, open files | `Start`, `Run`, `Stop`, `Log` | called by all |
| state files | a file for each module | `LoadStateBlob`, `SaveStateBlob` | called by the four watchers |
| settings and string parser | constants after `Load` | `Load`, validators, parsers | read by all |
| console, command line, `guid` | none that matters | output, one file name, nothing | - |
| program (`main.go`) | a wait group | `Start`, `run`, `Stop`, `shutdown` | starts, runs and stops the modules in order |

How they interact.  `main.go` starts the modules one after the other, runs them
from another goroutine, and stops them so that the logger goes last, also when a
start has failed.  Each module keeps a global pointer under a
read-write lock:  `Stop` takes the pointer away, closes `shutdownSignal` and
waits in the rundown protection for everybody who acquired it.  A watcher runs
one loop goroutine.  The checkers start a goroutine for each check and two more
for saving and notifying, and those talk to the loop through the unbuffered
channel `checkDone`.  Requests of clients enter the process watcher from
goroutines of fasthttp.  All notices go to the logger, from goroutines that hold a
reference of their watcher, or from a request, which holds none.

What is hard in it.  Lock-free counting in the rundown protection and in the
listener.  State that the loop reads, waits on and uses later.  Goroutines that
save, in no order.  `Stop` at any point of any of them.  A restart that begins
from whatever file was written last.  A logger that others still use while it is
stopped, and a `Stop` that waits for a goroutine which may not run.  `PROJECT.json`, `hazards`, lists each such
place with the property that covers it.

What makes each part correct.

* Rundown protection: `Wait` returns when, and only when, every reference is given
  back; `Release` never blocks.
* Checkers: a device is checked by one goroutine at a time, not before its
  period is over, and for ever; a fall of its status is told once; `Stop`
  returns and leaves no goroutine behind.
* Process watcher: no process is watched twice or forgotten, each end is
  notified once, the state file follows the list.
* Server: `Close` waits for the connections, there is one outcome, `Wait` returns.
* Logger and program: who notifies finds a logger; no notice of a watcher is lost by
  an orderly stop, and nothing is left behind; `Stop` returns.
* Log files: a file that lines are written to is not deleted, and old ones are.
* State files: an orderly stop never leaves half of a save.
* Settings: what is accepted is what the modules rest on, and a parser yields what the
  text says.

## 2. The modules

```
Rundown  <-- refined by --  RundownProtection
         <-- refined, up to restarts, by --  PeriodicChecker
PeriodicChecker  <-- extended by --  FreeDiskSpaceChecker
                                     WebChecker
                                     TcpPortsChecker
ProcessWatcher
GracefulListener  <-- extended by --  Server
Program     composes all of them, as far as the others see them
Settings  <-- extended by --  LogFiles    (the file output of the logger)
```

Each component that runs goroutines of its own is a module, because each keeps its
state behind its own pointer, rundown protection and lock.  `Program` is where they
meet.  `MCxxx` gives the constants of `xxx` values for TLC and `xxxProofs` holds the
theorems.  An operator that is marked "Mutant" is a plausible bug; no
specification uses it.  Each property fails when its mutant takes the place of
the correct definition (`PROJECT.json`, `mutants`).

**Rundown** is the promise: a set of holders, a flag, and whether the rundown is
over, which it may be as soon as it begins if nobody holds a reference.
**RundownProtection** is the code: a step for each load, compare-and-swap
and channel operation.  An element of `Calls` is one `Acquire` with its `Release`.
`RundownActive` is the flag bit, 2^31 in the code.  The subtraction of `Release`
wraps as in the code (`OneLess`), although no reachable state makes it do so.

**PeriodicChecker** is the code that the three checkers share line by line;
variables and actions are named after the free disk space checker.  `loop`, `idx`,
`timeToWait`, `elapsed` are the locals of the loop of `Run`; `next` and `inProgress`
are `NextCheckPeriod` and `CheckInProgress`; `pc` and `dev` are the goroutines;
`refs` and `rundown` are the rundown protection, each operation one step, which
the refinement of `Rundown` by RundownProtection justifies; `UsesRundown` says that
the loop, the checks and `Stop` are in turn a behaviour of `Rundown` (a restart makes
a new one), so that the two models fit together.  `stop` is the program point of
`Stop`.
The scan and the visit go device by device, because the checks clear
`inProgress` in between.  Time passes in steps of one at any point where
goroutines are not overdue (see `MaxBacklog`).  Two orders are simplified where
nobody can see it: the compare-and-swap of a device that is not due and the
store that undoes it are one step (no other goroutine acts on a device that is
not in progress), and `close(shutdownSignal)` is one step with the removal of the
pointer.  `Restart` stands for the end of the program and the next `Start`.

**FreeDiskSpaceChecker** adds what the goroutines do: `Measure` (the status is
swapped), `StartSave`, `StartNotify`, `EndCheck`, and of the saving goroutine
`Collect` (device by device) and `WriteFile`.  `told`, `overlap` and
`restarted` are history variables.  `HashCode` is constant, because that is what
the code computes: `h.Sum(b)` appends the hash to `b` and writes nothing.

**WebChecker** has the same goroutines.  A page is what the groups of each regular
expression captured; `Changed` and `Walked` are the two nested loops that compare
it with `last` (`LastContent`), which end at the first item that changed and, in an
item, at the first group that did not.  The status is 0 (down), -1 (stalled) or
1 (live); -1 is saved as live.  The fetch and the comparison are one step
(`Measure`): nobody else touches what a check compares.  `told` and `stayed` are
history: what this life of the program owes the user ("owed" from the fall of a live
site to its notice), and how often in a row the site showed one page (`Still`, any on
which every item matches).  A restart forgets both: a site that is loaded as down is
told of in no life, whether or not an earlier one came to tell it.

**TcpPortsChecker** dials all ports in one step, since the answers are only used when
the last one is in, and takes the lock of the group and compares in two further
steps (`LockStatus`, `Compare`), because what a saving goroutine copies in between
matters: `CopyItem` is the copy that `range` makes of a group, `Collect` the section
under the lock of the copy.  `SavedPorts` is what the index that never moves leaves
of a group.  `answered` and `lost` are history.  That a save reads the bitmap while a
check changes it is a data race; what it reads makes no difference (both branches
write true), and a panic inside the bitmap is left out.

**ProcessWatcher** has one action for each section that `processListMtx` protects.
`process` is the system's process table; processes start and end at any time.
`checkForDeadProcesses` asks for every process in one step: it asks one after the
other, but a process that ends after it was asked is one that ends after the step.
`checkForNewProcesses` looks at one process of its snapshot after the other.
An item is a process identifier and a channel; names and severities make no
difference to the list.  A panic ends the program, which is started again.

**GracefulListener** has a step for each atomic operation of `Accept` and of both
`Close`s, and `close(done)` on a closed channel is a panic.  The `Close` of a
connection and that of the inner listener may fail: then the connection stays counted
("stuck"), and the listener sets no flag and waits for nobody ("failed").  `raced` is
history: whether the code was in one of its two races when the listener was closed.
**Server** adds the
two goroutines of `Create`, `Stop`, `Wait` and the two calls of the backend.
fasthttp is there as far as `Serve` ends: it takes a closed listener for the end
of the input and returns no error, and it returns any other error.  The channels of
capacity one are values: what they hold, or nothing.

**Program** is `main.go` with everything it calls.  `phase` and `at` are where
`Start` or `shutdown` is in its sequence of calls, `waiting` that it has signalled a
module and waits for it; `runner` is the goroutine of `run`, which may still be on
its way when the stop begins.  `up` are the global pointers, `loop` the goroutines
of each `Run`; those of the three outputs read the pointer again when they are
first scheduled ("ready").  A watcher is here as far as the others see it: its
loop, its notices (`call`, `from`) and its saves (`writing`) hold the rundown
protection that its `Stop` waits for (`Quiet`).  A notice goes through file, Slack
and e-mail (`Log`), each of which counts it in its wait group and delivers it from
a goroutine; Slack may refuse any number of times.  `PostNotify` is a notice of a
client, which holds nothing.  `torn` are the state files that hold a part of a
save (`SaveStateBlob` writes in place and its errors are lost), `spoilt` is
history.  `Restart` is a kill at any point, or the next start.

What `Program` simplifies:  a watcher's `Stop` takes the pointer away and begins the
rundown in one step (in between nobody but a goroutine that read the pointer
before can enter, and that one is refused or waited for: ProcessWatcher and
PeriodicChecker have the two steps); an output reads its pointer and counts the call
in one step; the end of the wait and the removal of the pointer are one step; two
saves of one module at a time are one; the goroutine that waits for the server
ends with its `Stop` only, and its failures are in Server.  What a torn file does
to the next start is the choice in `StartFails`.

**LogFiles** is the file output under the settings that were loaded, whatever age they
give to `MaxAge`.  A message is stamped by its caller (`Stamp`) and
written later by its own goroutine (`Open`, `AppendLine`) to the file of the day of its
stamp; the cleaner lists what is older than `MaxAge` (`ReadDir`) and then removes
it (`Remove`), and meanwhile files are written to.  A file is the time of its last
write.  A file that is removed while it is open lives on for those who have it open
(`orphans`) and what they write is lost; this is POSIX, other systems refuse to remove it.
`getActiveLogFile` returns the address of a copy, so no open file is ever
found there and every message opens its own: the two locks order nothing, and
the model has none.  `idle` is history.

**Settings** is `Load`, a step per section.  What is read is chosen from small sets; a
section that finds it wrong ends in "refused".  A duration or an amount is a
sequence of parts (a number, a unit, whether a blank comes first), a list of ports
a sequence of groups.  Blanks are refused, because `SkipSpaces` counts in a
variable that hides the one it returns.  Durations are added with the width of
the code (`Wrap`).  URLs, addresses and expressions are a verdict.  One run reads one
item, since an item depends on nothing but itself and the channels.

## 3. The runs

| run | instance | shows |
|---|---|---|
| `rundown` | 3 calls, flag 8 | the counter is exact; no wake-up is lost; `Wait` returns; `Rundown` is implemented |
| `periodic_checker` | 2 devices, periods 1 and 2, 3 goroutines, restarts | one check per device, spaced by the period, for ever; exact references; nothing left when `checkDone` is closed; `Rundown` is used as it promises; `Stop` returns |
| `free_disk_space` | 1 device without a period, 4 goroutines, restarts | in the first life a fall is told once, and only a stop loses it; what was told is saved |
| `web_checker` | 1 site, 2 content items, 3 goroutines, restarts | no fall of a live site goes untold within a life of the program; a page that stays the same is held for stalled in the end |
| `tcp_ports` | 1 group of 2 ports, 3 goroutines, restarts | a port that drops is told whatever the other does, also beside a save that hangs |
| `process_watcher` | a process and its fork, 1 request at a time, 2 saves, restarts | no duplicate, exact references, file and list agree, no end told twice, every end noticed, every match watched |
| `server` | 3 connections | `Close` waits for every connection, outside two races of the code; one outcome, no false error, `Wait` returns |
| `program` | 1 notice, the process watcher, all 3 outputs, restarts | notices of watchers find the logger and are delivered; nothing left behind; no save cut short by a stop; no panic before a stop; a stop ends |
| `log_files` | a duration of 5 bits, units of 1, 2 and 4, ports up to 3; 2 messages, 3 days of 4 units, ages of 2 and 6 | accepted settings are usable and durations are what the text says; a file that gets lines in time stays, old ones go |
| `start_hangs` | no watcher has anything to watch | **violated**: a start that fails never returns |
| `tcp_ports_stop` | 1 group, 2 goroutines | **violated**: `Stop` waits for ever for a save that hangs on a copied lock |
| `young_log_goes` | as `log_files` | **violated**: a log file is removed right after a message was written to it |

The type invariants of the modules are proved (section 5) and not run again; every
step of every run was checked against them while they were written.

### Bounds

* `rundown`: three calls are what it takes for one to lose a compare-and-swap to
  a second while the third releases.  The flag must be greater than the number of
  calls (`CallsAssumption`); its size is of no other importance, and the
  theorems hold for any.
* `periodic_checker`: with the periods 1 and 2 a timer of one device interrupts
  that of the other, and the end of a check comes at every time in between.
  `Horizon` = 2 is where clocks stop counting (no period is longer).  Three
  goroutines: one per device and one still signalling, or one that saves
  (`MaxChildren` = 1; more of them are the subject of the next run).  `MaxBacklog`
  = 0 lets no time pass while an ended check is not received; everybody else may
  still take any number of steps before it is received.
* `free_disk_space`: without a period (the default is -1) the next check begins as
  soon as the last one ends, which gives most overlaps.  Up to three goroutines
  that save or notify besides the check.
* `web_checker`: the settings give every site a period (ten seconds at least), here
  1.  Two content items, one that compares two groups, are what it takes for a
  check to end in the first item, within it, or in the second.  Two values, one of
  them the empty string that `LastContent` starts with.  The page `Still` has none of
  it; the proof is for any page.
* `tcp_ports`: two ports, so that one drops while the other rises or stays.  Two
  goroutines besides the check let a save hang while the next checks go on.  One
  group suffices for the copied lock: the save of one check meets the next one.
* `process_watcher`: `MaxSavers` holds requests back while two saves are
  outstanding, so that two can run in either order.  Two processes suffice for a
  removal that moves the last item, and for the panic.  One request at a time in
  the run with restarts; requests interleave with the loop, saves and `Stop`.
* `server`: three connections are enough for one in each stage of its `Close`, for one
  whose `Close` fails beside others, and for the two races.
* `program`: one notice goes through all outputs beside every step of start, run and
  stop; notices do not meet each other, and the theorems hold for any number.
  The process watcher is the last watcher to be stopped and the only one that
  clients reach.  All outputs are on, so that every delivery happens.  There is
  no bound on lives.
* `start_hangs`: nothing to watch and no notice, since the start hangs without them.
* `log_files`: a duration has five bits instead of 64, with the units and least values
  scaled along: there are texts just below, at and above each limit, and sums that
  wrap, seen and unseen.  Lists of ports have one or two groups, with and without a range.
  For every text the settings are loaded; the log files are then looked at for two of
  them (`Probed`), the least age, which is half a day here, and the default, a day and a
  half, and a run without other items.  `MaxDelay` lets a message be written
  on the day after its stamp.  Three days are more than a file lives.
* `young_log_goes`: the same instance.

### Fairness

Goroutines that can go on go on (weak fairness).  The `select` of Go chooses
among the ready cases at random, so a case that is ready again and again is taken
some time: strong fairness for `WaitTimer`, `WaitCheckDone`, `WaitShutdown` and
`LoopShutdown`.  A measurement ends, because the operating system answers.  Time
passes.  In `periodic_checker` a goroutine that saves or notifies ends, too; that
`StopReturns` rests on it is what `tcp_ports_stop` shows, where that goroutine is in
the model and one step of it may never be possible.  Nobody has to call `Stop`, to open or close a connection, to start a
process or to start the program again; `Serve` hears of a closed listener, but
need not fail by itself.  `Wait` of the server is not fair to clients: the
listener has a time limit, which may come at any time.

In `program` main and the goroutines go on; disks and mail servers answer some time
(`smtp` has no time limit, so this is assumed and not given); Slack answers within the
ten seconds of its client, but may refuse for ever, so nothing but the stop ends a
delivery: `SlackCancels` is strongly fair, because the channel that the stop closed
is ready at each `select` while the timer is not.  The manager of the server hears
of its `Stop` (`ListenerCloses`).  Nobody has to ask for a stop.  In `log_files` the
cleaner wakes up every five minutes and works off what it found; nobody has to log.

`CHECK_DEADLOCK FALSE` stands where the system really stops: after `Wait` of the
rundown protection, after the server is down, when the settings are loaded, when
the last start has hung or ended, and at the last point in time of `log_files`.

## 4. Where code and text differ

Three runs end in a violation:

1. `start_hangs`: `email.go:42` (and `file.go:85`): `Stop` hands a signal to the goroutine
   of `Run`.  After a failed start there is none, so `Start` of the service never
   returns.  (A stop that is asked for may come before `run` has started that
   goroutine; it waits for it and ends: `StopReturns` of `program`.)
2. `tcp_ports_stop`: `tcpports/storage.go:65-72`: a save copies a mutex with the item it
   belongs to; a copy of a locked one is locked for ever, and `Stop` waits for the save.
3. `young_log_goes`: `file.go:173`: the cleaner removes by the age at the listing, and
   `settings.go:84` accepts an age of ten minutes: a file of today that was quiet for so long
   is removed although a message has just been written to it, or has it open.
   (`BusyFilesStay` of `log_files` is what does hold: a file that was not quiet for
   the age stays, whatever the age.)

The other divergences are in the models as the code has them and need no run to be
seen; `PROJECT.json`, `findings`, quotes the text that each one contradicts:

* `server.go:116`, `handlers.go:58`: a request that is still being handled when the logger is
  gone goes through a nil pointer, and the program panics while it stops.  The
  same for the goroutine of Slack's `Run` if it is first scheduled then
  (`slack.go:64`).  `PanicOnlyWhenStopping` says when this cannot happen.
* `freediskspacechecker.go:53-56` (and `webchecker.go:63-75`, `tcpports.go:58-62`): the hash is
  never fed, so all items have one HashCode and take the saved status of the first.
* `processwatcher.go:226-244`: two processes that end within one round are a panic.
* `processwatcher.go:203`: the error of a process that does not exist is lost, so an end
  while the program was down is not noticed.
* `processwatcher.go:327-359`: `includeChilds` leaves the forks of a process *out*.
* `listener.go:105-107`: a count that is stale by the time the flag is read ends the wait
  for the connections too soon; so does a connection that is accepted and not yet
  counted (56).  `CloseWaits` exempts these two and nothing else.  Both sides can close `done`, which is a panic (the
  model has it, as `panic`).
* `webchecker.go:274-291`: a site without content items is held for stalled whenever it
  answers, and a stalled site goes down without a notice.
* `webchecker.go:287-303` (and `freediskspacechecker.go:197-212`): the status is saved before the
  notice is sent; a `Stop` in between saves the fall and refuses the notice, and the next
  life starts from the fallen status and never tells.  With the constant hash, the
  saved status of another site does the same.
* `webchecker.go:261`: the first group that is unchanged ends the comparison of an item,
  so that new content in a later group alone is not seen and the site is held for stalled.
* `settings.go:617`: a range of ports yields its first port alone.
* `settings.go:471`: a part that overflows by enough is not seen as a rollover.
* `settings.go:101`: only a channel name of exactly 32 characters is too long.
* `settings.go:157`, `253`: the `default` channel is not asked for, and the optional address
  and ports of a group are.
* `email.go:150`: without SSL the server is dialled without a port, which fails.

Further oddities that no text speaks about: a body that cannot be read counts as a
change (`webchecker.go:235`); the saved ports of a group are only its last one
(`tcpports/storage.go:71`); an error of reading or writing a state file is lost in a second
`err` (`state/storage.go:34`, `61`), so a file that could not be written is neither reported nor
removed; blanks within a duration are refused (`parser.go:15`); a wait group is handed over by
value (`main.go:89`).

## 5. The proofs

`tlapm` checks the eight `*Proofs.tla` without an unproved obligation.  They assume no
more than the named assumptions on the constants: a finite set of calls that is
smaller than the flag; finite sets of goroutines, requests and connections; periods
between -1 and the horizon; ports and contents that `Load` accepts; least values of the
settings that a `time.Duration` can hold.

**RundownProtection.**  The properties are not inductive: that the word is exact
does not survive a compare-and-swap unless one knows which calls hold a reference.
`IInv` says that the word is the number of holders plus the flag once `Wait` has
set it, that the token was produced exactly when `Wait` went to receive with no
holder left, and that there is one at most, in the channel or on its way.  Every
compare-and-swap that succeeds changes the word and the set of holders alike; the
cardinality lemmas of FiniteSetTheorems do the counting.  The refinement to
`Rundown` follows: `AcquireCAS` that succeeds is `Enter`, `ReleaseCAS` is `Leave`,
`WaitCAS` is `Begin`, `WaitReceive` is `End`, and everything else stutters.

**PeriodicChecker.**  `IInv` joins the types, the references (the alive goroutines
and the loop), the goroutine that each raised `inProgress` belongs to, what a
`Stop` has reached, and the ages: the time since the last check of a device began
is at least its period less what is left of its timer, less what the loop has
already waited or is about to hand out.  The last part is what makes `CheckSpacing`
hold, and it is why the loop may be interrupted by the end of any other check.

`Protected` is the refinement of `Rundown`: the holders are the goroutines alive and
the loop while it runs (`Holders`), the flag is `rundown`, and the rundown is over when
`Stop` is ("stopped").  `RunAcquire`, the start of a check (`VisitDue`) and of a child
(`Spawn`) are `Enter`; `Release`, the end of a child and the last step of the loop are
`Leave`; `StopRundown` is `Begin`, `StopDrained` is `End`.  That `StopDrained` finds no
holder is `RefsAreExact`, the cardinality of `Holders` being `refs`.

**The three checkers.**  Their steps are written as steps of the scheduler with what they
add, so a short lemma (`Implements`) is all it takes for `IInv` above to hold of each of
them, and with it that only one goroutine checks an item.  `KeepsSchedule` states for each what it inherits: one
check per device, none too early, nobody left at the close of `checkDone`, and the
rundown as promised.  Then each has an account of its notices:

* FreeDiskSpaceChecker: a status 0 in the first life means that the user was told,
  that a goroutine is about to tell, or that the module is stopping
  (`NoticeOwed`).  From it follow `LowSpaceIsTold` and `NotifyOncePerDrop`.
  `ToldIsSaved` is about every life and the content of the file: with one device,
  and as long as no two saves overlapped, a report that was made, or is about to be,
  is in the file, or a goroutine is on its way to write it and has collected nothing
  else (`ReportIsKept`, in `SaveInv`).  It survives a restart because `loadState` then
  gives the device the status 0 that was saved (`LoadsLow`).
* WebChecker: a fall that is owed means that the goroutine which saw the site live
  before is about to tell, or that the module is
  stopping; this gives `FailureIsTold`, for each life of the program by itself.
  `SameIsStalled` counts the content items whose first compared group is not yet
  remembered as that of the page `Still` (`Left`): they are all that a comparison with
  that page can find changed, and while the page stays each check that holds the site for
  live leaves one less (`StillCounted`).
* TcpPortsChecker: what answered last is in the set of open ports, unless the check
  that got the answers is about to compare them (`AnswersAreKnown`), and a check
  that has lost a port sees the drop in one of its further stages (`LossIsSeen`);
  this gives `DropIsTold`, for any number of groups, where the run has one.

**ProcessWatcher.**  `Inv` is the conjunction of the properties with two facts that
carry them over a restart: an item of the list, of the file or of what is being
loaded names a process that has been started (`ItemsWereBorn`), and a notified one
has ended (`NoticedHasEnded`); as an ended process stays ended and is not added,
`NoticedIsGone` is kept although the file may name it.  What `Added` and
`SwapRemove` do to a list are lemmas.  `StopInv` says what the wait of `Stop` has
excluded once the rundown is over: no loop, no request and no save is inside.  From it
follow `StopIsQuiet` and, with `FileFollowsList`, `StopLeavesList`: what `Stop` leaves in
the file is the list, unless a change was made for which no save was asked or its
save was refused.

**Server.**  The count is exact, with the connections whose `Close` failed in it
(`CountIsExact`), and the accept loop holds one uncounted connection at most
(`AcceptInv`).  `CloseWaits` then needs to know which zeros are final (`WaitInv`): if
neither race was under way when the inner listener was closed (`raced`), no connection
is accepted any more, and the zero that a closing connection holds, or that `done` or the
return of `Close` rests on, is the count of that moment, and of every later one.
For the outcome, `OneInv` says that
it is in one place at a time: announced by the signal, in the hands of the
manager, in the channel, or with `Wait`; `ErrorInv` that an error is there only if
no `Stop` won the compare-and-swap.

**Program.**  The order of the stops is a number for each module (`Place`), that of
`run` another (`Turn`).  `Inv` says which pointers are set at each position of a
start and of a stop (`UpInv`, `StopUpInv`), that a module which `run` has not come to has no
loop (`TurnInv`), and that a module which was stopped while `run` was on its way
stays quiet (`StopQuietInv`): no loop, no notice, no save, because its pointer is gone
before its wait begins.  So the notices of watchers find the logger, the wait
groups cover their deliveries, and a torn file is one whose save failed or was
killed (`TornInv`).  The theorems hold for any number of notices, any watchers with
something to watch and any outputs; kills and restarts included.

The inductive invariants were model-checked on the instances of the runs before
they were proved.

**Settings.**  A duration is a recursive function over its parts, in the code's
loop (`After`) and in what the text says (`Sum`).  What such functions compute is
shown by the least counterexample: of the positions where a claim fails there would be a
first one (`FiniteInduction`), it is not zero, and the pass that leads to it
(`AddPart`) rules it out.  That needs no theorem of induction with an operator as its
parameter; a claim is a set of positions.  The three lemmas worth reading are theorems
of their own, for texts of any length and any units: an accepted
duration is well-formed and in range (`SpanIsInRange`), a well-formed one that fits is
accepted for what it says (`SpanIsTrue`), and an accepted one is never wrong but by a
multiple of 2^64 (`SpanIsCongruent`), which is the rollover that `settings.go:471` does not
see.  They need `%` and `Wrap` only through the lemmas on division before them.
`SettingsInv` then says, section by section, what has been accepted so far; the two
properties follow.

**LogFiles.**  The settings' invariant holds on, since nothing is read once they are loaded, and
gives the age its sign.  `LogInv` says that a file which is old is noted in `idle`
(`OldInv`), and so is every file about to be removed (`DoomedInv`), and that no file is
there before the age is known (`FilesInv`).  What is written between the listing and the
removal makes a file young again, but not one that was never quiet; this gives
`BusyFilesStay` without a condition on the age, the delays or the day.

Only model-checked are the liveness properties (`WaitReturns` of both modules,
`StopReturns`, `CheckedForever`, `EndIsNoticed`, `MatchingIsWatched`, `OldFilesGo`), because
fairness and `ENABLED` are beyond the prover.

## 6. Not modelled

* The console: it writes lines under a mutex and keeps nothing.  `guid`: not used.
* The command line: it yields the name of the settings file.
* The response helpers and the API key check: no state.  The routes that are added
  while the server already accepts (`backend.go:29`): the router is the library's.
* The text of messages, the dialogue with a mail server, HTTP.
* The reuse of a process identifier: the code could not tell, either.
* Two saves of one module that write their file at the same time
  (`ProcessWatcher` has its mutex; for the checkers `FreeDiskSpaceChecker` has them in
  any order, each as one write).
* Data races inside the bitmap of the open ports and inside the standard library.
