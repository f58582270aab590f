----------------------------- MODULE WebChecker -----------------------------
(***************************************************************************)
(* The web checker: the scheduler of PeriodicChecker, and what its         *)
(* goroutines do.  A check fetches a page: the site is down (status 0),    *)
(* stalled, when nothing the settings look for has changed (-1), or live   *)
(* (1).  As in the free disk space checker, a change of the status is      *)
(* saved, and one from 1 is notified, by goroutines of their own.          *)
(*                                                                         *)
(* A page is, for each content item of the site, the groups that its       *)
(* regular expression captured, or <<>> where it did not match; a body     *)
(* that cannot be read matches nothing.  What the site showed last is kept *)
(* in memory only.                                                         *)
(***************************************************************************)
EXTENDS PeriodicChecker, Sequences, FiniteSetsExt

CONSTANTS
  Content,              \* the content items of each site: for each, the groups
                        \* that are compared (checkChanges)
  GroupCount,           \* the groups of a regular expression
  Values,               \* what a group can capture
  Empty,                \* the empty string, which a group can capture, too
  Still                 \* any one page of each site on which every item matches

ASSUME ContentAssumption ==
  /\ Content \in [Devices -> Seq(Seq(1 .. GroupCount))]
  /\ GroupCount \in Nat
  /\ Empty \in Values
  /\ DOMAIN Still = Devices
  /\ \A d \in Devices : Still[d] \in [DOMAIN Content[d] -> [1 .. GroupCount -> Values]]

VARIABLES
  status,               \* LastCheckStatus of each site
  last,                 \* LastContent of each content item of each site
  file,                 \* the state file: a Boolean per site, <<>> for no file
  stage,                \* where a goroutine that checks, saves or notifies is
  found,                \* the local newStatus of a check that notifies, else 1
  snap,                 \* the items that a saving goroutine has collected
  told,                 \* history: what this life of the program owes the user
                        \* since it saw the site fall from live, or told him
  stayed                \* history: the fetches in a row, down times apart, that
                        \* showed the page Still of the site

webVars == <<status, last, file, stage, found, snap, told, stayed>>
vars == <<checkerVars, webVars>>

Stages == {"none", "measure", "save", "notify", "finish", "collect", "log", "over"}

Notices == {"nothing", "owed", "down", "stalled"}

\* What the groups of an item captured, and a page.
Matches == {<<>>} \cup [1 .. GroupCount -> Values]
Pages(d) == [DOMAIN Content[d] -> Matches]

\* The Sum64 of a hash that nothing was written to: h.Sum appends to its
\* argument, and the site never reaches the hash.
HashCode(d) == 0

----------------------------------------------------------------------------
\* The compared groups of item k that the check goes through: it ends at the first
\* one that shows what it showed before.
Walked(d, k, match) ==
  LET same == {i \in DOMAIN Content[d][k] : last[d][k][i] = match[Content[d][k][i]]}
  IN  {i \in DOMAIN Content[d][k] : \A j \in same : i < j}

\* An item without a match counts as changed.
Changed(d, page) ==
  {k \in DOMAIN Content[d] :
     Content[d][k] # <<>> /\ (page[k] = <<>> \/ Walked(d, k, page[k]) # {})}

StatusOf(d, up, page) ==
  IF ~up THEN 0 ELSE IF Changed(d, page) = {} THEN -1 ELSE 1

\* Mutant: what the page shows is not remembered.
RememberedNothing(d, up, page) == last[d]

\* The check ends at the first item that changed, and remembers what it went
\* through in that one.
Remembered(d, up, page) ==
  IF ~up \/ Changed(d, page) = {} THEN last[d]
  ELSE LET k == Min(Changed(d, page)) IN
         IF page[k] = <<>> THEN last[d]
         ELSE [last[d] EXCEPT ![k] =
                 [i \in DOMAIN @ |-> IF i \in Walked(d, k, page[k])
                                     THEN page[k][Content[d][k][i]]
                                     ELSE @[i]]]

\* The fetches in a row that showed Still; one more than there are content items is
\* as good as any number above it.
StillShown(d, up, page) ==
  IF ~up THEN stayed[d]
  ELSE IF page # Still[d] THEN 0
  ELSE Min({stayed[d] + 1, Len(Content[d]) + 1})

----------------------------------------------------------------------------
NothingSeen(d) == [k \in DOMAIN Content[d] |-> [i \in DOMAIN Content[d][k] |-> Empty]]

Init ==
  /\ CheckerInit
  /\ status = [d \in Devices |-> 1]
  /\ last = [d \in Devices |-> NothingSeen(d)]
  /\ file = <<>>
  /\ stage = [g \in Goroutines |-> "none"]
  /\ found = [g \in Goroutines |-> 1]
  /\ snap = [g \in Goroutines |-> <<>>]
  /\ told = [d \in Devices |-> "nothing"]
  /\ stayed = [d \in Devices |-> 0]

\* The goroutine that checkWebs starts begins to fetch.
Visit ==
  /\ VisitDue
  /\ stage' = [g \in Goroutines |->
                 IF pc[g] = "free" /\ pc'[g] = "measure" THEN "measure" ELSE stage[g]]
  /\ UNCHANGED <<status, last, file, found, snap, told, stayed>>

\* The page is fetched and compared and the status swapped.  The answer is all that
\* a site does on its own, so that the fetch and the comparison are one step.
Measure(g, up, page) ==
  /\ stage[g] = "measure"
  /\ LET d == dev[g]
         oldStatus == status[d]
         newStatus == StatusOf(d, up, page)
     IN
       /\ last' = [last EXCEPT ![d] = Remembered(d, up, page)]
       /\ status' = [status EXCEPT ![d] = newStatus]
       /\ found' = [found EXCEPT ![g] = IF oldStatus = 1 THEN newStatus ELSE 1]
       /\ stage' = [stage EXCEPT ![g] =
                      IF oldStatus # newStatus THEN "save" ELSE "finish"]
       /\ told' = [told EXCEPT ![d] = IF newStatus = 1 THEN "nothing"
                                       ELSE IF oldStatus = 1 THEN "owed" ELSE @]
       /\ stayed' = [stayed EXCEPT ![d] = StillShown(d, up, page)]
  /\ UNCHANGED <<checkerVars, file, snap>>

AfterSave(g) == IF found[g] # 1 THEN "notify" ELSE "finish"

\* Mutant: the check ends with its save.
StartSaveGivesUp(g) ==
  /\ stage[g] = "save"
  /\ \/ \E h \in Goroutines :
          /\ Spawn(g, h)
          /\ stage' = [stage EXCEPT ![g] = "finish", ![h] = "collect"]
     \/ /\ rundown
        /\ stage' = [stage EXCEPT ![g] = "finish"]
        /\ UNCHANGED checkerVars
  /\ UNCHANGED <<status, last, file, found, snap, told, stayed>>

\* runSaveState.
StartSave(g) ==
  /\ stage[g] = "save"
  /\ \/ \E h \in Goroutines :
          /\ Spawn(g, h)
          /\ stage' = [stage EXCEPT ![g] = AfterSave(g), ![h] = "collect"]
     \/ /\ rundown
        /\ stage' = [stage EXCEPT ![g] = AfterSave(g)]
        /\ UNCHANGED checkerVars
  /\ UNCHANGED <<status, last, file, found, snap, told, stayed>>

StartNotify(g) ==
  /\ stage[g] = "notify"
  /\ \/ \E h \in Goroutines :
          /\ Spawn(g, h)
          /\ stage' = [stage EXCEPT ![g] = "finish", ![h] = "log"]
          /\ told' = [told EXCEPT ![dev[g]] = IF found[g] = 0 THEN "down" ELSE "stalled"]
     \/ /\ rundown
        /\ stage' = [stage EXCEPT ![g] = "finish"]
        /\ UNCHANGED <<checkerVars, told>>
  /\ UNCHANGED <<status, last, file, found, snap, stayed>>

EndCheck(g) ==
  /\ stage[g] = "finish"
  /\ Finish(g)
  /\ stage' = [stage EXCEPT ![g] = "none"]
  /\ found' = [found EXCEPT ![g] = 1]
  /\ UNCHANGED <<status, last, file, snap, told, stayed>>

----------------------------------------------------------------------------
\* saveState reads one site after the other; stalled is saved as live.
Collect(g) ==
  /\ stage[g] = "collect"
  /\ Len(snap[g]) < N
  /\ snap' = [snap EXCEPT ![g] = Append(@, status[Len(@) + 1] # 0)]
  /\ UNCHANGED <<checkerVars, status, last, file, stage, found, told, stayed>>

WriteFile(g) ==
  /\ stage[g] = "collect"
  /\ Len(snap[g]) = N
  /\ file' = snap[g]
  /\ snap' = [snap EXCEPT ![g] = <<>>]
  /\ stage' = [stage EXCEPT ![g] = "over"]
  /\ UNCHANGED <<checkerVars, status, last, found, told, stayed>>

EndChild(g) ==
  /\ stage[g] \in {"log", "over"}
  /\ Release(g)
  /\ stage' = [stage EXCEPT ![g] = "none"]
  /\ UNCHANGED <<status, last, file, found, snap, told, stayed>>

EndWorker(g) ==
  /\ pc[g] = "release"
  /\ Release(g)
  /\ UNCHANGED webVars

----------------------------------------------------------------------------
\* loadState: a site takes the status of the first item with its HashCode.
LoadedStatus(d) ==
  LET same == {j \in DOMAIN file : HashCode(j) = HashCode(d)}
  IN  IF same = {} THEN 1 ELSE IF file[Min(same)] THEN 1 ELSE 0

\* The program is started again: everything but the file begins anew.
StartAgain ==
  /\ Restart
  /\ status' = [d \in Devices |-> LoadedStatus(d)]
  /\ last' = [d \in Devices |-> NothingSeen(d)]
  /\ stage' = [g \in Goroutines |-> "none"]
  /\ found' = [g \in Goroutines |-> 1]
  /\ snap' = [g \in Goroutines |-> <<>>]
  /\ told' = [d \in Devices |-> "nothing"]
  /\ stayed' = [d \in Devices |-> 0]
  /\ UNCHANGED file

----------------------------------------------------------------------------
\* The steps of the scheduler that concern it alone.
Scheduler ==
  /\ \/ RunStep \/ Select \/ StopStep \/ Tick
     \/ Scan \/ BeginWait \/ VisitBusy \/ VisitNotDue \/ EndVisit
     \/ \E g \in Goroutines : GiveUpSignal(g)
  /\ UNCHANGED webVars

Next ==
  \/ Scheduler
  \/ Visit
  \/ \E g \in Goroutines :
       \/ /\ dev[g] \in Devices
          /\ \E up \in BOOLEAN, page \in Pages(dev[g]) : Measure(g, up, page)
       \/ StartSave(g)
       \/ StartNotify(g)
       \/ EndCheck(g)
       \/ Collect(g)
       \/ WriteFile(g)
       \/ EndChild(g)
       \/ EndWorker(g)
  \/ StartAgain

\* From an empty state directory.
Spec == Init /\ [][Next]_vars

----------------------------------------------------------------------------
TypeOK ==
  /\ CheckerTypeOK
  /\ status \in [Devices -> -1 .. 1]
  /\ DOMAIN last = Devices
  /\ \A d \in Devices :
       /\ DOMAIN last[d] = DOMAIN Content[d]
       /\ \A k \in DOMAIN last[d] : last[d][k] \in [DOMAIN Content[d][k] -> Values]
  /\ file \in {<<>>} \cup [Devices -> BOOLEAN]
  /\ stage \in [Goroutines -> Stages]
  /\ found \in [Goroutines -> -1 .. 1]
  /\ snap \in [Goroutines -> Seq(BOOLEAN)]
  /\ \A g \in Goroutines : Len(snap[g]) <= N
  /\ told \in [Devices -> Notices]
  /\ stayed \in [Devices -> Nat]

\* A check that saw a live site fall ends only when the user has been told, unless the
\* module is stopping, and nothing else is left owing him (checkWebs).  It holds of one
\* life of the program: a site that is loaded as failed is not told of, whether or not
\* an earlier life came to tell it.
FailureIsTold ==
  \A g \in Goroutines : stage[g] = "finish" => (told[dev[g]] # "owed" \/ rundown)

\* A page that stays the same is held for live once for each content item at most, and
\* then for stalled: a check remembers only as far as its comparison came, in one item,
\* which delays what the other items show but does not keep the site live for ever
\* (LastContent in checkWebs).
SameIsStalled ==
  \A d \in Devices : stayed[d] > Len(Content[d]) => status[d] # 1
=============================================================================
