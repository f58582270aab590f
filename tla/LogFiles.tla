------------------------------ MODULE LogFiles ------------------------------
(***************************************************************************)
(* The log files of a channel, one for each day, and the goroutine that    *)
(* deletes the old ones, once the settings are loaded: the age at which a  *)
(* file is old is any that Load accepts.  A message gets its time stamp    *)
(* from its caller, is written later by a goroutine of its own, and goes   *)
(* to the file of the day of its stamp.  The cleaner reads the directory   *)
(* and then removes what it found to be old; meanwhile messages are        *)
(* written.  Every call opens the file: getActiveLogFile returns the       *)
(* address of a copy, in which no open descriptor is ever found.  A file   *)
(* that is removed while it is open lives on for those who have it open,   *)
(* as POSIX systems do it.                                                 *)
(***************************************************************************)
EXTENDS Settings

CONSTANTS
  Messages,     \* the messages that can be on their way at a time
  DayLength,    \* time is counted in units of which a day has this many
  MaxDelay,     \* the longest time from the stamp of a message to its writing
  Horizon,      \* bound: the last point in time
  Probed        \* bound: the channels and the texts of log.maxAge for which the
                \* log files are looked at

ASSUME LogFilesAssumption ==
  /\ DayLength \in Nat \ {0}
  /\ {MaxDelay, Horizon} \subseteq Nat

DayOf(t) == t \div DayLength
Days == 0..DayOf(Horizon)
None == -1

\* Start takes the age over from the settings.
MaxAge == maxAge.value

VARIABLES
  now,          \* the clock
  modTime,      \* of the file of each day; None if there is no such file
  stamp,        \* of a message on its way, its time stamp; otherwise None
  opened,       \* the messages that have their file open
  orphans,      \* those of them whose file was removed since
  doomed,       \* the files that the cleaner is about to remove
  idle          \* history: the files that have been without a new line for longer
                \* than MaxAge at some time since they were created

logVars == <<now, modTime, stamp, opened, orphans, doomed, idle>>

LogInit ==
  /\ SettingsInit
  /\ now = 0
  /\ modTime = [d \in Days |-> None]
  /\ stamp = [m \in Messages |-> None]
  /\ opened = {}
  /\ orphans = {}
  /\ doomed = {}
  /\ idle = {}

----------------------------------------------------------------------------
\* The caller takes the time and leaves the rest to a goroutine, if the channel has its
\* file enabled.
Stamp(m) ==
  /\ stamp[m] = None
  /\ \E c \in channels : c.file
  /\ stamp' = [stamp EXCEPT ![m] = now]
  /\ UNCHANGED <<now, modTime, opened, orphans, doomed, idle>>

\* It opens the file of that day, which creates it if it is not there ...
Open(m) ==
  /\ stamp[m] # None
  /\ m \notin opened
  /\ opened' = opened \cup {m}
  /\ LET d == DayOf(stamp[m])
     IN  IF modTime[d] = None
         THEN modTime' = [modTime EXCEPT ![d] = now] /\ idle' = idle \ {d}
         ELSE UNCHANGED <<modTime, idle>>
  /\ UNCHANGED <<now, stamp, orphans, doomed>>

\* ... and appends a line, of which nothing remains if the file was removed.
AppendLine(m) ==
  /\ m \in opened
  /\ opened' = opened \ {m}
  /\ orphans' = orphans \ {m}
  /\ stamp' = [stamp EXCEPT ![m] = None]
  /\ modTime' = IF m \in orphans THEN modTime
                ELSE [modTime EXCEPT ![DayOf(stamp[m])] = now]
  /\ UNCHANGED <<now, doomed, idle>>

\* Mutant: the age is that of the day in the name of the file.
ReadDirByName ==
  /\ doomed = {}
  /\ doomed' = {d \in Days : modTime[d] # None /\ d * DayLength < now - MaxAge}
  /\ UNCHANGED <<now, modTime, stamp, opened, orphans, idle>>

\* Mutant: the folders of the channels are not entered.
ReadDirTopOnly ==
  /\ doomed = {}
  /\ UNCHANGED logVars

\* The cleaner lists the files that were last written before MaxAge.
ReadDir ==
  /\ doomed = {}
  /\ doomed' = {d \in Days : modTime[d] # None /\ modTime[d] < now - MaxAge}
  /\ UNCHANGED <<now, modTime, stamp, opened, orphans, idle>>

Remove(d) ==
  /\ d \in doomed
  /\ doomed' = doomed \ {d}
  /\ modTime' = [modTime EXCEPT ![d] = None]
  /\ orphans' = orphans \cup {m \in opened : DayOf(stamp[m]) = d}
  /\ UNCHANGED <<now, stamp, opened, idle>>

\* Time passes, but no message is held up for longer than MaxDelay.
Tick ==
  /\ now < Horizon
  /\ \A m \in Messages : stamp[m] # None => now < stamp[m] + MaxDelay
  /\ now' = now + 1
  /\ idle' = idle \cup {d \in Days : modTime[d] # None /\ now' - modTime[d] > MaxAge}
  /\ UNCHANGED <<modTime, stamp, opened, orphans, doomed>>

\* The program has loaded its settings, and they are among those that are looked at.
Logging ==
  /\ section = "loaded"
  /\ item = NoItem
  /\ <<channels, maxAge.text>> \in Probed
  /\ UNCHANGED settingsVars

LogNext ==
  \/ SettingsNext /\ UNCHANGED logVars
  \/ /\ Logging
     /\ \/ \E m \in Messages : Stamp(m) \/ Open(m) \/ AppendLine(m)
        \/ ReadDir
        \/ \E d \in Days : Remove(d)
        \/ Tick

logSpecVars == <<settingsVars, logVars>>

LogSpec == LogInit /\ [][LogNext]_logSpecVars

\* The cleaner wakes up every five minutes and works its list off.
FairLogSpec ==
  /\ LogSpec
  /\ WF_logSpecVars(Logging /\ ReadDir)
  /\ \A d \in Days : WF_logSpecVars(Logging /\ Remove(d))

----------------------------------------------------------------------------
\* A file that gets a line at least every MaxAge is not removed, nor are lines lost to
\* it: whatever age was accepted, however the messages come between the listing and the
\* removal, and whatever files of the day there were before (file.go:161-185 against
\* 216-275).
BusyFilesStay ==
  [][\A d \in Days : modTime[d] # None /\ modTime'[d] = None => d \in idle]_logSpecVars

\* What is removed is old: it has not been written to for MaxAge (README.md:163).
OnlyOldLinesGo ==
  [][\A d \in Days : modTime[d] # None /\ modTime'[d] = None
       => now - modTime[d] > MaxAge]_logSpecVars

\* A file that has grown old goes, if it gets no new line.
OldFilesGo ==
  \A d \in Days : modTime[d] # None /\ now - modTime[d] > MaxAge
                    ~> modTime[d] = None \/ now - modTime[d] =< MaxAge
=============================================================================
