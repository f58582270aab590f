------------------------------ MODULE Settings ------------------------------
(***************************************************************************)
(* Load of the settings: the sections are validated one after the other,   *)
(* and the first value that is refused ends the start of the program.      *)
(* What a section holds is chosen when it is read.  A duration or an       *)
(* amount is a sequence of parts, each a number, a unit, and whether a     *)
(* blank comes before, between or after them; a list of ports is a         *)
(* sequence of groups, each the numbers between its dashes.  A duration    *)
(* has the width of a time.Duration, HalfRange in either direction.        *)
(***************************************************************************)
EXTENDS Integers, Sequences

CONSTANTS
  HalfRange,                            \* 2^63
  UnitOfTime, UnitOfMemory,             \* the value of each unit, by its name
  TenSeconds, TenMinutes, SevenDays,
  MaxPort,                              \* 65535
  Durations, Amounts, PortLists,        \* texts that may be read
  Channels,                             \* channels that may be read
  Names, SeverityTexts                  \* what an item may say of both

Parts == [number : Nat, unit : STRING, blank : BOOLEAN]

ASSUME SettingsAssumption ==
  /\ HalfRange \in Nat \ {0}
  /\ {TenSeconds, TenMinutes, SevenDays} \subseteq 1..HalfRange - 1
  /\ TenMinutes =< SevenDays
  /\ MaxPort \in Nat
  /\ UnitOfTime \in [DOMAIN UnitOfTime -> Nat]
  /\ Durations \subseteq Seq(Parts)
  /\ PortLists \subseteq Seq(Seq(Nat))

Severities == {"error", "warn", "info", "debug"}
Unset == <<>>
Unlimited == -1
NoItem == [kind |-> "none"]

VARIABLES
  section,      \* the section to be read next, "loaded" or "refused"
  channels,     \* the channels that were accepted
  maxAge,       \* the text and the value of log.maxAge
  item          \* the one item of the watchers' sections that this run reads

settingsVars == <<section, channels, maxAge, item>>

----------------------------------------------------------------------------
(***************************************************************************)
(* The parsers.  SkipSpaces counts in a variable that hides the one it     *)
(* returns: it skips nothing, and what comes next refuses the blank.  The  *)
(* texts of GetText are made of letters and not empty, so that the units   *)
(* "" and "%" of an amount are never seen.                                 *)
(***************************************************************************)
Refused == [ok |-> FALSE, value |-> 0]
Accepted(v) == [ok |-> TRUE, value |-> v]

\* Arithmetic of 64 bits on signed numbers.
Wrap(x) == ((x + HalfRange) % (2 * HalfRange)) - HalfRange

IsPart(p, units) == ~p.blank /\ p.number \in 0..2 * HalfRange - 1 /\ p.unit \in DOMAIN units

\* Mutant: a part takes the place of the sum.
AddPartAlone(d, p) ==
  IF d.ok /\ IsPart(p, UnitOfTime) /\ Wrap(p.number * UnitOfTime[p.unit]) >= 0
  THEN Accepted(Wrap(p.number * UnitOfTime[p.unit])) ELSE Refused

\* One pass of the loop; a sum that is less than before is held for a rollover.
AddPart(d, p) ==
  IF ~d.ok \/ ~IsPart(p, UnitOfTime) THEN Refused
  ELSE LET sum == Wrap(d.value + p.number * UnitOfTime[p.unit])
       IN  IF sum < d.value THEN Refused ELSE Accepted(sum)

ValidateTimeSpan(text) ==
  LET After[k \in 0..Len(text)] ==
        IF k = 0 THEN Accepted(0) ELSE AddPart(After[k - 1], text[k])
  IN  After[Len(text)]

ValidateMemoryAmount(text) ==
  IF Len(text) = 1 /\ IsPart(text[1], UnitOfMemory)
  THEN Accepted(text[1].number * UnitOfMemory[text[1].unit]) ELSE Refused

ValidateSeverity(s) ==
  CASE s = "" -> "error"
    [] s = "warning" -> "warn"
    [] s = "information" -> "info"
    [] s \in Severities -> s
    [] OTHER -> ""

\* The end of a range is parsed from the text of its beginning.
PortsOf(g) == LET portEnd == g[1] IN g[1]..portEnd

ParsePortsList(list) ==
  IF list # <<>> /\ \A i \in DOMAIN list : Len(list[i]) \in {1, 2} /\ list[i][1] \in 0..MaxPort
  THEN [ok |-> TRUE, value |-> UNION {PortsOf(list[i]) : i \in DOMAIN list}]
  ELSE [ok |-> FALSE, value |-> {}]

\* Mutant: the least value is forgotten.
SpanOfAny(text, least, default) ==
  IF text = Unset THEN Accepted(default) ELSE ValidateTimeSpan(text)

\* A period that is given has a least value, one that is not has a default.
SpanOf(text, least, default) ==
  IF text = Unset THEN Accepted(default)
  ELSE LET d == ValidateTimeSpan(text) IN [d EXCEPT !.ok = d.ok /\ d.value >= least]

----------------------------------------------------------------------------
SettingsInit ==
  /\ section = "server"
  /\ channels = {}
  /\ maxAge = [text |-> Unset, value |-> 0]
  /\ item = NoItem

Leave(this, ok, next) ==
  /\ section = this
  /\ section' = IF ok THEN next ELSE "refused"

LoadServer ==
  \E port \in 0..MaxPort + 1, hasKey \in BOOLEAN :
    /\ Leave("server", port \in 1..MaxPort /\ hasKey, "log")
    /\ UNCHANGED <<channels, maxAge, item>>

LoadLog ==
  \E text \in Durations \cup {Unset} :
    LET age == SpanOf(text, TenMinutes, SevenDays)
    IN  /\ Leave("log", age.ok, "channels")
        /\ maxAge' = [text |-> text, value |-> age.value]
        /\ UNCHANGED <<channels, item>>

\* Only a name of exactly 32 characters is too long.
ChannelOk(c) ==
  /\ c.length \notin {0, 32}
  /\ c.slack # "no hook"
  /\ c.email # "invalid"
  /\ c.file \/ c.slack = "on" \/ c.email = "on"

LoadChannels ==
  \E cs \in SUBSET Channels :
    /\ Leave("channels", cs # {} /\ \A c \in cs : ChannelOk(c), "processes")
    /\ channels' = cs
    /\ UNCHANGED <<maxAge, item>>

\* What the items of all four sections have in common.
ItemOk(channel, severity) ==
  channel \in {c.name : c \in channels} /\ ValidateSeverity(severity) # ""

LoadItem(this, next, ok, read) ==
  /\ item = NoItem
  /\ Leave(this, ok, next)
  /\ item' = read
  /\ UNCHANGED <<channels, maxAge>>

\* The section is empty, or another one has the item.
LoadNothing ==
  /\ \/ Leave("processes", TRUE, "webs")
     \/ Leave("webs", TRUE, "tcpPorts")
     \/ Leave("tcpPorts", TRUE, "freeDiskSpace")
     \/ Leave("freeDiskSpace", TRUE, "loaded")
  /\ UNCHANGED <<channels, maxAge, item>>

LoadProcess ==
  \E c \in Names, s \in SeverityTexts, named \in BOOLEAN :
    LoadItem("processes", "webs", named /\ ItemOk(c, s),
             [kind |-> "process", channel |-> c, severity |-> ValidateSeverity(s)])

\* Each index of checkChanges must be a group of the regular expression.
LoadWeb ==
  \E c \in Names, s \in SeverityTexts, url \in BOOLEAN, t \in Durations \cup {Unset},
     groups \in 1..2, checked \in 0..2 :
    LET period == SpanOf(t, TenSeconds, TenSeconds)
    IN  LoadItem("webs", "tcpPorts",
                 url /\ period.ok /\ checked \in 1..groups /\ ItemOk(c, s),
                 [kind |-> "web", channel |-> c, severity |-> ValidateSeverity(s), text |-> t,
                  period |-> period.value, groups |-> groups, checked |-> checked])

LoadTcpPorts ==
  \E c \in Names, s \in SeverityTexts, host \in BOOLEAN, t \in Durations \cup {Unset},
     list \in PortLists :
    LET period == SpanOf(t, TenSeconds, TenSeconds)
        ports == ParsePortsList(list)
    IN  LoadItem("tcpPorts", "freeDiskSpace",
                 host /\ ports.ok /\ period.ok /\ ItemOk(c, s),
                 [kind |-> "tcp", channel |-> c, severity |-> ValidateSeverity(s), text |-> t,
                  period |-> period.value, ports |-> ports.value])

\* A period that is given may be nothing at all, one that is not is unlimited.
LoadFreeDiskSpace ==
  \E c \in Names, s \in SeverityTexts, size \in BOOLEAN, t \in Durations \cup {Unset},
     a \in Amounts :
    LET period == SpanOf(t, 0, Unlimited)
        minimum == ValidateMemoryAmount(a)
    IN  LoadItem("freeDiskSpace", "loaded",
                 size /\ minimum.ok /\ period.ok /\ ItemOk(c, s),
                 [kind |-> "disk", channel |-> c, severity |-> ValidateSeverity(s), text |-> t,
                  period |-> period.value, amount |-> a, minimum |-> minimum.value])

SettingsNext ==
  \/ LoadServer \/ LoadLog \/ LoadChannels
  \/ LoadProcess \/ LoadWeb \/ LoadTcpPorts \/ LoadFreeDiskSpace
  \/ LoadNothing

SettingsSpec == SettingsInit /\ [][SettingsNext]_settingsVars

----------------------------------------------------------------------------
(***************************************************************************)
(* What the texts mean, by the documentation.                              *)
(***************************************************************************)
TrueSpan(text) ==
  LET Sum[k \in 0..Len(text)] ==
        IF k = 0 THEN 0 ELSE Sum[k - 1] + text[k].number * UnitOfTime[text[k].unit]
  IN  Sum[Len(text)]

WellFormed(text) == \A i \in DOMAIN text : IsPart(text[i], UnitOfTime)

\* What Load accepts is what the modules take for granted: a channel with an output,
\* a severity the logger knows, periods that are not below the least one and do not
\* overflow, groups that the regular expression has, ports that exist.
AcceptedIsUsable ==
  section = "loaded" =>
    /\ channels # {} /\ \A c \in channels : c.file \/ c.slack = "on" \/ c.email = "on"
    /\ maxAge.value \in TenMinutes..HalfRange - 1
    /\ item # NoItem =>
         /\ item.severity \in Severities
         /\ \E c \in channels : c.name = item.channel
    /\ item.kind \in {"web", "tcp"} => item.period \in TenSeconds..HalfRange - 1
    /\ item.kind = "web" => item.checked \in 1..item.groups
    /\ item.kind = "tcp" => item.ports # {} /\ item.ports \subseteq 0..MaxPort
    /\ item.kind = "disk" => item.period \in {Unlimited} \cup 0..HalfRange - 1

SpanIsExact(text, value) ==
  text # Unset /\ WellFormed(text) /\ TrueSpan(text) < HalfRange => value = TrueSpan(text)

\* A duration without blanks that a time.Duration can hold is taken for what it says,
\* whatever its units and their order (README.md:163, settings.go:395-483).
SpansAreExact ==
  /\ section \notin {"server", "log"} => SpanIsExact(maxAge.text, maxAge.value)
  /\ item.kind \in {"web", "tcp", "disk"} => SpanIsExact(item.text, item.period)
=============================================================================
