----------------------------- MODULE MCLogFiles -----------------------------
EXTENDS LogFiles

CONSTANTS m1, m2

MCUnitOfTime == [s |-> 1, m |-> 2, h |-> 4]
MCUnitOfMemory == [b |-> 1, k |-> 4]

Part(n, u, b) == [number |-> n, unit |-> u, blank |-> b]
\* Below, at and above the least values and the width, and two sums that roll over
\* unseen.
MCDurations ==
  {<<Part(n, "s", FALSE)>> : n \in {0, 2, 15, 31}} \cup {<<Part(2, "m", FALSE)>>}
    \cup {<<Part(1, "s", FALSE), Part(n, "m", FALSE)>> : n \in {7, 8, 16, 17}}
    \cup {<<Part(1, "h", FALSE), Part(1, "m", FALSE), Part(1, "s", FALSE)>>,
          <<Part(3, "m", TRUE)>>, <<Part(3, "s", FALSE), Part(3, "x", FALSE)>>}
MCAmounts == {Unset, <<Part(2, "k", FALSE)>>, <<Part(2, "x", FALSE)>>,
              <<Part(2, "k", FALSE), Part(1, "b", FALSE)>>}
MCPortLists == {<<>>, <<<<3>>, <<1>>>>, <<<<2>>, <<0, 2>>>>, <<<<4>>>>, <<<<1, 2, 3>>>>}

Channel(n, l, f, s, e) == [name |-> n, length |-> l, file |-> f, slack |-> s, email |-> e]
MCChannels == {Channel("default", 7, TRUE, "off", "off"), Channel("ops", 3, FALSE, "on", "on"),
               Channel("exact", 32, TRUE, "off", "off"), Channel("mute", 4, FALSE, "off", "off"),
               Channel("hook", 4, TRUE, "no hook", "off"), Channel("mail", 4, TRUE, "off", "invalid")}
MCNames == {"default", "ops", "nobody"}
MCSeverityTexts == {"", "warning", "debug", "loud"}

\* Ages of half a day, which is the least, and of a day and a half, which is the default.
MCProbed == {<<{Channel("default", 7, TRUE, "off", "off")}, text>> :
               text \in {Unset, <<Part(2, "s", FALSE)>>}}
=============================================================================
