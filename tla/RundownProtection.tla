------------------------- MODULE RundownProtection -------------------------
(***************************************************************************)
(* The rundown protection of randlabs/rundown-protection: a 32-bit word    *)
(* whose top bit says that the rundown is active and whose other bits      *)
(* count the references, and a channel of capacity one that the last       *)
(* Release uses to wake Wait up.  Every operation is a load followed by a  *)
(* compare-and-swap that is tried again when another call got in between.  *)
(*                                                                         *)
(* An element of Calls is one Acquire and, when it succeeds, its Release;  *)
(* a goroutine that uses the object again is another element.  Wait is     *)
(* called once: the modules that own a rundown protection forget their     *)
(* pointer to it, under a lock, before they call it.                       *)
(***************************************************************************)
EXTENDS Integers, FiniteSets

CONSTANTS
  Calls,                \* the Acquire ... Release pairs
  RundownActive         \* the flag bit, 2^31 in the code

\* The reference count never runs into the flag bit.
ASSUME CallsAssumption ==
  /\ IsFiniteSet(Calls)
  /\ RundownActive \in Nat \ {0}
  /\ Cardinality(Calls) < RundownActive

VARIABLES
  counter,              \* the word
  done,                 \* the number of tokens in the channel
  pc, val,              \* the program point of each call and the word it loaded
  wpc, wval             \* the same for Wait

vars == <<counter, done, pc, val, wpc, wval>>

Word == 0 .. 2 * RundownActive - 1

CallPoints == {"start", "acqCas", "refused", "holding", "relCas", "send", "left"}
WaitPoints == {"start", "cas", "recv", "returned"}

IsActive(w) == w >= RundownActive
SetActive(w) == IF IsActive(w) THEN w ELSE w + RundownActive

\* The word with one reference less; with none left the subtraction wraps and
\* sets every bit.
OneLess(w) ==
  IF w \in {0, RundownActive} THEN 2 * RundownActive - 1 ELSE w - 1

\* The calls that hold a reference.
Held == {c \in Calls : pc[c] \in {"holding", "relCas"}}
Sending == {c \in Calls : pc[c] = "send"}

----------------------------------------------------------------------------
Init ==
  /\ counter = 0
  /\ done = 0
  /\ pc = [c \in Calls |-> "start"]
  /\ val = [c \in Calls |-> 0]
  /\ wpc = "start"
  /\ wval = 0

\* Mutant: the flag is not looked at.
AcquireLoadUnchecked(c) ==
  /\ pc[c] = "start"
  /\ val' = [val EXCEPT ![c] = counter]
  /\ pc' = [pc EXCEPT ![c] = "acqCas"]
  /\ UNCHANGED <<counter, done, wpc, wval>>

AcquireLoad(c) ==
  /\ pc[c] = "start"
  /\ val' = [val EXCEPT ![c] = counter]
  /\ pc' = [pc EXCEPT ![c] = IF IsActive(counter) THEN "refused" ELSE "acqCas"]
  /\ UNCHANGED <<counter, done, wpc, wval>>

\* Mutant: a plain store instead of the compare-and-swap.
AcquireStore(c) ==
  /\ pc[c] = "acqCas"
  /\ counter' = val[c] + 1
  /\ pc' = [pc EXCEPT ![c] = "holding"]
  /\ UNCHANGED <<done, val, wpc, wval>>

AcquireCAS(c) ==
  /\ pc[c] = "acqCas"
  /\ \/ /\ counter = val[c]
        /\ counter' = val[c] + 1
        /\ pc' = [pc EXCEPT ![c] = "holding"]
     \/ /\ counter # val[c]
        /\ pc' = [pc EXCEPT ![c] = "start"]
        /\ UNCHANGED counter
  /\ UNCHANGED <<done, val, wpc, wval>>

ReleaseLoad(c) ==
  /\ pc[c] = "holding"
  /\ val' = [val EXCEPT ![c] = counter]
  /\ pc' = [pc EXCEPT ![c] = "relCas"]
  /\ UNCHANGED <<counter, done, wpc, wval>>

\* Mutant: the new word is compared with zero, the flag forgotten.
ReleaseCASNeverSends(c) ==
  /\ pc[c] = "relCas"
  /\ \/ /\ counter = val[c]
        /\ counter' = OneLess(val[c])
        /\ pc' = [pc EXCEPT ![c] = "left"]
     \/ /\ counter # val[c]
        /\ pc' = [pc EXCEPT ![c] = "holding"]
        /\ UNCHANGED counter
  /\ UNCHANGED <<done, val, wpc, wval>>

ReleaseCAS(c) ==
  /\ pc[c] = "relCas"
  /\ \/ /\ counter = val[c]
        /\ counter' = OneLess(val[c])
        /\ pc' = [pc EXCEPT ![c] =
                    IF OneLess(val[c]) = RundownActive THEN "send" ELSE "left"]
     \/ /\ counter # val[c]
        /\ pc' = [pc EXCEPT ![c] = "holding"]
        /\ UNCHANGED counter
  /\ UNCHANGED <<done, val, wpc, wval>>

\* Mutant: the last Release leaves without the token.
ReleaseForgets(c) ==
  /\ pc[c] = "send"
  /\ pc' = [pc EXCEPT ![c] = "left"]
  /\ UNCHANGED <<counter, done, val, wpc, wval>>

\* A send on a channel that is full blocks.
ReleaseSend(c) ==
  /\ pc[c] = "send"
  /\ done < 1
  /\ done' = done + 1
  /\ pc' = [pc EXCEPT ![c] = "left"]
  /\ UNCHANGED <<counter, val, wpc, wval>>

WaitLoad ==
  /\ wpc = "start"
  /\ wval' = counter
  /\ wpc' = "cas"
  /\ UNCHANGED <<counter, done, pc, val>>

WaitCAS ==
  /\ wpc = "cas"
  /\ \/ /\ counter = wval
        /\ counter' = SetActive(wval)
        /\ wpc' = IF wval # 0 THEN "recv" ELSE "returned"
     \/ /\ counter # wval
        /\ wpc' = "start"
        /\ UNCHANGED counter
  /\ UNCHANGED <<done, pc, val, wval>>

WaitReceive ==
  /\ wpc = "recv"
  /\ done > 0
  /\ done' = done - 1
  /\ wpc' = "returned"
  /\ UNCHANGED <<counter, pc, val, wval>>

Call(c) ==
  \/ AcquireLoad(c)
  \/ AcquireCAS(c)
  \/ ReleaseLoad(c)
  \/ ReleaseCAS(c)
  \/ ReleaseSend(c)

Wait ==
  \/ WaitLoad
  \/ WaitCAS
  \/ WaitReceive

Next ==
  \/ \E c \in Calls : Call(c)
  \/ Wait

Spec == Init /\ [][Next]_vars

\* Every goroutine inside a call goes on: a caller releases what it holds, but
\* no call has to be started.
GoesOn(c) ==
  \/ AcquireCAS(c)
  \/ ReleaseLoad(c)
  \/ ReleaseCAS(c)
  \/ ReleaseSend(c)

FairSpec == Spec /\ WF_vars(Wait) /\ \A c \in Calls : WF_vars(GoesOn(c))

----------------------------------------------------------------------------
TypeOK ==
  /\ counter \in Word
  /\ done \in 0 .. 1
  /\ pc \in [Calls -> CallPoints]
  /\ val \in [Calls -> Word]
  /\ wpc \in WaitPoints
  /\ wval \in Word

\* The packed word always says how many references are out and whether the
\* rundown is on, whatever compare-and-swaps were lost on the way
\* (Acquire, Release and Wait; nothing is counted twice or lost).
CounterIsExact ==
  counter = Cardinality(Held)
              + (IF wpc \in {"recv", "returned"} THEN RundownActive ELSE 0)

\* When Wait returns nobody uses the object: neither the val # 0 shortcut of
\* Wait nor the token of an early Release lets it return too soon.
DrainedWhenWaitReturns == wpc = "returned" => Held = {}

\* The wake-up of Wait is not lost: with no reference left, the token is in the
\* channel or in the hands of a Release about to send it.
NoLostWakeup ==
  (wpc = "recv" /\ Held = {}) => (done = 1 \/ Sending # {})

\* Release never blocks on the channel of capacity one, because at most one
\* token is ever produced.
ReleaseNeverBlocks ==
  /\ Sending # {} => (done = 0 /\ wpc = "recv" /\ Held = {})
  /\ \A c, d \in Sending : c = d
  /\ done = 1 => (wpc = "recv" /\ Held = {})

\* Wait returns once the calls that hold a reference have released it.
WaitReturns == <>(wpc = "returned")

\* The implementation keeps the promise of the abstract rundown.
Abstract == INSTANCE Rundown WITH
  active <- counter >= RundownActive,
  holders <- Held,
  drained <- wpc = "returned"

RefinesRundown == Abstract!Spec
=============================================================================
