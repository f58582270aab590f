----------------------- MODULE RundownProtectionProofs -----------------------
(***************************************************************************)
(* What module RundownProtection states of the rundown protection, proved  *)
(* for any number of calls below the flag bit.  IInv is inductive: each of *)
(* the safety properties needs the exact count, the count needs the types, *)
(* and the refusal of new references needs that a pending Acquire loaded a *)
(* word without the flag.                                                  *)
(***************************************************************************)
EXTENDS RundownProtection, FiniteSetTheorems, TLAPS

\* An Acquire that is about to compare-and-swap saw the flag clear.
FlagWasClear == \A c \in Calls : pc[c] = "acqCas" => val[c] < RundownActive

IInv ==
  /\ TypeOK
  /\ CounterIsExact
  /\ FlagWasClear
  /\ DrainedWhenWaitReturns
  /\ NoLostWakeup
  /\ ReleaseNeverBlocks

----------------------------------------------------------------------------
\* The holders are finitely many, and fewer than the flag bit.
LEMMA HeldIsFinite ==
  /\ IsFiniteSet(Held)
  /\ Cardinality(Held) \in Nat
  /\ Cardinality(Held) < RundownActive
  /\ Cardinality(Held) = 0 <=> Held = {}
<1>1. Held \in SUBSET Calls
  BY DEF Held
<1>2. IsFiniteSet(Held) /\ Cardinality(Held) <= Cardinality(Calls)
  BY <1>1, CallsAssumption, FS_Subset
<1>3. Cardinality(Calls) \in Nat /\ Cardinality(Held) \in Nat
  BY <1>2, CallsAssumption, FS_CardinalityType
<1>4. Cardinality(Held) = 0 <=> Held = {}
  BY <1>2, FS_EmptySet
<1>5. QED
  BY <1>2, <1>3, <1>4, CallsAssumption

\* The same in the next state.
LEMMA HeldIsFiniteNext ==
  /\ IsFiniteSet(Held')
  /\ Cardinality(Held') \in Nat
  /\ Cardinality(Held') < RundownActive
  /\ Cardinality(Held') = 0 <=> Held' = {}
<1>1. Held' \in SUBSET Calls
  BY DEF Held
<1>2. IsFiniteSet(Held') /\ Cardinality(Held') <= Cardinality(Calls)
  BY <1>1, CallsAssumption, FS_Subset
<1>3. Cardinality(Calls) \in Nat /\ Cardinality(Held') \in Nat
  BY <1>2, CallsAssumption, FS_CardinalityType
<1>4. Cardinality(Held') = 0 <=> Held' = {}
  BY <1>2, FS_EmptySet
<1>5. QED
  BY <1>2, <1>3, <1>4, CallsAssumption

\* A successful Acquire adds its call to the holders.
LEMMA OneMoreHolder ==
  ASSUME TypeOK, NEW c \in Calls, pc[c] = "acqCas",
         pc' = [pc EXCEPT ![c] = "holding"]
  PROVE  /\ Held' = Held \cup {c}
         /\ c \notin Held
         /\ Cardinality(Held') = Cardinality(Held) + 1
         /\ Sending' = Sending
<1>1. Held' = Held \cup {c} /\ c \notin Held
  BY DEF Held, TypeOK
<1>2. Cardinality(Held') = Cardinality(Held) + 1
  BY <1>1, HeldIsFinite, FS_AddElement
<1>3. Sending' = Sending
  BY DEF Sending, TypeOK
<1>4. QED
  BY <1>1, <1>2, <1>3

\* A successful Release takes its call from the holders.
LEMMA OneHolderLess ==
  ASSUME TypeOK, NEW c \in Calls, pc[c] = "relCas", NEW point \in {"send", "left"},
         pc' = [pc EXCEPT ![c] = point]
  PROVE  /\ Held' = Held \ {c}
         /\ c \in Held
         /\ Cardinality(Held') = Cardinality(Held) - 1
         /\ Sending' = IF point = "send" THEN Sending \cup {c} ELSE Sending
<1>1. Held' = Held \ {c} /\ c \in Held
  BY DEF Held, TypeOK
<1>2. Cardinality(Held') = Cardinality(Held) - 1
  BY <1>1, HeldIsFinite, FS_RemoveElement
<1>3. Sending' = IF point = "send" THEN Sending \cup {c} ELSE Sending
  BY DEF Sending, TypeOK
<1>4. QED
  BY <1>1, <1>2, <1>3

----------------------------------------------------------------------------
\* The invariant holds at first.
LEMMA InitIInv == Init => IInv
<1> SUFFICES ASSUME Init PROVE IInv
  OBVIOUS
<1>1. Held = {} /\ Sending = {}
  BY DEF Init, Held, Sending
<1>2. TypeOK
  BY CallsAssumption DEF Init, TypeOK, Word, CallPoints, WaitPoints
<1>3. CounterIsExact
  BY <1>1, HeldIsFinite DEF Init, CounterIsExact
<1>4. FlagWasClear /\ DrainedWhenWaitReturns /\ NoLostWakeup /\ ReleaseNeverBlocks
  BY <1>1 DEF Init, FlagWasClear, DrainedWhenWaitReturns, NoLostWakeup,
              ReleaseNeverBlocks
<1>5. QED
  BY <1>2, <1>3, <1>4 DEF IInv

\* A step that moves a call, but neither the word, nor the channel, nor Wait, nor
\* who holds or sends, keeps the invariant.
LEMMA PrivateStep ==
  ASSUME IInv, TypeOK', FlagWasClear', Held' = Held, Sending' = Sending,
         UNCHANGED <<counter, done, wpc, wval>>
  PROVE  IInv'
BY DEF IInv, CounterIsExact, DrainedWhenWaitReturns, NoLostWakeup,
       ReleaseNeverBlocks

\* Acquire loads the word.
LEMMA AcquireLoadIInv ==
  ASSUME IInv, NEW c \in Calls, AcquireLoad(c)
  PROVE  IInv'
<1> USE DEF IInv
<1>1. TypeOK'
  BY DEF AcquireLoad, TypeOK, CallPoints
<1>2. Held' = Held /\ Sending' = Sending
  BY DEF AcquireLoad, TypeOK, Held, Sending
<1>3. FlagWasClear'
  BY CallsAssumption DEF AcquireLoad, TypeOK, FlagWasClear, IsActive, Word
<1>4. QED
  BY <1>1, <1>2, <1>3, PrivateStep DEF AcquireLoad

\* Acquire swaps the word: one holder more, or another try.
LEMMA AcquireCASIInv ==
  ASSUME IInv, NEW c \in Calls, AcquireCAS(c)
  PROVE  IInv'
<1> USE DEF IInv
<1>1. CASE counter = val[c]
  <2>1. /\ counter' = counter + 1
        /\ pc' = [pc EXCEPT ![c] = "holding"]
        /\ pc[c] = "acqCas"
        /\ UNCHANGED <<done, val, wpc, wval>>
    BY <1>1 DEF AcquireCAS
  <2>2. /\ Held' = Held \cup {c}
        /\ Cardinality(Held') = Cardinality(Held) + 1
        /\ Sending' = Sending
    BY <2>1, OneMoreHolder
  <2>3. counter < RundownActive
    BY <1>1, <2>1 DEF FlagWasClear
  <2>4. wpc \notin {"recv", "returned"} /\ counter = Cardinality(Held)
    BY <2>3, HeldIsFinite, CallsAssumption DEF CounterIsExact
  <2>5. CounterIsExact'
    BY <2>1, <2>2, <2>4, HeldIsFinite DEF CounterIsExact
  <2>6. counter' \in Word
    BY <2>1, <2>2, <2>4, HeldIsFinite, HeldIsFiniteNext, CallsAssumption DEF Word
  <2>7. TypeOK'
    BY <2>1, <2>6 DEF TypeOK, CallPoints
  <2>8. FlagWasClear'
    BY <2>1 DEF FlagWasClear, TypeOK
  <2>9. (DrainedWhenWaitReturns /\ NoLostWakeup /\ ReleaseNeverBlocks)'
    BY <2>1, <2>2, <2>4
       DEF DrainedWhenWaitReturns, NoLostWakeup, ReleaseNeverBlocks
  <2>10. QED
    BY <2>5, <2>7, <2>8, <2>9
<1>2. CASE counter # val[c]
  <2>1. TypeOK'
    BY <1>2 DEF AcquireCAS, TypeOK, CallPoints
  <2>2. Held' = Held /\ Sending' = Sending
    BY <1>2 DEF AcquireCAS, TypeOK, Held, Sending
  <2>3. FlagWasClear'
    BY <1>2 DEF AcquireCAS, TypeOK, FlagWasClear
  <2>4. QED
    BY <1>2, <2>1, <2>2, <2>3, PrivateStep DEF AcquireCAS
<1>3. QED
  BY <1>1, <1>2

\* Release loads the word.
LEMMA ReleaseLoadIInv ==
  ASSUME IInv, NEW c \in Calls, ReleaseLoad(c)
  PROVE  IInv'
<1> USE DEF IInv
<1>1. TypeOK'
  BY DEF ReleaseLoad, TypeOK, CallPoints
<1>2. Held' = Held /\ Sending' = Sending
  BY DEF ReleaseLoad, TypeOK, Held, Sending
<1>3. FlagWasClear'
  BY DEF ReleaseLoad, TypeOK, FlagWasClear
<1>4. QED
  BY <1>1, <1>2, <1>3, PrivateStep DEF ReleaseLoad

\* The last Release under the flag, and no other, is left with the flag alone: it
\* goes on to send the token, which no other Release has sent or will send.
LEMMA ReleaseCASIInv ==
  ASSUME IInv, NEW c \in Calls, ReleaseCAS(c)
  PROVE  IInv'
<1> USE DEF IInv
<1>1. CASE counter = val[c]
  <2> DEFINE point == IF OneLess(counter) = RundownActive THEN "send" ELSE "left"
  <2>1. /\ counter' = OneLess(counter)
        /\ pc' = [pc EXCEPT ![c] = point]
        /\ pc[c] = "relCas"
        /\ UNCHANGED <<done, val, wpc, wval>>
    BY <1>1 DEF ReleaseCAS
  <2>2. point \in {"send", "left"}
    OBVIOUS
  <2>3. /\ Held' = Held \ {c}
        /\ c \in Held
        /\ Cardinality(Held') = Cardinality(Held) - 1
        /\ Sending' = IF point = "send" THEN Sending \cup {c} ELSE Sending
    <3> HIDE DEF point
    <3>1. QED
      BY <2>1, <2>2, OneHolderLess
  <2>4. Cardinality(Held) \in 1 .. RundownActive - 1
    BY <2>3, HeldIsFinite, CallsAssumption
  <2>5. counter' = counter - 1 /\ counter' \in Word
    BY <2>1, <2>4, CallsAssumption DEF CounterIsExact, OneLess, Word, TypeOK
  <2>6. CounterIsExact'
    BY <2>1, <2>3, <2>4, <2>5, CallsAssumption DEF CounterIsExact
  <2>7. TypeOK'
    BY <2>1, <2>2, <2>5 DEF TypeOK, CallPoints
  <2>8. FlagWasClear'
    BY <2>1, <2>2 DEF FlagWasClear, TypeOK
  <2>9. wpc # "returned" /\ done = 0 /\ Sending = {}
    BY <2>3 DEF DrainedWhenWaitReturns, ReleaseNeverBlocks, TypeOK
  <2>10. point = "send" <=> (wpc = "recv" /\ Held' = {})
    BY <2>1, <2>3, <2>4, <2>5, <2>9, HeldIsFiniteNext, CallsAssumption
       DEF CounterIsExact
  <2>11. (DrainedWhenWaitReturns /\ NoLostWakeup /\ ReleaseNeverBlocks)'
    BY <2>1, <2>3, <2>9, <2>10
       DEF DrainedWhenWaitReturns, NoLostWakeup, ReleaseNeverBlocks
  <2>12. QED
    BY <2>6, <2>7, <2>8, <2>11
<1>2. CASE counter # val[c]
  <2>1. TypeOK'
    BY <1>2 DEF ReleaseCAS, TypeOK, CallPoints
  <2>2. Held' = Held /\ Sending' = Sending
    BY <1>2 DEF ReleaseCAS, TypeOK, Held, Sending
  <2>3. FlagWasClear'
    BY <1>2 DEF ReleaseCAS, TypeOK, FlagWasClear
  <2>4. QED
    BY <1>2, <2>1, <2>2, <2>3, PrivateStep DEF ReleaseCAS
<1>3. QED
  BY <1>1, <1>2

\* The last Release sends the token.
LEMMA ReleaseSendIInv ==
  ASSUME IInv, NEW c \in Calls, ReleaseSend(c)
  PROVE  IInv'
<1> USE DEF IInv
<1>1. TypeOK'
  BY DEF ReleaseSend, TypeOK, CallPoints
<1>2. Held' = Held /\ Sending' = Sending \ {c} /\ c \in Sending
  BY DEF ReleaseSend, TypeOK, Held, Sending
<1>3. Sending' = {} /\ wpc = "recv" /\ Held = {} /\ done' = 1
  BY <1>2 DEF ReleaseSend, ReleaseNeverBlocks
<1>4. CounterIsExact' /\ FlagWasClear'
  BY <1>2 DEF ReleaseSend, CounterIsExact, FlagWasClear, TypeOK
<1>5. (DrainedWhenWaitReturns /\ NoLostWakeup /\ ReleaseNeverBlocks)'
  BY <1>2, <1>3
     DEF ReleaseSend, DrainedWhenWaitReturns, NoLostWakeup, ReleaseNeverBlocks
<1>6. QED
  BY <1>1, <1>4, <1>5

\* Wait loads the word.
LEMMA WaitLoadIInv ==
  ASSUME IInv, WaitLoad
  PROVE  IInv'
<1> USE DEF IInv
<1>1. TypeOK'
  BY DEF WaitLoad, TypeOK, WaitPoints
<1>2. Held' = Held /\ Sending' = Sending
  BY DEF WaitLoad, Held, Sending
<1>3. (CounterIsExact /\ FlagWasClear)'
  BY <1>2 DEF WaitLoad, CounterIsExact, FlagWasClear
<1>4. (DrainedWhenWaitReturns /\ NoLostWakeup /\ ReleaseNeverBlocks)'
  BY <1>2 DEF WaitLoad, DrainedWhenWaitReturns, NoLostWakeup, ReleaseNeverBlocks
<1>5. QED
  BY <1>1, <1>3, <1>4

\* Wait returns at once only when the word it swapped counted no reference.
LEMMA WaitCASIInv ==
  ASSUME IInv, WaitCAS
  PROVE  IInv'
<1> USE DEF IInv
<1>1. Held' = Held /\ Sending' = Sending
  BY DEF WaitCAS, Held, Sending
<1>2. wpc = "cas" /\ counter = Cardinality(Held) /\ counter < RundownActive
  BY HeldIsFinite DEF WaitCAS, CounterIsExact
<1>3. done = 0 /\ Sending = {}
  BY <1>2 DEF ReleaseNeverBlocks, TypeOK
<1>4. CASE counter = wval
  <2>1. /\ counter' = counter + RundownActive
        /\ wpc' = IF Held # {} THEN "recv" ELSE "returned"
        /\ UNCHANGED <<done, pc, val, wval>>
    BY <1>2, <1>4, HeldIsFinite, CallsAssumption
       DEF WaitCAS, SetActive, IsActive, TypeOK, Word
  <2>2. counter' \in Word
    BY <1>2, <2>1, HeldIsFinite, CallsAssumption DEF Word
  <2>3. TypeOK'
    BY <2>1, <2>2 DEF TypeOK, WaitPoints
  <2>4. (CounterIsExact /\ FlagWasClear)'
    BY <1>1, <1>2, <2>1 DEF CounterIsExact, FlagWasClear
  <2>5. (DrainedWhenWaitReturns /\ NoLostWakeup /\ ReleaseNeverBlocks)'
    BY <1>1, <1>3, <2>1
       DEF DrainedWhenWaitReturns, NoLostWakeup, ReleaseNeverBlocks
  <2>6. QED
    BY <2>3, <2>4, <2>5
<1>5. CASE counter # wval
  <2>1. UNCHANGED <<counter, done, pc, val, wval>> /\ wpc' = "start"
    BY <1>5 DEF WaitCAS
  <2>2. TypeOK'
    BY <2>1 DEF TypeOK, WaitPoints
  <2>3. (CounterIsExact /\ FlagWasClear)'
    BY <1>1, <1>2, <2>1 DEF CounterIsExact, FlagWasClear
  <2>4. (DrainedWhenWaitReturns /\ NoLostWakeup /\ ReleaseNeverBlocks)'
    BY <1>1, <1>3, <2>1
       DEF DrainedWhenWaitReturns, NoLostWakeup, ReleaseNeverBlocks
  <2>5. QED
    BY <2>2, <2>3, <2>4
<1>6. QED
  BY <1>4, <1>5

\* Wait receives the token.
LEMMA WaitReceiveIInv ==
  ASSUME IInv, WaitReceive
  PROVE  IInv'
<1> USE DEF IInv
<1>1. Held' = Held /\ Sending' = Sending
  BY DEF WaitReceive, Held, Sending
<1>2. done = 1 /\ done' = 0 /\ Sending = {} /\ Held = {}
  BY DEF WaitReceive, TypeOK, ReleaseNeverBlocks
<1>3. TypeOK'
  BY <1>2 DEF WaitReceive, TypeOK, WaitPoints
<1>4. (CounterIsExact /\ FlagWasClear)'
  BY <1>1 DEF WaitReceive, CounterIsExact, FlagWasClear
<1>5. (DrainedWhenWaitReturns /\ NoLostWakeup /\ ReleaseNeverBlocks)'
  BY <1>1, <1>2
     DEF WaitReceive, DrainedWhenWaitReturns, NoLostWakeup, ReleaseNeverBlocks
<1>6. QED
  BY <1>3, <1>4, <1>5

\* Nothing happens.
LEMMA StutterIInv ==
  ASSUME IInv, UNCHANGED vars
  PROVE  IInv'
BY DEF IInv, vars, TypeOK, CounterIsExact, FlagWasClear, DrainedWhenWaitReturns,
       NoLostWakeup, ReleaseNeverBlocks, Held, Sending

\* Every step keeps the invariant.
LEMMA NextIInv == IInv /\ [Next]_vars => IInv'
<1> SUFFICES ASSUME IInv, [Next]_vars PROVE IInv'
  OBVIOUS
<1>1. ASSUME NEW c \in Calls, Call(c) PROVE IInv'
  BY <1>1, AcquireLoadIInv, AcquireCASIInv, ReleaseLoadIInv, ReleaseCASIInv,
     ReleaseSendIInv DEF Call
<1>2. CASE Wait
  BY <1>2, WaitLoadIInv, WaitCASIInv, WaitReceiveIInv DEF Wait
<1>3. CASE UNCHANGED vars
  BY <1>3, StutterIInv
<1>4. QED
  BY <1>1, <1>2, <1>3 DEF Next

\* The inductive invariant of the rundown protection.
THEOREM Invariance == Spec => []IInv
BY InitIInv, NextIInv, PTL DEF Spec

\* The word, the channel, the calls and Wait have their types: the word never
\* leaves 32 bits and the channel never holds a second token.
THEOREM TypeCorrect == Spec => []TypeOK
<1>1. IInv => TypeOK
  BY DEF IInv
<1>2. QED
  BY <1>1, Invariance, PTL

\* The packed word of Acquire, Release and Wait counts the references exactly.
THEOREM CountCorrect == Spec => []CounterIsExact
<1>1. IInv => CounterIsExact
  BY DEF IInv
<1>2. QED
  BY <1>1, Invariance, PTL

\* When Wait returns no call holds a reference.
THEOREM WaitDrains == Spec => []DrainedWhenWaitReturns
<1>1. IInv => DrainedWhenWaitReturns
  BY DEF IInv
<1>2. QED
  BY <1>1, Invariance, PTL

\* The token that wakes Wait up is never lost.
THEOREM WakeupIsKept == Spec => []NoLostWakeup
<1>1. IInv => NoLostWakeup
  BY DEF IInv
<1>2. QED
  BY <1>1, Invariance, PTL

\* A Release never blocks on the channel.
THEOREM ReleaseIsWaitFree == Spec => []ReleaseNeverBlocks
<1>1. IInv => ReleaseNeverBlocks
  BY DEF IInv
<1>2. QED
  BY <1>1, Invariance, PTL

----------------------------------------------------------------------------
(***************************************************************************)
(* The refinement.  The abstract variables are `counter >= RundownActive', *)
(* Held and `wpc = "returned"'; a step that leaves the three as they are   *)
(* is a stutter of the abstract rundown.                                   *)
(***************************************************************************)
\* A step that moves neither word, Wait nor holders is a stutter.
LEMMA Stutters ==
  ASSUME UNCHANGED <<counter, wpc>>, Held' = Held
  PROVE  UNCHANGED Abstract!vars
BY DEF Abstract!vars

\* The flag bit is set exactly when Wait has set it.
LEMMA FlagIsExact ==
  ASSUME IInv
  PROVE  counter >= RundownActive <=> wpc \in {"recv", "returned"}
BY HeldIsFinite, CallsAssumption DEF IInv, CounterIsExact

\* The same in the next state.
LEMMA FlagIsExactNext ==
  ASSUME IInv'
  PROVE  counter' >= RundownActive <=> wpc' \in {"recv", "returned"}
BY HeldIsFiniteNext, CallsAssumption DEF IInv, CounterIsExact

\* A successful Acquire is an Enter.
LEMMA AcquireCASRefines ==
  ASSUME IInv, IInv', NEW c \in Calls, AcquireCAS(c)
  PROVE  [Abstract!Next]_(Abstract!vars)
<1>1. CASE counter = val[c]
  <2>1. pc[c] = "acqCas" /\ pc' = [pc EXCEPT ![c] = "holding"] /\ wpc' = wpc
    BY <1>1 DEF AcquireCAS
  <2>2. Held' = Held \cup {c} /\ c \notin Held
    BY <2>1, OneMoreHolder DEF IInv
  <2>3. ~(counter >= RundownActive)
    BY <1>1, <2>1, CallsAssumption DEF IInv, FlagWasClear, TypeOK, Word
  <2>4. ~(counter' >= RundownActive)
    BY <2>1, <2>3, FlagIsExact, FlagIsExactNext
  <2>5. Abstract!Enter(c)
    BY <2>1, <2>2, <2>3, <2>4 DEF Abstract!Enter
  <2>6. QED
    BY <2>5 DEF Abstract!Next
<1>2. CASE counter # val[c]
  <2>1. Held' = Held
    BY <1>2 DEF AcquireCAS, IInv, TypeOK, Held
  <2>2. QED
    BY <1>2, <2>1, Stutters DEF AcquireCAS
<1>3. QED
  BY <1>1, <1>2

\* A successful Release is a Leave.
LEMMA ReleaseCASRefines ==
  ASSUME IInv, IInv', NEW c \in Calls, ReleaseCAS(c)
  PROVE  [Abstract!Next]_(Abstract!vars)
<1>1. CASE counter = val[c]
  <2>1. PICK point \in {"send", "left"} :
          pc[c] = "relCas" /\ pc' = [pc EXCEPT ![c] = point] /\ wpc' = wpc
    BY <1>1 DEF ReleaseCAS
  <2>2. Held' = Held \ {c} /\ c \in Held
    BY <2>1, OneHolderLess DEF IInv
  <2>3. (counter' >= RundownActive) = (counter >= RundownActive)
    BY <2>1, FlagIsExact, FlagIsExactNext
  <2>4. Abstract!Leave(c)
    BY <2>1, <2>2, <2>3 DEF Abstract!Leave
  <2>5. QED
    BY <2>4 DEF Abstract!Next
<1>2. CASE counter # val[c]
  <2>1. Held' = Held
    BY <1>2 DEF ReleaseCAS, IInv, TypeOK, Held
  <2>2. QED
    BY <1>2, <2>1, Stutters DEF ReleaseCAS
<1>3. QED
  BY <1>1, <1>2

\* The swap of Wait is a Begin.
LEMMA WaitCASRefines ==
  ASSUME IInv, IInv', WaitCAS
  PROVE  [Abstract!Next]_(Abstract!vars)
<1>1. Held' = Held
  BY DEF WaitCAS, Held
<1>2. CASE counter = wval
  <2>1. wpc = "cas" /\ wpc' \in {"recv", "returned"}
    BY <1>2 DEF WaitCAS
  <2>2. ~(counter >= RundownActive) /\ counter' >= RundownActive
    BY <2>1, FlagIsExact, FlagIsExactNext
  <2>3. counter = Cardinality(Held)
    BY <2>1, HeldIsFinite DEF IInv, CounterIsExact
  <2>4. (wpc' = "returned") = (Held = {})
    BY <1>2, <2>3, HeldIsFinite DEF WaitCAS
  <2>5. Abstract!Begin
    BY <1>1, <2>2, <2>4 DEF Abstract!Begin
  <2>6. QED
    BY <2>5 DEF Abstract!Next
<1>3. CASE counter # wval
  <2>1. wpc = "cas" /\ wpc' = "start" /\ counter' = counter
    BY <1>3 DEF WaitCAS
  <2>2. UNCHANGED Abstract!vars
    BY <1>1, <2>1 DEF Abstract!vars
  <2>3. QED
    BY <2>2
<1>4. QED
  BY <1>2, <1>3

\* The receipt of the token is an End.
LEMMA WaitReceiveRefines ==
  ASSUME IInv, WaitReceive
  PROVE  [Abstract!Next]_(Abstract!vars)
<1>1. Held' = Held /\ Held = {}
  BY DEF WaitReceive, Held, IInv, ReleaseNeverBlocks, TypeOK
<1>2. wpc = "recv" /\ wpc' = "returned" /\ counter' = counter
  BY DEF WaitReceive
<1>3. Abstract!End
  BY <1>1, <1>2, FlagIsExact DEF Abstract!End
<1>4. QED
  BY <1>3 DEF Abstract!Next

\* The initial states correspond.
LEMMA InitRefines == Init => Abstract!Init
<1> SUFFICES ASSUME Init PROVE Abstract!Init
  OBVIOUS
<1>1. Held = {}
  BY DEF Init, Held
<1>2. QED
  BY <1>1, CallsAssumption DEF Init, Abstract!Init

\* Every step is a step of the abstract rundown, or a stutter.
LEMMA NextRefines ==
  IInv /\ IInv' /\ [Next]_vars => [Abstract!Next]_(Abstract!vars)
<1> SUFFICES ASSUME IInv, IInv', [Next]_vars
             PROVE  [Abstract!Next]_(Abstract!vars)
  OBVIOUS
<1>1. ASSUME NEW c \in Calls, Call(c) PROVE [Abstract!Next]_(Abstract!vars)
  <2>1. CASE AcquireLoad(c) \/ ReleaseLoad(c) \/ ReleaseSend(c)
    <3>1. Held' = Held /\ UNCHANGED <<counter, wpc>>
      BY <2>1 DEF AcquireLoad, ReleaseLoad, ReleaseSend, Held, IInv, TypeOK
    <3>2. QED
      BY <3>1, Stutters
  <2>2. QED
    BY <1>1, <2>1, AcquireCASRefines, ReleaseCASRefines DEF Call
<1>2. CASE Wait
  <2>1. CASE WaitLoad
    <3>1. counter' = counter /\ Held' = Held /\ wpc = "start" /\ wpc' = "cas"
      BY <2>1 DEF WaitLoad, Held
    <3>2. UNCHANGED Abstract!vars
      BY <3>1 DEF Abstract!vars
    <3>3. QED
      BY <3>2
  <2>2. QED
    BY <1>2, <2>1, WaitCASRefines, WaitReceiveRefines DEF Wait
<1>3. CASE UNCHANGED vars
  BY <1>3, Stutters DEF vars, Held
<1>4. QED
  BY <1>1, <1>2, <1>3 DEF Next

\* The rundown protection keeps the promise of the abstract rundown: what the
\* modules of the watchdog rely on is what the compare-and-swap loops do.
THEOREM ImplementsRundown == Spec => RefinesRundown
BY InitRefines, NextRefines, Invariance, PTL
   DEF Spec, RefinesRundown, Abstract!Spec
=============================================================================
