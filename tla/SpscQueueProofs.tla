-------------------------- MODULE SpscQueueProofs --------------------------
(* SpscQueue for any capacity and any set of elements: the inductive        *)
(* invariant QueueInv, the properties that follow from it, and the step      *)
(* simulation that makes the ring a bounded first-in first-out queue.        *)
EXTENDS SpscQueue, SequenceTheorems, TLAPS

\* What each thread may conclude from its old copy of the other's index: the
\* producer sees at least the elements there are, the consumer at most those.
CopiesSafe == /\ Distance(readIndexCache, writeIndex) >= Distance(readIndex, writeIndex)
              /\ Distance(readIndex, writeIndexCache) =< Distance(readIndex, writeIndex)

\* A slot the producer has found stays free, an element the consumer has found stays.
ClaimsHold == /\ writer.at \in {"write", "store"} => Successor(writeIndex) # readIndexCache
              /\ reader.at \in {"read", "store"} => readIndex # writeIndexCache

\* What is about to be published or delivered is what is in the slot.
ValuesHold == /\ writer.at = "store" => buffer[writeIndex] = writer.value
              /\ reader.at = "store" => reader.value = buffer[readIndex]

QueueInv == TypeOK /\ CopiesSafe /\ ClaimsHold /\ ValuesHold /\ SurePop

\* The distance between two indices stays below the number of slots.
LEMMA DistanceBound ==
    ASSUME NEW i \in Indices, NEW j \in Indices
    PROVE  Distance(i, j) \in 0 .. Slots - 1 /\ (Distance(i, j) = 0 <=> i = j)
BY SlotsAssumption DEF Indices, Distance

\* Moving the far index on lengthens the distance by one, unless it would close the ring.
LEMMA DistanceGrows ==
    ASSUME NEW i \in Indices, NEW j \in Indices, Successor(j) # i
    PROVE  Successor(j) \in Indices /\ Distance(i, Successor(j)) = Distance(i, j) + 1
BY SlotsAssumption DEF Indices, Distance, Successor

\* Moving the near index on shortens the distance by one, unless it was nothing.
LEMMA DistanceShrinks ==
    ASSUME NEW i \in Indices, NEW j \in Indices, i # j
    PROVE  Successor(i) \in Indices /\ Distance(Successor(i), j) = Distance(i, j) - 1
BY SlotsAssumption DEF Indices, Distance, Successor

\* The producer never closes the ring: the slot it has found is free indeed.
LEMMA RoomIsReal ==
    ASSUME TypeOK, CopiesSafe, Successor(writeIndex) # readIndexCache
    PROVE  Successor(writeIndex) # readIndex
<1>1. readIndexCache \in Indices /\ readIndex \in Indices /\ writeIndex \in Indices
  BY DEF TypeOK
<1>2. Distance(readIndexCache, Successor(writeIndex)) = Distance(readIndexCache, writeIndex) + 1
  BY <1>1, DistanceGrows
<1>3. Distance(readIndexCache, writeIndex) < Slots - 1
  BY <1>1, <1>2, DistanceGrows, DistanceBound, SlotsAssumption
<1>4. Distance(readIndex, writeIndex) < Slots - 1
  BY <1>1, <1>3, DistanceBound, SlotsAssumption DEF CopiesSafe
<1> QED
  BY <1>1, <1>4, SlotsAssumption DEF Distance, Successor, Indices

\* The consumer never runs past the writer: the element it has found is there.
LEMMA ElementIsReal ==
    ASSUME TypeOK, CopiesSafe, readIndex # writeIndexCache
    PROVE  readIndex # writeIndex
<1>1. readIndex \in Indices /\ writeIndex \in Indices /\ writeIndexCache \in Indices
  BY DEF TypeOK
<1>2. Distance(readIndex, writeIndexCache) > 0
  BY <1>1, DistanceBound, SlotsAssumption
<1>3. Distance(readIndex, writeIndex) # 0
  BY <1>1, <1>2, DistanceBound, SlotsAssumption DEF CopiesSafe
<1> QED
  BY <1>1, <1>3, DistanceBound

LEMMA InitInv == Init => QueueInv
BY SlotsAssumption DEF Init, QueueInv, TypeOK, CopiesSafe, ClaimsHold, ValuesHold, SurePop,
   Indices, Distance, WriterAt, ReaderAt

\* Every step keeps the invariant.
LEMMA NextInv == QueueInv /\ [Next]_vars => QueueInv'
<1> SUFFICES ASSUME QueueInv, [Next]_vars PROVE QueueInv'
  OBVIOUS
<1>types. TypeOK /\ readIndexCache \in Indices /\ readIndex \in Indices
          /\ writeIndex \in Indices /\ writeIndexCache \in Indices
  BY DEF QueueInv, TypeOK
<1> USE SlotsAssumption DEF QueueInv
<1>1. ASSUME NEW v \in Values, NEW patient \in BOOLEAN, CallEmplace(v, patient) PROVE QueueInv'
  BY <1>1 DEF CallEmplace, TypeOK, CopiesSafe, ClaimsHold, ValuesHold, SurePop, WriterAt, Distance
<1>2. ASSUME NEW patient \in BOOLEAN, CallPop(patient) PROVE QueueInv'
  BY <1>2 DEF CallPop, TypeOK, CopiesSafe, ClaimsHold, ValuesHold, SurePop, ReaderAt, Distance
<1>3. CASE FindSlot
  <2>1. TypeOK'
    BY <1>3 DEF FindSlot, TypeOK, WriterAt
  <2>2. CopiesSafe'
    BY <1>3, <1>types, DistanceBound DEF FindSlot, CopiesSafe, Distance
  <2>3. ClaimsHold' /\ ValuesHold' /\ SurePop'
    BY <1>3 DEF FindSlot, ClaimsHold, ValuesHold, SurePop, TypeOK
  <2> QED BY <2>1, <2>2, <2>3
<1>4. CASE WriteValue
  <2>1. TypeOK' /\ CopiesSafe'
    BY <1>4 DEF WriteValue, TypeOK, WriterAt, CopiesSafe, Distance
  <2>2. reader.at = "store" => readIndex # writeIndex
    BY <1>types, ElementIsReal DEF ClaimsHold
  <2>3. ClaimsHold' /\ ValuesHold' /\ SurePop'
    BY <1>4, <1>types, <2>2 DEF WriteValue, ClaimsHold, ValuesHold, SurePop, TypeOK
  <2> QED BY <2>1, <2>3
<1>5. CASE StoreWriteIndex
  <2>1. Successor(writeIndex) # readIndexCache /\ Successor(writeIndex) # readIndex
    BY <1>5, <1>types, RoomIsReal DEF StoreWriteIndex, ClaimsHold
  <2>2. Successor(writeIndex) \in Indices
    BY <1>types, <2>1, DistanceGrows
  <2>3. TypeOK'
    BY <1>5, <2>2 DEF StoreWriteIndex, TypeOK, WriterAt
  <2>4. /\ Distance(readIndexCache, Successor(writeIndex)) = Distance(readIndexCache, writeIndex) + 1
        /\ Distance(readIndex, Successor(writeIndex)) = Distance(readIndex, writeIndex) + 1
    BY <1>types, <2>1, DistanceGrows
  <2>5. CopiesSafe'
    <3>1. /\ Distance(readIndexCache, Successor(writeIndex)) >= Distance(readIndex, Successor(writeIndex))
          /\ Distance(readIndex, writeIndexCache) =< Distance(readIndex, Successor(writeIndex))
      BY <1>types, <2>4, DistanceBound DEF CopiesSafe
    <3> QED BY <1>5, <3>1 DEF StoreWriteIndex, CopiesSafe, Distance
  <2>6. ClaimsHold' /\ ValuesHold' /\ SurePop'
    BY <1>5, <2>1 DEF StoreWriteIndex, ClaimsHold, ValuesHold, SurePop, TypeOK
  <2> QED BY <2>3, <2>5, <2>6
<1>6. CASE FindElement
  <2>1. TypeOK'
    BY <1>6 DEF FindElement, TypeOK, ReaderAt
  <2>2. CopiesSafe'
    BY <1>6, <1>types, DistanceBound DEF FindElement, CopiesSafe, Distance
  <2>3. ClaimsHold' /\ ValuesHold' /\ SurePop'
    BY <1>6 DEF FindElement, ClaimsHold, ValuesHold, SurePop, TypeOK
  <2> QED BY <2>1, <2>2, <2>3
<1>7. CASE ReadValue
  BY <1>7, <1>types DEF ReadValue, TypeOK, ReaderAt, CopiesSafe, Distance, ClaimsHold, ValuesHold, SurePop
<1>8. CASE StoreReadIndex
  <2>1. readIndex # writeIndexCache /\ readIndex # writeIndex
    BY <1>8, <1>types, ElementIsReal DEF StoreReadIndex, ClaimsHold
  <2>2. Successor(readIndex) \in Indices
    BY <1>types, <2>1, DistanceShrinks
  <2>3. TypeOK'
    BY <1>8, <2>2 DEF StoreReadIndex, TypeOK, ReaderAt
  <2>4. /\ Distance(Successor(readIndex), writeIndex) = Distance(readIndex, writeIndex) - 1
        /\ Distance(Successor(readIndex), writeIndexCache) = Distance(readIndex, writeIndexCache) - 1
    BY <1>types, <2>1, DistanceShrinks
  <2>5. CopiesSafe'
    <3>1. /\ Distance(readIndexCache, writeIndex) >= Distance(Successor(readIndex), writeIndex)
          /\ Distance(Successor(readIndex), writeIndexCache) =< Distance(Successor(readIndex), writeIndex)
      BY <1>types, <2>4, DistanceBound DEF CopiesSafe
    <3> QED BY <1>8, <3>1 DEF StoreReadIndex, CopiesSafe, Distance
  <2>6. ClaimsHold' /\ ValuesHold' /\ SurePop'
    BY <1>8 DEF StoreReadIndex, ClaimsHold, ValuesHold, SurePop, TypeOK
  <2> QED BY <2>3, <2>5, <2>6
<1>9. CASE UNCHANGED vars
  BY <1>9 DEF vars, TypeOK, CopiesSafe, Distance, ClaimsHold, ValuesHold, SurePop
<1> QED
  BY <1>1, <1>2, <1>3, <1>4, <1>5, <1>6, <1>7, <1>8, <1>9 DEF Next, Produce, Consume

THEOREM InvHolds == Spec => []QueueInv
BY InitInv, NextInv, PTL DEF Spec

\* The indices stay inside the buffer and the calls inside their steps.
THEOREM QueueTyped == Spec => []TypeOK
BY InvHolds, PTL DEF QueueInv

\* The two threads never touch the same slot.
THEOREM SlotsStayApart == Spec => []SlotsApart
<1>1. QueueInv => SlotsApart
  BY ElementIsReal DEF QueueInv, ClaimsHold, SlotsApart
<1> QED BY <1>1, InvHolds, PTL

\* A pop after empty() = false does not wait.
THEOREM SurePopNeverWaits == Spec => []SurePop
BY InvHolds, PTL DEF QueueInv

-----------------------------------------------------------------------------
(* The step simulation. *)

\* A function on 1 .. n is a sequence of length n.
LEMMA FunctionIsSeq ==
    ASSUME NEW S, NEW n \in Nat, NEW f \in [1 .. n -> S]
    PROVE  f \in Seq(S) /\ Len(f) = n
OBVIOUS

\* Where the elements in the queue are: none in the slot the producer fills.
LEMMA PendingSlots ==
    ASSUME TypeOK, NEW i \in 1 .. Distance(readIndex, writeIndex)
    PROVE  LET k == readIndex + i - 1
               slot == IF k < Slots THEN k ELSE k - Slots
           IN  slot \in Indices /\ slot # writeIndex /\ Pending(i) = buffer[slot] /\ Pending(i) \in Values
BY SlotsAssumption DEF TypeOK, Indices, Distance, Pending

\* Queued is a sequence of the elements between the indices.
LEMMA QueuedIsSeq ==
    TypeOK => /\ Queued \in Seq(Values)
              /\ Len(Queued) = Distance(readIndex, writeIndex)
              /\ DOMAIN Queued = 1 .. Distance(readIndex, writeIndex)
              /\ \A i \in 1 .. Distance(readIndex, writeIndex) : Queued[i] = Pending(i)
<1> SUFFICES ASSUME TypeOK PROVE QueuedIsSeq!2
  OBVIOUS
<1>1. Distance(readIndex, writeIndex) \in Nat
  BY DistanceBound, SlotsAssumption DEF TypeOK, Indices
<1>2. \A i \in 1 .. Distance(readIndex, writeIndex) : Pending(i) \in Values
  BY PendingSlots
<1>3. Queued \in [1 .. Distance(readIndex, writeIndex) -> Values]
  BY <1>2 DEF Queued
<1>4. Queued \in Seq(Values) /\ Len(Queued) = Distance(readIndex, writeIndex)
  BY <1>1, <1>3, FunctionIsSeq
<1> QED
  BY <1>4 DEF Queued

\* The initial queue is empty.
LEMMA InitRefines == Init => Fifo!Init
<1> SUFFICES ASSUME Init PROVE Fifo!Init
  OBVIOUS
<1>1. TypeOK
  BY InitInv DEF QueueInv
<1>2. Distance(readIndex, writeIndex) = 0
  BY DEF Init, Distance
<1>3. Queued = << >>
  BY <1>1, <1>2, QueuedIsSeq, EmptySeq
<1> QED
  BY <1>3 DEF Init, Fifo!Init

\* A step that moves neither index nor a queued slot leaves the queue alone.
LEMMA QueuedUnchanged ==
    ASSUME TypeOK, UNCHANGED <<readIndex, writeIndex>>,
           \A slot \in Indices : slot # writeIndex => buffer'[slot] = buffer[slot]
    PROVE  Queued' = Queued
<1>1. \A i \in 1 .. Distance(readIndex, writeIndex) : Pending(i)' = Pending(i)
  BY PendingSlots DEF Pending
<1>2. Distance(readIndex, writeIndex)' = Distance(readIndex, writeIndex)
  BY DEF Distance
<1> QED
  BY <1>1, <1>2 DEF Queued

\* Publishing the index puts the element.

\* Storing the writer's index puts the value the producer has filled the slot with.
LEMMA StoreWriteRefines ==
    ASSUME QueueInv, QueueInv', StoreWriteIndex
    PROVE  Fifo!Put(writer.value)
<1> DEFINE n == Distance(readIndex, writeIndex)
<1>1. /\ writer.value \in Values /\ readIndex \in Indices /\ writeIndex \in Indices /\ TypeOK /\ TypeOK'
      /\ buffer[writeIndex] = writer.value
  BY DEF QueueInv, TypeOK, StoreWriteIndex, ValuesHold
<1>2. n \in Nat /\ n < Slots - 1 /\ n' = n + 1
  <2>1. Successor(writeIndex) # readIndex
    BY RoomIsReal DEF QueueInv, ClaimsHold, StoreWriteIndex
  <2>2. Distance(readIndex, Successor(writeIndex)) = n + 1 /\ Successor(writeIndex) \in Indices
    BY <1>1, <2>1, DistanceGrows
  <2> QED BY <1>1, <2>2, DistanceBound, SlotsAssumption DEF StoreWriteIndex, Distance
<1>3. /\ Queued \in Seq(Values) /\ Len(Queued) = n
      /\ \A i \in 1 .. n : Queued[i] = Pending(i)
  BY <1>1, QueuedIsSeq
<1>4. /\ Queued' \in Seq(Values) /\ Len(Queued') = n'
      /\ \A i \in 1 .. n' : Queued'[i] = Pending(i)'
  <2>1. TypeOK' => QueuedIsSeq!2'
    BY QueuedIsSeq, PTL
  <2> QED BY <1>1, <2>1
<1>5. \A i \in 1 .. n : Pending(i)' = Pending(i)
  BY DEF StoreWriteIndex, Pending
<1>6. Pending(n)' = writer.value    \* n, too, is that of the next state
  <2>1. Distance(readIndex, writeIndex)' = n + 1 /\ n + 1 \in Nat
    BY <1>2
  <2>2. LET k == readIndex + n IN (IF k < Slots THEN k ELSE k - Slots) = writeIndex
    BY <1>1, SlotsAssumption DEF Distance, Indices
  <2>3. readIndex' + n' - 1 = readIndex + n
    BY <1>1, <1>2 DEF StoreWriteIndex, Indices
  <2> QED BY <1>1, <2>2, <2>3 DEF StoreWriteIndex, Pending
<1>7. Queued' = Append(Queued, writer.value)
  <2> DEFINE s == Append(Queued, writer.value)
  <2>1. s \in Seq(Values) /\ Len(s) = n + 1 /\ s[n + 1] = writer.value /\ \A i \in 1 .. n : s[i] = Queued[i]
    BY <1>1, <1>2, <1>3, AppendProperties
  <2>2. \A i \in 1 .. n + 1 : Queued'[i] = s[i]
    <3>1. \A i \in 1 .. n : Queued'[i] = s[i]
      BY <1>2, <1>3, <1>4, <1>5, <2>1
    <3>2. Queued'[n'] = writer.value
      BY <1>2, <1>4, <1>6
    <3> QED BY <1>2, <2>1, <3>1, <3>2
  <2> HIDE DEF s, n
  <2>3. Len(Queued') = Len(s)
    BY <1>2, <1>4, <2>1
  <2> QED
    BY <1>2, <1>4, <2>1, <2>2, <2>3, SeqEqual DEF s
<1> QED
  BY <1>2, <1>3, <1>7 DEF Fifo!Put, StoreWriteIndex

\* Storing the reader's index takes the element that was read.
LEMMA StoreReadRefines ==
    ASSUME QueueInv, QueueInv', StoreReadIndex
    PROVE  Fifo!Take
<1> DEFINE n == Distance(readIndex, writeIndex)
<1>1. /\ readIndex \in Indices /\ writeIndex \in Indices /\ TypeOK /\ TypeOK'
      /\ readIndex # writeIndex
      /\ buffer[readIndex] = reader.value
  BY ElementIsReal DEF QueueInv, TypeOK, StoreReadIndex, ValuesHold, ClaimsHold
<1>2. n \in Nat /\ n > 0 /\ n' = n - 1
  <2>1. Distance(Successor(readIndex), writeIndex) = n - 1
    BY <1>1, DistanceShrinks
  <2> QED BY <1>1, <2>1, DistanceBound, SlotsAssumption DEF StoreReadIndex, Distance
<1>3. /\ Queued \in Seq(Values) /\ Len(Queued) = n
      /\ \A i \in 1 .. n : Queued[i] = Pending(i)
  BY <1>1, QueuedIsSeq
<1>4. /\ Queued' \in Seq(Values) /\ Len(Queued') = n'
      /\ \A i \in 1 .. n' : Queued'[i] = Pending(i)'
  <2>1. TypeOK' => QueuedIsSeq!2'
    BY QueuedIsSeq, PTL
  <2> QED BY <1>1, <2>1
<1>5. \A i \in 1 .. n - 1 : Pending(i)' = Pending(i + 1)
  BY <1>1, <1>2, SlotsAssumption DEF StoreReadIndex, Pending, Successor, Indices, Distance
<1>6. Pending(1) = reader.value
  BY <1>1, SlotsAssumption DEF Pending, Indices
<1>7. Queued # << >> /\ Head(Queued) = reader.value
  BY <1>2, <1>3, <1>6, HeadTailProperties, EmptySeq
<1>8. Queued' = Tail(Queued)
  <2> DEFINE s == Tail(Queued)
  <2>1. s \in Seq(Values) /\ Len(s) = n - 1 /\ \A i \in 1 .. n - 1 : s[i] = Queued[i + 1]
    BY <1>2, <1>3, <1>7, HeadTailProperties
  <2>2. \A i \in 1 .. n - 1 : Queued'[i] = s[i]
    BY <1>2, <1>3, <1>4, <1>5, <2>1
  <2> HIDE DEF s, n
  <2>3. Len(Queued') = Len(s)
    BY <1>2, <1>4, <2>1
  <2> QED
    BY <1>2, <1>4, <2>1, <2>2, <2>3, SeqEqual DEF s
<1>9. reader.taken' = <<reader.value>>
  BY <1>1 DEF StoreReadIndex, TypeOK
<1> QED
  BY <1>7, <1>8, <1>9 DEF Fifo!Take

\* Every step puts, takes or stutters.
LEMMA NextRefines ==
    QueueInv /\ QueueInv' /\ [Next]_vars => [Fifo!Next]_<<Queued, reader.taken>>
<1> SUFFICES ASSUME QueueInv, QueueInv', [Next]_vars
             PROVE  [Fifo!Next]_<<Queued, reader.taken>>
  OBVIOUS
<1> USE DEF QueueInv
<1>1. ASSUME UNCHANGED <<buffer, readIndex, writeIndex>>, reader.taken' = reader.taken
      PROVE  UNCHANGED <<Queued, reader.taken>>
  BY <1>1, QueuedUnchanged
<1>2. ASSUME NEW v \in Values, NEW patient \in BOOLEAN, CallEmplace(v, patient)
      PROVE  UNCHANGED <<Queued, reader.taken>>
  BY <1>1, <1>2 DEF CallEmplace
<1>3. ASSUME NEW patient \in BOOLEAN, CallPop(patient) PROVE UNCHANGED <<Queued, reader.taken>>
  BY <1>1, <1>3 DEF CallPop, TypeOK
<1>4. CASE FindSlot
  BY <1>1, <1>4 DEF FindSlot
<1>5. CASE WriteValue
  <2>1. \A slot \in Indices : slot # writeIndex => buffer'[slot] = buffer[slot]
    BY <1>5 DEF WriteValue, TypeOK
  <2> QED BY <1>5, <2>1, QueuedUnchanged DEF WriteValue
<1>6. CASE StoreWriteIndex
  <2>1. writer.value \in Values
    BY DEF TypeOK
  <2> QED BY <1>6, <2>1, StoreWriteRefines DEF Fifo!Next
<1>7. CASE FindElement
  BY <1>1, <1>7 DEF FindElement, TypeOK
<1>8. CASE ReadValue
  BY <1>1, <1>8 DEF ReadValue, TypeOK
<1>9. CASE StoreReadIndex
  BY <1>9, StoreReadRefines DEF Fifo!Next
<1>10. CASE UNCHANGED vars
  BY <1>1, <1>10 DEF vars
<1> QED
  BY <1>2, <1>3, <1>4, <1>5, <1>6, <1>7, <1>8, <1>9, <1>10 DEF Next, Produce, Consume

\* The ring is a bounded first-in first-out queue of Slots - 1 elements.
THEOREM QueueRefines == Spec => ImplementsFifo
BY InitRefines, NextRefines, InvHolds, PTL DEF Spec, ImplementsFifo, Fifo!Spec
=============================================================================
