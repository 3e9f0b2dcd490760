----------------------------- MODULE SpscQueue -----------------------------
(* dro::SPSCQueue (spsc-queue.hpp), the queue between the fifo thread, which *)
(* calls emplace, and the graph thread, which calls empty and pop.  Each     *)
(* step is one access to memory the other thread also uses; release stores   *)
(* and acquire loads of the two indices order the accesses to the slots, so  *)
(* steps interleave.  force_emplace has no caller and is left out.           *)
EXTENDS Naturals, Sequences

CONSTANTS Values,   \* what the elements may be
          Slots     \* capacity_: one more than the capacity asked for

ASSUME SlotsAssumption == Slots \in Nat /\ Slots > 1

VARIABLES writeIndex, readIndexCache,    \* writer_: its index, its copy of the other's
          readIndex, writeIndexCache,    \* reader_: likewise
          buffer,                        \* buffer_ without its padding
          writer,                        \* the call the producer is in
          reader                         \* the call the consumer is in

vars == <<writeIndex, readIndexCache, readIndex, writeIndexCache, buffer, writer, reader>>

Indices == 0 .. Slots - 1

\* The producer is between calls, looks for a free slot, has found one, or has
\* filled it; patient tells emplace from try_emplace.
WriterAt == {"idle", "check", "write", "store"}

\* The consumer likewise; sure tells a pop that follows empty() = false.
ReaderAt == {"idle", "check", "read", "store"}

Successor(i) == IF i = Slots - 1 THEN 0 ELSE i + 1

Init == /\ writeIndex = 0 /\ readIndexCache = 0
        /\ readIndex = 0 /\ writeIndexCache = 0
        /\ buffer \in [Indices -> Values]
        /\ writer \in [at : {"idle"}, value : Values, patient : {TRUE}]
        /\ reader \in [at : {"idle"}, value : Values, patient : {TRUE}, sure : {FALSE}, taken : {<< >>}]

-----------------------------------------------------------------------------
(* The producer. *)

CallEmplace(v, patient) ==
    /\ writer.at = "idle"
    /\ writer' = [at |-> "check", value |-> v, patient |-> patient]
    /\ UNCHANGED <<writeIndex, readIndexCache, readIndex, writeIndexCache, buffer, reader>>

\* Variant: the last slot is used as well.
FindSlotFull ==
    /\ writer.at = "check"
    /\ readIndexCache' = readIndex
    /\ writer' = [writer EXCEPT !.at = "write"]
    /\ UNCHANGED <<writeIndex, readIndex, writeIndexCache, buffer, reader>>

\* The loop of emplace, and the two tests of try_emplace: the copy of the
\* reader's index is refreshed only when it says that the queue is full.
FindSlot ==
    LET next == Successor(writeIndex) IN
    /\ writer.at = "check"
    /\ \/ /\ next # readIndexCache
          /\ writer' = [writer EXCEPT !.at = "write"]
          /\ UNCHANGED readIndexCache
       \/ /\ next = readIndexCache
          /\ readIndexCache' = readIndex
          /\ writer' = [writer EXCEPT !.at = IF writer.patient THEN "check"
                                             ELSE IF next = readIndex THEN "idle" ELSE "write"]
    /\ UNCHANGED <<writeIndex, readIndex, writeIndexCache, buffer, reader>>

WriteValue ==
    /\ writer.at = "write"
    /\ buffer' = [buffer EXCEPT ![writeIndex] = writer.value]
    /\ writer' = [writer EXCEPT !.at = "store"]
    /\ UNCHANGED <<writeIndex, readIndexCache, readIndex, writeIndexCache, reader>>

StoreWriteIndex ==
    /\ writer.at = "store"
    /\ writeIndex' = Successor(writeIndex)
    /\ writer' = [writer EXCEPT !.at = "idle"]
    /\ UNCHANGED <<readIndexCache, readIndex, writeIndexCache, buffer, reader>>

-----------------------------------------------------------------------------
(* The consumer. *)

\* Variant: empty() compares the writer's index with its copy of the reader's.
CallPopCached(patient) ==
    /\ reader.at = "idle"
    /\ \E sure \in BOOLEAN :
          /\ sure => writeIndex # readIndexCache
          /\ reader' = [reader EXCEPT !.at = "check", !.patient = patient, !.sure = sure]
    /\ UNCHANGED <<writeIndex, readIndexCache, readIndex, writeIndexCache, buffer, writer>>

\* pop or try_pop; the graph thread calls pop only after empty() said no.
CallPop(patient) ==
    /\ reader.at = "idle"
    /\ \E sure \in BOOLEAN :
          /\ sure => writeIndex # readIndex
          /\ reader' = [reader EXCEPT !.at = "check", !.patient = patient, !.sure = sure]
    /\ UNCHANGED <<writeIndex, readIndexCache, readIndex, writeIndexCache, buffer, writer>>

\* Variant: the copy of the other index is never refreshed.
FindElementStale == /\ reader.at = "check"
                    /\ reader' = [reader EXCEPT !.at = IF readIndex # writeIndexCache THEN "read" ELSE "check"]
                    /\ UNCHANGED <<writeIndexCache, writeIndex, readIndexCache, readIndex, buffer, writer>>

FindElement ==
    /\ reader.at = "check"
    /\ \/ /\ readIndex # writeIndexCache
          /\ reader' = [reader EXCEPT !.at = "read"]
          /\ UNCHANGED writeIndexCache
       \/ /\ readIndex = writeIndexCache
          /\ writeIndexCache' = writeIndex
          /\ reader' = [reader EXCEPT !.at = IF reader.patient THEN "check"
                                             ELSE IF readIndex = writeIndex THEN "idle" ELSE "read"]
    /\ UNCHANGED <<writeIndex, readIndexCache, readIndex, buffer, writer>>

ReadValue ==
    /\ reader.at = "read"
    /\ reader' = [reader EXCEPT !.at = "store", !.value = buffer[readIndex]]
    /\ UNCHANGED <<writeIndex, readIndexCache, readIndex, writeIndexCache, buffer, writer>>

\* Variant: the index is stored before the value is read.
StoreReadIndexEarly ==
    /\ reader.at \in {"read", "store"}
    /\ readIndex' = Successor(readIndex)
    /\ reader' = [reader EXCEPT !.at = "idle", !.taken = <<reader.value>>]
    /\ UNCHANGED <<writeIndex, readIndexCache, writeIndexCache, buffer, writer>>

StoreReadIndex ==
    /\ reader.at = "store"
    /\ readIndex' = Successor(readIndex)
    /\ reader' = [reader EXCEPT !.at = "idle", !.taken = <<reader.value>>]
    /\ UNCHANGED <<writeIndex, readIndexCache, writeIndexCache, buffer, writer>>

-----------------------------------------------------------------------------
Produce == FindSlot \/ WriteValue \/ StoreWriteIndex
Consume == FindElement \/ ReadValue \/ StoreReadIndex

Next == \/ \E v \in Values, patient \in BOOLEAN : CallEmplace(v, patient)
        \/ \E patient \in BOOLEAN : CallPop(patient)
        \/ Produce \/ Consume

Spec == Init /\ [][Next]_vars

\* Both threads keep running once they are inside a call.
FairSpec == Spec /\ WF_vars(Produce) /\ WF_vars(Consume)

-----------------------------------------------------------------------------
(* Properties. *)

\* The indices stay inside the buffer and the calls inside their steps.
TypeOK == /\ {writeIndex, readIndexCache, readIndex, writeIndexCache} \subseteq Indices
          /\ buffer \in [Indices -> Values]
          /\ writer \in [at : WriterAt, value : Values, patient : BOOLEAN]
          /\ reader \in [at : ReaderAt, value : Values, patient : BOOLEAN, sure : BOOLEAN,
                         taken : {<< >>} \cup {<<v>> : v \in Values}]

\* Steps from one index to the other, around the end of the buffer.
Distance(from, to) == IF to >= from THEN to - from ELSE Slots - from + to

\* The two threads never touch the same slot: the producer fills only free
\* slots, the consumer reads only published ones (the point of the indices).
SlotsApart == (writer.at \in {"write", "store"} /\ reader.at \in {"read", "store"}) => writeIndex # readIndex

\* A pop that follows empty() = false never waits for the producer, which is
\* what graphHandler counts on while it holds m_graph_mtx.
SurePop == (reader.at = "check" /\ reader.sure) => writeIndex # readIndex

\* The element the i-th pop from now on delivers.
Pending(i) == LET k == readIndex + i - 1 IN buffer[IF k < Slots THEN k ELSE k - Slots]

Queued == [i \in 1 .. Distance(readIndex, writeIndex) |-> Pending(i)]

Fifo == INSTANCE BoundedFifo WITH queue <- Queued, taken <- reader.taken, Capacity <- Slots - 1

\* The queue is a bounded first-in first-out queue: nothing is lost, repeated,
\* reordered or overwritten, and it never holds more than its capacity.
ImplementsFifo == Fifo!Spec

\* A producer that waits while there is room gets its slot, and a consumer that
\* waits while there is an element gets it: copies of the other index that are
\* out of date are refreshed.
WaitingEnds ==
    /\ (writer.at = "check" /\ Successor(writeIndex) # readIndex) ~> writer.at = "idle"
    /\ (reader.at = "check" /\ writeIndex # readIndex) ~> reader.at = "idle"
=============================================================================
