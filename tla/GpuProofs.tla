------------------------------ MODULE GpuProofs -----------------------------
(* Pgraph for any number of channels and any capacity: the graph thread      *)
(* never sleeps over work, whatever the title writes, and with a title that  *)
(* only acknowledges what it has served an object is bound under its channel.*)
(* PmcIrq for any list of engines and any threads that raise their           *)
(* interrupts: the registers keep their types, and as long as the CPU thread *)
(* raises all interrupts INTR_0 and the line say what the engines say.       *)
EXTENDS Pgraph, PmcIrq, SequenceTheorems, TLAPS

-----------------------------------------------------------------------------
(* The graph thread *)

\* Whoever deinit has rung up leaves: the last wake-up is never lost.
LastRing == /\ stop <=> cpuPc \in {"stopTrig", "stopRing", "join", "joinFifo", "gone"}
            /\ (cpuPc \in {"join", "joinFifo", "gone"} /\ graphPc \notin {"drain", "exited"}) => hasWork

\* NoLostWork, from the moment the thread has found nothing to do.
Attentive ==
    (graphPc \in {"wait", "done"} /\ ~hasWork /\ queue # << >> /\ Granted)
        => fifoPc = "ring" \/ cpuPc \in {"ring", "stopTrig", "stopRing"}

WorkInv == TypeOK /\ LastRing /\ Attentive

LEMMA InitWork == Init => WorkInv
<1> SUFFICES ASSUME Init PROVE WorkInv
  OBVIOUS
<1>1. queue \in Seq(Entries) /\ Len(queue) = 0
  BY EmptySeq DEF Init
<1>2. pmcEnable \in BOOLEAN
  BY DEF Init
<1>3. {hasWork, trig, intStatus, busy, shouldExit, stop} \cup {fifoAccess, pmcEnable, isEnabled} \subseteq BOOLEAN
  <2>1. {hasWork, trig, intStatus, busy, shouldExit, stop} \cup {fifoAccess} \subseteq BOOLEAN
    BY DEF Init
  <2>2. isEnabled = pmcEnable
    BY DEF Init
  <2> QED BY <1>2, <2>1, <2>2
<1>4. TypeOK
  BY <1>1, <1>3, PgraphAssumption DEF Init, TypeOK, Entries
<1>5. LastRing
  BY DEF Init, LastRing
<1>6. Attentive
  BY DEF Init, Attentive
<1> QED
  BY <1>4, <1>5, <1>6 DEF WorkInv

\* The queue keeps its type when an entry is added or taken.
LEMMA QueueTypes ==
    ASSUME NEW q \in Seq(Entries), NEW e \in Entries
    PROVE  /\ Append(q, e) \in Seq(Entries) /\ Len(Append(q, e)) = Len(q) + 1 /\ Len(q) \in Nat
           /\ q # << >> => Head(q) \in Entries /\ Tail(q) \in Seq(Entries) /\ Len(Tail(q)) = Len(q) - 1
BY AppendProperties, HeadTailProperties, LenProperties

\* Every step keeps WorkInv: one step of the proof for every action.
LEMMA NextWork == WorkInv /\ [Next]_vars => WorkInv'
<1> SUFFICES ASSUME WorkInv, [Next]_vars PROVE WorkInv'
  OBVIOUS
<1> USE PgraphAssumption DEF WorkInv, TypeOK, LastRing, Attentive, Granted, lines, enables
<1>1. CASE \E e \in Entries : Submit(e)
  BY <1>1 DEF Submit
<1>2. CASE Emplace
  BY <1>2, QueueTypes DEF Emplace
<1>3. CASE Ring
  BY <1>3 DEF Ring, FifoStopped
<1>4. CASE Leave
  BY <1>4 DEF Leave
<1>5. CASE Wake
  BY <1>5 DEF Wake
<1>6. CASE TakeEntry
  <2>1. queue # << >> /\ queue' = Tail(queue) /\ elem' = Head(queue) /\ queue \in Seq(Entries)
    BY <1>6 DEF TakeEntry
  <2>2. queue' \in Seq(Entries) /\ Len(queue') =< Capacity /\ elem' \in Entries
    BY <2>1, QueueTypes
  <2> QED BY <1>6, <2>2 DEF TakeEntry
<1>7. CASE Trap
  BY <1>7 DEF Trap
<1>8. CASE RaiseInterrupt
  BY <1>8 DEF RaiseInterrupt
<1>9. CASE SetTrig
  BY <1>9 DEF SetTrig
<1>10. CASE Resume
  BY <1>10 DEF Resume
<1>11. CASE Execute
  BY <1>11 DEF Execute
<1>12. CASE LoopEnds
  BY <1>12 DEF LoopEnds
<1>13. CASE Done
  BY <1>13 DEF Done
<1>14. CASE Drain
  <2>1. queue' \in Seq(Entries) /\ Len(queue') =< Capacity
    BY <1>14, QueueTypes DEF Drain
  <2> QED BY <1>14, <2>1 DEF Drain
<1>15. CASE SwitchChannel
  BY <1>15 DEF SwitchChannel
<1>16. CASE \E b \in BOOLEAN : WriteIntr(b)
  BY <1>16 DEF WriteIntr
<1>17. CASE ClearTrig
  BY <1>17 DEF ClearTrig
<1>18. CASE \E b \in BOOLEAN : WriteFifo(b)
  BY <1>18 DEF WriteFifo
<1>19. CASE \E b \in BOOLEAN : WriteEnable(b)
  <2> SUFFICES ASSUME NEW b \in BOOLEAN, WriteEnable(b) PROVE WorkInv'
    BY <1>19
  <2>1. CASE b
    BY <2>1 DEF WriteEnable, Entries
  <2>2. CASE ~b
    BY <2>2 DEF WriteEnable, Entries
  <2> QED BY <2>1, <2>2
<1>20. CASE UpdateIo
  <2>1. isEnabled' = pmcEnable /\ pmcEnable \in BOOLEAN
    BY <1>20 DEF UpdateIo
  <2>2. isEnabled' \in BOOLEAN
    BY <2>1
  <2>3. TypeOK'
    BY <1>20, <2>2 DEF UpdateIo
  <2>4. LastRing' /\ Attentive'
    BY <1>20 DEF UpdateIo
  <2> QED BY <2>3, <2>4
<1>21. CASE RingUp
  BY <1>21 DEF RingUp
<1>22. CASE StopFifo
  BY <1>22 DEF StopFifo
<1>23. CASE StopGraph
  BY <1>23 DEF StopGraph
<1>24. CASE StopTrig
  BY <1>24 DEF StopTrig
<1>25. CASE Join
  BY <1>25 DEF Join
<1>26. CASE UNCHANGED vars
  BY <1>26 DEF vars
<1> QED
  BY <1>1, <1>2, <1>3, <1>4, <1>5, <1>6, <1>7, <1>8, <1>9, <1>10, <1>11, <1>12, <1>13, <1>14, <1>15,
     <1>16, <1>17, <1>18, <1>19, <1>20, <1>21, <1>22, <1>23, <1>24, <1>25, <1>26
     DEF Next, Fifo, Graph, Cpu

LEMMA WorkHolds == Spec => []WorkInv
BY InitWork, NextWork, PTL DEF Spec

\* The graph thread holds the lock exactly where it should, the queue its bound.
THEOREM PgraphTyped == Spec => []TypeOK
BY WorkHolds, PTL DEF WorkInv

\* No wake-up of the graph thread is lost, also when the title disables the
\* engine, stops the queue or writes INTR at any time, and up to the end.
THEOREM WorkNeverLost == Spec => []NoLostWork
<1>1. WorkInv => NoLostWork
  BY DEF WorkInv, Attentive, NoLostWork
<1> QED BY <1>1, WorkHolds, PTL

-----------------------------------------------------------------------------
(* The channel, for a steady title. *)

\* The title that runs is never another one.
LEMMA TitleStays == [Next]_vars => title' = title
<1> SUFFICES ASSUME Next PROVE title' = title
  BY DEF vars
<1>1. CASE Fifo \/ \E e \in Entries : Submit(e)
  BY <1>1 DEF Fifo, Submit, Emplace, Ring, Leave
<1>2. CASE Graph
  BY <1>2 DEF Graph, Wake, TakeEntry, Trap, RaiseInterrupt, SetTrig, Resume, Execute, LoopEnds, Done, Drain
<1>3. CASE Cpu \/ StopFifo \/ SwitchChannel
  BY <1>3 DEF Cpu, ClearTrig, UpdateIo, RingUp, StopGraph, StopTrig, Join, StopFifo, SwitchChannel
<1>4. CASE \E b \in BOOLEAN : WriteIntr(b) \/ WriteFifo(b) \/ WriteEnable(b)
  BY <1>4 DEF WriteIntr, WriteFifo, WriteEnable
<1> QED BY <1>1, <1>2, <1>3, <1>4 DEF Next

\* The interrupt asks for the channel of the entry in hand, which is not
\* current before the title may touch it.
Asking == /\ graphPc \in {"interrupt", "setTrig", "waitTrig"} => trapped = elem
          /\ graphPc \in {"trap", "interrupt", "setTrig"} => channel # elem
          /\ intStatus => graphPc \in {"setTrig", "waitTrig"} \/ stop

\* The thread is let go only by a title that has switched, or by deinit.
Answered == /\ (graphPc = "waitTrig" /\ ~trig) => (channel = elem /\ ~intStatus) \/ stop
            /\ cpuPc = "clearTrig" => graphPc = "waitTrig" /\ trig /\ channel = elem /\ ~intStatus

ChannelInv == TypeOK /\ LastRing /\ Asking /\ Answered /\ RightChannel

LEMMA InitChannel == Init => ChannelInv
BY InitWork DEF Init, WorkInv, ChannelInv, Asking, Answered, RightChannel

LEMMA NextChannel ==
    WorkInv /\ WorkInv' /\ (Steady => ChannelInv) /\ [Next]_vars => (Steady => ChannelInv)'
<1> SUFFICES ASSUME WorkInv, WorkInv', Steady => ChannelInv, [Next]_vars, Steady' PROVE ChannelInv'
  OBVIOUS
<1>0. ChannelInv /\ "stray" \notin title /\ "disables" \notin title
  BY TitleStays DEF Steady
<1>1. TypeOK /\ TypeOK' /\ LastRing /\ LastRing'
  BY DEF WorkInv
<1> SUFFICES ASSUME TRUE PROVE Asking' /\ Answered' /\ RightChannel'
  BY <1>1 DEF ChannelInv
<1> USE <1>0, <1>1 DEF ChannelInv, TypeOK, LastRing, Asking, Answered, RightChannel, lines, enables
<1>2. CASE Fifo \/ \E e \in Entries : Submit(e)
  BY <1>2 DEF Fifo, Submit, Emplace, Ring, Leave
<1>3. CASE Wake
  BY <1>3 DEF Wake
<1>15. CASE LoopEnds
  BY <1>15 DEF LoopEnds
<1>16. CASE Done
  BY <1>16 DEF Done
<1>17. CASE Drain
  BY <1>17 DEF Drain
<1>18. CASE Execute
  BY <1>18 DEF Execute
<1>4. CASE TakeEntry
  BY <1>4 DEF TakeEntry
<1>5. CASE Trap
  BY <1>5 DEF Trap
<1>6. CASE RaiseInterrupt
  BY <1>6 DEF RaiseInterrupt
<1>7. CASE SetTrig
  BY <1>7 DEF SetTrig
<1>8. CASE Resume
  <2>1. Asking'
    BY <1>8 DEF Resume
  <2>2. Answered'
    BY <1>8 DEF Resume
  <2>3. RightChannel'
    BY <1>8 DEF Resume
  <2> QED BY <2>1, <2>2, <2>3
<1>9. CASE SwitchChannel
  <2>1. graphPc \notin {"trap", "interrupt", "setTrig", "execute"}
    BY <1>9 DEF SwitchChannel
  <2>2. Asking'
    BY <1>9, <2>1 DEF SwitchChannel
  <2>3. Answered' /\ RightChannel'
    BY <1>9, <2>1 DEF SwitchChannel
  <2> QED BY <2>2, <2>3
<1>10. CASE \E b \in BOOLEAN : WriteIntr(b)
  BY <1>10 DEF WriteIntr
<1>11. CASE ClearTrig
  BY <1>11 DEF ClearTrig
<1>12. CASE \E b \in BOOLEAN : WriteFifo(b) \/ WriteEnable(b)
  BY <1>12 DEF WriteFifo, WriteEnable
<1>13. CASE UpdateIo \/ RingUp \/ StopFifo \/ StopGraph \/ StopTrig \/ Join
  BY <1>13 DEF UpdateIo, RingUp, StopFifo, StopGraph, StopTrig, Join
<1>14. CASE UNCHANGED vars
  BY <1>14 DEF vars
<1> QED
  BY <1>2, <1>3, <1>4, <1>5, <1>6, <1>7, <1>8, <1>9, <1>10, <1>11, <1>12, <1>13, <1>14, <1>15, <1>16,
     <1>17, <1>18 DEF Next, Graph, Cpu

\* With a steady title an object is bound only under the channel it was submitted
\* for, and deinit never turns a wait for the title into a binding.
THEOREM ChannelIsRight == Spec => []SteadyRightChannel
<1>1. WorkInv /\ WorkInv' /\ (Steady => ChannelInv) /\ [Next]_vars => (Steady => ChannelInv)'
  BY NextChannel
<1>2. (Steady => ChannelInv) => SteadyRightChannel
  BY DEF ChannelInv, SteadyRightChannel
<1>3. Init => (Steady => ChannelInv)
  BY InitChannel
<1> QED BY <1>1, <1>2, <1>3, WorkHolds, PTL DEF Spec
-----------------------------------------------------------------------------
(* What the graph thread waits for. *)

\* Between the interrupt and the flag the title cannot clear the flag: a write
\* to INTR that comes too early is stopped by the lock, and finds it set later.
Awaited == ("disables" \notin title /\ (graphPc = "setTrig" \/ (graphPc = "waitTrig" /\ trig)))
               => intStatus \/ cpuPc = "clearTrig"

LEMMA NextAwaited == TypeOK /\ Awaited /\ [Next]_vars => Awaited'
<1> SUFFICES ASSUME TypeOK, Awaited, [Next]_vars PROVE Awaited'
  OBVIOUS
<1>0. title' = title
  BY TitleStays
<1> USE <1>0 DEF TypeOK, Awaited, lines, enables
<1>1. CASE Fifo \/ \E e \in Entries : Submit(e)
  BY <1>1 DEF Fifo, Submit, Emplace, Ring, Leave
<1>2. CASE Wake \/ TakeEntry \/ Trap \/ Resume \/ Execute \/ LoopEnds \/ Done \/ Drain
  BY <1>2 DEF Wake, TakeEntry, Trap, Resume, Execute, LoopEnds, Done, Drain
<1>3. CASE RaiseInterrupt \/ SetTrig
  BY <1>3 DEF RaiseInterrupt, SetTrig
<1>4. CASE ClearTrig \/ UpdateIo \/ RingUp \/ StopGraph \/ StopTrig \/ Join
  BY <1>4 DEF ClearTrig, UpdateIo, RingUp, StopGraph, StopTrig, Join
<1>5. CASE StopFifo \/ SwitchChannel
  BY <1>5 DEF StopFifo, SwitchChannel
<1>6. CASE \E b \in BOOLEAN : WriteIntr(b)
  BY <1>6 DEF WriteIntr
<1>7. CASE \E b \in BOOLEAN : WriteFifo(b) \/ WriteEnable(b)
  BY <1>7 DEF WriteFifo, WriteEnable
<1>8. CASE UNCHANGED vars
  BY <1>8 DEF vars
<1> QED BY <1>1, <1>2, <1>3, <1>4, <1>5, <1>6, <1>7, <1>8 DEF Next, Graph, Cpu

\* While the graph thread waits for the title there is an interrupt the title can
\* clear, or the title is about to let it go, whatever it writes to INTR and when.
THEOREM WaitIsCaused == Spec => []WaitHasCause
<1>1. Init => Awaited
  BY DEF Init, Awaited
<1>2. Awaited => WaitHasCause
  BY DEF Awaited, WaitHasCause
<1> QED BY <1>1, <1>2, NextAwaited, PgraphTyped, PTL DEF Spec

-----------------------------------------------------------------------------
(* The interrupt of the GPU *)

LEMMA OrderTyped == Len(Order) \in Nat \ {0} /\ \A i \in 1 .. Len(Order) : Order[i] \in Engines
BY PmcAssumption DEF Engines

LEMMA ThreadsTyped == "cpu" \in Threads /\ \A e \in Engines : Raisers[e] \in Threads
BY DEF Threads

LEMMA InitTyped == PmcInit => PmcTypeOK
<1> SUFFICES ASSUME PmcInit PROVE PmcTypeOK
  OBVIOUS
<1>1. intr \in [Engines -> BOOLEAN] /\ enabled \in [Engines -> BOOLEAN]
  BY DEF PmcInit
<1>2. pos \in [Threads -> 1 .. Len(Order)]
  BY OrderTyped DEF PmcInit
<1>3. seen \in [Threads -> BOOLEAN]
  BY DEF PmcInit
<1> QED BY <1>1, <1>2, <1>3 DEF PmcInit, PmcTypeOK

\* One step for every access of updateIrq and every caller.
LEMMA NextTyped == PmcTypeOK /\ [PmcNext]_pmcVars => PmcTypeOK'
<1> SUFFICES ASSUME PmcTypeOK, [PmcNext]_pmcVars PROVE PmcTypeOK'
  OBVIOUS
<1> USE OrderTyped, ThreadsTyped DEF PmcTypeOK, engines, threads, Goto, CallUpdateIrq
<1>1. ASSUME NEW t \in Threads, ReadIntr(t) PROVE PmcTypeOK'
  BY <1>1 DEF ReadIntr
<1>2. ASSUME NEW t \in Threads, ReadEnabled(t) PROVE PmcTypeOK'
  BY <1>2 DEF ReadEnabled
<1>3. ASSUME NEW t \in Threads, SetBit(t) PROVE PmcTypeOK'
  <2>1. pos' \in [Threads -> 1 .. Len(Order)]
    <3>1. CASE More(t)
      BY <1>3, <3>1 DEF SetBit, More
    <3>2. CASE ~More(t)
      BY <1>3, <3>2 DEF SetBit
    <3> QED BY <3>1, <3>2
  <2>2. pos[t] \in 1 .. Len(Order)
    OBVIOUS
  <2>3. status' \subseteq Engines \cup {"software"}
    BY <1>3, <2>2 DEF SetBit, Gather
  <2> QED BY <1>3, <2>1, <2>3 DEF SetBit
<1>4. ASSUME NEW t \in Threads, ReadMode(t) PROVE PmcTypeOK'
  BY <1>4 DEF ReadMode
<1>5. ASSUME NEW t \in Threads, ReadStatus(t) PROVE PmcTypeOK'
  BY <1>5 DEF ReadStatus
<1>6. ASSUME NEW t \in Threads, DriveLine(t) PROVE PmcTypeOK'
  BY <1>6 DEF DriveLine
<1>7. ASSUME NEW e \in Engines, Raise(e) PROVE PmcTypeOK'
  BY <1>7 DEF Raise
<1>8. ASSUME NEW e \in Engines, WriteEngineIntr(e) PROVE PmcTypeOK'
  BY <1>8 DEF WriteEngineIntr
<1>14. ASSUME NEW e \in Engines, NEW b \in BOOLEAN, WriteIntrEn(e, b) PROVE PmcTypeOK'
  BY <1>14 DEF WriteIntrEn
<1>9. ASSUME NEW bit \in SUBSET {"software"}, ReadSoftware(bit) PROVE PmcTypeOK'
  BY <1>9 DEF ReadSoftware
<1>10. CASE WriteSoftware
  BY <1>10 DEF WriteSoftware
<1>11. ASSUME NEW m \in {"disabled", "hardware", "software"}, WriteMode(m) PROVE PmcTypeOK'
  BY <1>11 DEF WriteMode
<1>12. ASSUME NEW off \in SUBSET Engines, WritePmcEnable(off) PROVE PmcTypeOK'
  BY <1>12 DEF WritePmcEnable
<1>13. CASE UNCHANGED pmcVars
  BY <1>13 DEF pmcVars
<1> QED
  BY <1>1, <1>2, <1>3, <1>4, <1>5, <1>6, <1>7, <1>8, <1>9, <1>10, <1>11, <1>12, <1>13, <1>14
     DEF PmcNext, UpdateIrq, TitleStep

\* INTR_0 and the line, the program counters of all threads and what they have
\* read keep their types, for any number of engines and threads.
THEOREM PmcTyped == PmcSpec => []PmcTypeOK
BY InitTyped, NextTyped, PTL DEF PmcSpec

-----------------------------------------------------------------------------
(* One thread only *)

\* The threads that draw are not in updateIrq.
Alone == \A t \in Threads \ {"cpu"} : pc[t] = "out"

\* The bits of the engines up to position k are the ones they should be.
GatheredTo(k) == \A i \in 1 .. k : Order[i] \in status <=> Pending(Order[i])

Asked == status \cap Counting(mode) # {}

\* What the CPU thread has gathered at each access of updateIrq, and what it has
\* read besides.
Progress ==
    LET here == pc["cpu"]
        at == pos["cpu"]
        read == seen["cpu"] IN
    /\ here \in {"intr", "enabled", "bit"} => GatheredTo(at - 1)
    /\ here = "enabled" => read = intr[Order[at]]
    /\ here = "bit" => read = Pending(Order[at])
    /\ here \in {"mode", "hardware", "software", "drive", "out"} => GatheredTo(Len(Order))
    /\ here \in {"hardware", "software"} => mode = here
    /\ here = "drive" => read = Asked
    /\ here = "out" => line = Asked

FollowInv == ~draws => Alone /\ Progress

LEMMA InitFollows == PmcInit => FollowInv
<1> SUFFICES ASSUME PmcInit PROVE Alone /\ Progress
  BY DEF FollowInv
<1>1. Alone /\ pc["cpu"] = "out"
  BY ThreadsTyped DEF PmcInit, Alone
<1>2. GatheredTo(Len(Order))
  BY OrderTyped DEF PmcInit, GatheredTo, Pending
<1>3. line = Asked
  BY DEF PmcInit, Asked, Counting
<1> QED BY <1>1, <1>2, <1>3 DEF Progress

\* Setting one bit leaves the ones before it as they are.
LEMMA GatherKeeps ==
    ASSUME PmcTypeOK, NEW t \in Threads, Gather(t), UNCHANGED engines, NEW k \in 1 .. Len(Order), k = pos[t],
           GatheredTo(k - 1), seen[t] = Pending(Order[k])
    PROVE  GatheredTo(k)'
<1>1. k \in Nat \ {0}
  BY OrderTyped
<1> SUFFICES ASSUME NEW i \in 1 .. k PROVE (Order[i] \in status <=> Pending(Order[i]))'
  BY DEF GatheredTo
<1>2. Pending(Order[i])' <=> Pending(Order[i])
  BY DEF Pending, engines
<1>3. CASE Order[i] = Order[k]
  BY <1>2, <1>3 DEF Gather
<1>4. CASE Order[i] # Order[k]
  <2>1. i \in 1 .. k - 1
    BY <1>1, <1>4
  <2> QED BY <1>2, <1>4, <2>1 DEF Gather, GatheredTo
<1> QED BY <1>3, <1>4

\* Steps of updateIrq of the CPU thread; the others take none.
LEMMA UpdateFollows ==
    ASSUME PmcTypeOK, Alone, Progress, UpdateIrq("cpu")
    PROVE  Progress'
<1>1. PICK at \in 1 .. Len(Order) : at = pos["cpu"]
  BY ThreadsTyped DEF PmcTypeOK
<1>0. at \in Nat \ {0} /\ Len(Order) \in Nat \ {0}
  BY OrderTyped
<1> USE ThreadsTyped DEF PmcTypeOK, Progress, Goto, engines
<1>2. CASE ReadIntr("cpu")
  <2>1. GatheredTo(at - 1)'
    BY <1>1, <1>2 DEF ReadIntr, GatheredTo, Pending
  <2> QED BY <1>1, <1>2, <2>1 DEF ReadIntr
<1>3. CASE ReadEnabled("cpu")
  <2>1. GatheredTo(at - 1)'
    BY <1>1, <1>3 DEF ReadEnabled, GatheredTo, Pending
  <2>2. seen'["cpu"] = Pending(Order[at])'
    BY <1>1, <1>3 DEF ReadEnabled, Pending
  <2> QED BY <1>1, <1>3, <2>1, <2>2 DEF ReadEnabled
<1>4. CASE SetBit("cpu")
  <2>1. GatheredTo(at)'
    <3>1. Gather("cpu") /\ UNCHANGED engines /\ GatheredTo(at - 1) /\ seen["cpu"] = Pending(Order[at])
      BY <1>1, <1>4 DEF SetBit
    <3> QED BY <1>1, <3>1, GatherKeeps
  <2>2. CASE More("cpu") /\ pos' = [pos EXCEPT !["cpu"] = @ + 1] /\ Goto("cpu", "intr")
    <3>1. pos'["cpu"] - 1 = at /\ pc'["cpu"] = "intr"
      BY <1>0, <1>1, <2>2
    <3> QED BY <2>1, <3>1
  <2>3. CASE ~More("cpu") /\ Goto("cpu", "mode")
    <3>1. at = Len(Order) /\ pc'["cpu"] = "mode"
      BY <1>0, <1>1, <2>3 DEF More
    <3> QED BY <2>1, <3>1
  <2> QED BY <1>4, <2>2, <2>3 DEF SetBit
<1>5. CASE ReadMode("cpu")
  <2>1. GatheredTo(Len(Order))'
    BY <1>5 DEF ReadMode, GatheredTo, Pending
  <2>2. pc'["cpu"] = "drive" => Asked' = FALSE /\ seen'["cpu"] = FALSE
    BY <1>5 DEF ReadMode, Asked, Counting
  <2>3. pc'["cpu"] \in {"hardware", "software"} => mode' = pc'["cpu"]
    BY <1>5 DEF ReadMode
  <2>4. pc'["cpu"] \in {"hardware", "software", "drive"}
    BY <1>5 DEF ReadMode
  <2> QED BY <2>1, <2>2, <2>3, <2>4
<1>6. CASE ReadStatus("cpu")
  <2>1. GatheredTo(Len(Order))'
    BY <1>6 DEF ReadStatus, GatheredTo, Pending
  <2>2. seen'["cpu"] = Asked' /\ pc'["cpu"] = "drive"
    BY <1>6 DEF ReadStatus, Asked
  <2> QED BY <2>1, <2>2
<1>7. CASE DriveLine("cpu")
  <2>1. GatheredTo(Len(Order))'
    BY <1>7 DEF DriveLine, GatheredTo, Pending
  <2>2. line' = Asked' /\ pc'["cpu"] = "out"
    BY <1>7 DEF DriveLine, Asked
  <2> QED BY <2>1, <2>2
<1> QED BY <1>2, <1>3, <1>4, <1>5, <1>6, <1>7 DEF UpdateIrq

\* Whoever calls updateIrq starts at the first engine with nothing gathered.
LEMMA CallFollows ==
    ASSUME PmcTypeOK, CallUpdateIrq("cpu")
    PROVE  Progress'
<1>1. pos'["cpu"] = 1 /\ pc'["cpu"] = "intr"
  BY ThreadsTyped DEF PmcTypeOK, CallUpdateIrq, Goto
<1>2. GatheredTo(0)'
  BY DEF GatheredTo
<1> QED BY <1>1, <1>2 DEF Progress

LEMMA NextFollows == PmcTypeOK /\ FollowInv /\ [PmcNext]_pmcVars => FollowInv'
<1> SUFFICES ASSUME PmcTypeOK, FollowInv, [PmcNext]_pmcVars, ~draws' PROVE Alone' /\ Progress'
  BY DEF FollowInv
<1>1. draws' = draws
  BY DEF PmcNext, pmcVars, UpdateIrq, ReadIntr, ReadEnabled, SetBit, ReadMode, ReadStatus, DriveLine, Raise, TitleStep,
         WriteEngineIntr, WriteIntrEn, ReadSoftware, WriteSoftware, WriteMode, WritePmcEnable
<1>2. Alone /\ Progress
  BY <1>1 DEF FollowInv
<1>3. ASSUME NEW t \in Threads, UpdateIrq(t) PROVE Alone' /\ Progress'
  <2>1. t = "cpu"
    BY <1>2, <1>3 DEF Alone, UpdateIrq, ReadIntr, ReadEnabled, SetBit, ReadMode, ReadStatus, DriveLine
  <2>2. Alone'
    BY <1>2, <1>3, <2>1 DEF Alone, PmcTypeOK, Goto, UpdateIrq, ReadIntr, ReadEnabled, SetBit, ReadMode, ReadStatus, DriveLine
  <2> QED BY <1>2, <1>3, <2>1, <2>2, UpdateFollows
<1>4. ASSUME NEW e \in Engines, Raise(e) PROVE Alone' /\ Progress'
  <2>1. Raisers[e] = "cpu" /\ CallUpdateIrq("cpu")
    BY <1>1, <1>4 DEF Raise
  <2>2. Alone'
    BY <1>2, <2>1 DEF Alone, PmcTypeOK, CallUpdateIrq, Goto
  <2> QED BY <2>1, <2>2, CallFollows
<1>5. CASE \E bit \in SUBSET {"software"} : ReadSoftware(bit)
  <2>1. pc' = [pc EXCEPT !["cpu"] = "store"]
    BY <1>5 DEF ReadSoftware, Goto
  <2>2. Alone'
    BY <1>2, <2>1 DEF Alone, PmcTypeOK
  <2> QED BY <2>1, <2>2, ThreadsTyped DEF Progress, PmcTypeOK
<1>6. CASE TitleStep /\ CallUpdateIrq("cpu")
  <2>1. Alone'
    BY <1>2, <1>6 DEF Alone, PmcTypeOK, CallUpdateIrq, Goto
  <2> QED BY <1>6, <2>1, CallFollows
<1>7. CASE UNCHANGED pmcVars
  <2>1. Alone'
    BY <1>2, <1>7 DEF pmcVars, threads, Alone
  <2>2. Progress'
    BY <1>2, <1>7 DEF pmcVars, threads, engines, Progress, GatheredTo, Pending, Asked
  <2> QED BY <2>1, <2>2
<1>8. TitleStep => CallUpdateIrq("cpu") \/ \E bit \in SUBSET {"software"} : ReadSoftware(bit)
  BY DEF TitleStep, WriteEngineIntr, WriteIntrEn, WriteSoftware, WriteMode, WritePmcEnable
<1> QED BY <1>3, <1>4, <1>5, <1>6, <1>7, <1>8 DEF PmcNext

\* While all interrupts come from the CPU thread, INTR_0 shows the engines with a
\* pending and enabled interrupt and the line is what INTR_EN_0 asks for, whenever
\* updateIrq has returned: for any list of engines and whatever the title writes.
THEOREM RegistersFollowEngines == PmcSpec => []RegistersFollow
<1>1. PmcTypeOK /\ FollowInv => LineFollows
  <2> SUFFICES ASSUME PmcTypeOK, FollowInv, Quiet, ~draws
               PROVE  /\ status \cap Engines = {e \in Engines : Pending(e)}
                      /\ line = (status \cap Counting(mode) # {})
    BY DEF LineFollows
  <2>1. pc["cpu"] = "out"
    BY ThreadsTyped DEF Quiet
  <2>2. GatheredTo(Len(Order)) /\ line = Asked
    BY <2>1 DEF FollowInv, Progress
  <2>3. status \cap Engines = {e \in Engines : Pending(e)}
    BY <2>2 DEF GatheredTo, Engines
  <2> QED BY <2>2, <2>3 DEF Asked
<1>2. PmcTypeOK /\ FollowInv => RegistersFollow
  BY <1>1 DEF RegistersFollow
<1> QED BY <1>2, InitFollows, NextFollows, PmcTyped, PTL DEF PmcSpec
=============================================================================
