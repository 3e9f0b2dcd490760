----------------------------- MODULE PfifoProofs -----------------------------
(***************************************************************************)
(* Proofs about the command fifo for any titles, push buffers, objects and *)
(* size of cache1: the registers agree with each other and with where the  *)
(* two coroutines are, no doorbell is lost, no fault is without cause, and *)
(* methods are submitted in the order of the push buffer.                  *)
(***************************************************************************)
EXTENDS Pfifo, TLAPS

Stopped == {"stopErr", "stopRing", "join", "gone"}

Ranges ==
    /\ TypeOK /\ game \in Games
    /\ cache \in [0 .. CacheSize - 1 -> Entries]
    /\ subroutine \in Nat \cup {Inactive}

\* the marks tell empty from full, for the GET that the puller is going to have
Marks(g) == /\ low => g = put /\ ~high
            /\ high => g = put
            /\ g = put => low \/ high

Resting == pc = "idle" \/ (resume = "top" /\ pc # "push")

\* stopping is for good, and so is the busy bit cleared when the pusher rests
StopAgrees == (stop <=> cpuPc \in Stopped) /\ (Resting => ~dmaPush.busy)

\* the title answers a fault once, while the puller is stopped at it
FaultAnswered ==
    /\ cpuPc \in {"fix", "hash"} => pc = "fault" /\ hasErr /\ "cache" \notin intr
    /\ "cache" \in intr /\ cpuPc \notin Stopped => pc = "fault" /\ hasErr

\* the marks, also while the puller is stopped at a method with GET put back
SteadyMarks ==
    Title \cap {"disable", "retry"} = {} =>
        /\ pc \notin {"fault", "done"} => Marks(get)
        /\ pc \in {"idle", "push"} => ~high
        /\ pc = "fault" => ~high
        /\ pc = "fault" /\ hasErr /\ cpuPc # "hash" => (low <=> Successor(get) = put)
        /\ pc = "fault" /\ (cpuPc = "hash" \/ (~hasErr /\ ~stop)) => (low <=> get = put)

StaysEnabled == Enabled => isEnabled /\ cpuPc \notin {"mark", "updateIo"}

\* the pusher is in the middle of its buffer
Fetching == pc = "push" \/ (resume = "loop" /\ pc \in {"pull", "full", "submit", "fault"})

\* a title that has the puller ready first never fills cache1
PullerFirst ==
    Plain =>
        /\ push0 \/ Fetching => pullAccess
        /\ pc \in {"idle", "push"} \/ ~pullAccess => low
        /\ pc # "full"

Answering == cpuPc \in {"skip", "ringSkip", "resume"}

\* the pusher is suspended from the error until the title lifts that
SuspendedAnswered ==
    Enabled =>
        /\ "pusher" \in intr \/ Answering => dmaPush.suspended /\ pc # "push" /\ (resume = "top" \/ pc \in {"idle", "done"})
        /\ ~("pusher" \in intr /\ Answering)

Pending == hasWork \/ cpuPc \in {"ring", "ringSkip"}

\* what the pusher reads in its loop is what the registers say, or it is told
Doorbells ==
    Plain =>
        /\ Fetching => pbGet = dmaGet /\ (pbPut = dmaPut \/ Pending)
        /\ Resting /\ pc # "done" /\ Running => dmaGet = dmaPut \/ Pending

PfifoInv ==
    /\ Ranges /\ StopAgrees /\ FaultAnswered /\ SteadyMarks /\ StaysEnabled
    /\ PullerFirst /\ SuspendedAnswered /\ Doorbells /\ FaultHasCause

-----------------------------------------------------------------------------
(***************************************************************************)
(* Types                                                                   *)
(***************************************************************************)

\* The step round cache1 stays inside.
LEMMA SuccessorTyped == ASSUME NEW i \in 0 .. CacheSize - 1 PROVE Successor(i) \in 0 .. CacheSize - 1
BY PfifoAssumption DEF Successor

\* The words of a push buffer, and what a command makes of one.
LEMMA WordsTyped ==
    ASSUME game \in Games, NEW i \in DOMAIN Words
    PROVE  i \in Nat /\ WordOK(Words[i])
BY GamesAssumption DEF Words

LEMMA StopsTyped ==
    ASSUME game \in Games, NEW n \in 1 .. Len(Stops) + 1, n <= Len(Stops)
    PROVE  Stops[n] \in Nat /\ n + 1 \in 1 .. Len(Stops) + 1
<1>1. Stops \in Seq(Nat)
  BY GamesAssumption DEF Stops
<1> QED BY <1>1

Methods == [sub : Subchannels, kind : Kinds, count : Nat]

LEMMA CommandTyped ==
    ASSUME NEW word, WordOK(word), NEW after \in Nat, subroutine \in Nat \cup {Inactive}, dmaState \in Methods,
           NEW c \in Command(word, after)
    PROVE  c.to \in Nat /\ c.back \in Nat \cup {Inactive} /\ c.method \in Methods
<1>1. CASE word.op = "jump"
  BY <1>1 DEF Command, WordOK
<1>2. CASE word.op = "call" /\ subroutine = Inactive
  BY <1>2 DEF Command, WordOK
<1>3. CASE word.op = "return" /\ subroutine # Inactive
  BY <1>3 DEF Command, WordOK
<1>4. CASE word.op = "method"
  BY <1>4 DEF Command, WordOK, Methods
<1> QED BY <1>1, <1>2, <1>3, <1>4 DEF Command

\* The registers of an engine that was reset.
LEMMA ResetTyped ==
    /\ NoMethod \in Methods /\ NoEntries \in [0 .. CacheSize - 1 -> Entries] /\ 0 \in 0 .. CacheSize - 1
    /\ [s \in Subchannels |-> "sw"] \in [Subchannels -> Engines]
<1>1. NoMethod.sub \in Subchannels /\ NoMethod.kind \in Kinds /\ NoMethod \in Methods
  BY ObjectsAssumption DEF NoMethod, Kinds, Methods
<1>2. NoHandle \in DOMAIN Objects
  BY ObjectsAssumption DEF NoHandle
<1> QED BY <1>1, <1>2, PfifoAssumption DEF NoEntries, Entries, Engines

Pushing == [access : BOOLEAN, busy : BOOLEAN, suspended : BOOLEAN]

\* Ranges, one register after the other.
Typed ==
    /\ push0 \in BOOLEAN /\ pullAccess \in BOOLEAN /\ low \in BOOLEAN /\ high \in BOOLEAN
    /\ hasWork \in BOOLEAN /\ hasErr \in BOOLEAN /\ isEnabled \in BOOLEAN /\ stop \in BOOLEAN
    /\ dmaPush \in Pushing
    /\ dmaGet \in Nat /\ dmaPut \in Nat /\ pbGet \in Nat /\ pbPut \in Nat
    /\ dmaState \in Methods
    /\ get \in 0 .. CacheSize - 1 /\ put \in 0 .. CacheSize - 1
    /\ engine \in [Subchannels -> Engines] /\ intr \subseteq {"pusher", "cache"}
    /\ pc \in {"idle", "push", "pull", "full", "submit", "fault", "done"}
    /\ resume \in {"top", "loop"}
    /\ repaired \subseteq DOMAIN Objects /\ next \in 1 .. Len(Stops) + 1
    /\ game \in Games
    /\ cache \in [0 .. CacheSize - 1 -> Entries]
    /\ subroutine \in Nat \cup {Inactive}

LEMMA TypedIsRanges == Ranges <=> Typed
BY DEF Ranges, TypeOK, Typed, Methods, Pushing

LEMMA TypedInit == ASSUME Init PROVE Typed
<1>1. Stops \in Seq(Nat)
  BY GamesAssumption DEF Init, Stops
<1>2. 1 \in 1 .. Len(Stops) + 1
  BY <1>1
<1>3. dmaPush \in Pushing
  BY DEF Init, Pushing
<1> QED BY <1>2, <1>3, ResetTyped DEF Init, Typed

\* The steps of the fifo thread.
LEMMA TypedFifo == ASSUME Typed, Fifo PROVE Typed'
<1> USE DEF Typed, control, dma, cache1, thread, title, Stops
<1>a. ASSUME NEW f \in Pushing PROVE /\ [f EXCEPT !.busy = TRUE] \in Pushing /\ [f EXCEPT !.busy = FALSE] \in Pushing
                                     /\ [f EXCEPT !.busy = FALSE, !.suspended = TRUE] \in Pushing
  BY DEF Pushing
<1>1. CASE PusherWake
  BY <1>1, <1>a DEF PusherWake
<1>2. CASE PushParameter
  <2>1. put' \in 0 .. CacheSize - 1 /\ pbGet' \in Nat
    BY <1>2, SuccessorTyped DEF PushParameter
  <2>4. low' \in BOOLEAN /\ high' \in BOOLEAN
    BY <1>2 DEF PushParameter, MarkPushed
  <2>2. dmaState' \in Methods
    <3>1. dmaState \in Methods /\ dmaState.count > 0 /\ dmaState' = [dmaState EXCEPT !.count = @ - 1]
      BY <1>2 DEF PushParameter
    <3> QED BY <3>1 DEF Methods
  <2>3. cache' \in [0 .. CacheSize - 1 -> Entries]
    <3>1. [sub |-> dmaState.sub, kind |-> dmaState.kind, param |-> Words[pbGet].param] \in Entries
      BY <1>2, WordsTyped DEF PushParameter, WordOK, Entries, Methods
    <3> QED BY <1>2, <3>1 DEF PushParameter
  <2> QED BY <1>2, <2>1, <2>2, <2>3, <2>4 DEF PushParameter, LeavePusher
<1>3. CASE PushCommand
  <2>1. pbGet' \in Nat /\ subroutine' \in Nat \cup {Inactive} /\ dmaState' \in Methods
    BY <1>3, WordsTyped, CommandTyped DEF PushCommand
  <2> QED BY <1>3, <2>1 DEF PushCommand
<1>4. CASE PushError
  BY <1>4, <1>a DEF PushError, Suspend
<1>5. CASE PushDone
  BY <1>5, <1>a DEF PushDone
<1>6. CASE GiveWay
  BY <1>6, <1>a DEF GiveWay, Resume
<1>7. CASE WaitForAccess
  BY <1>7 DEF WaitForAccess
<1>8. CASE FullWake
  BY <1>8 DEF FullWake
<1>9. CASE Submitted
  BY <1>9 DEF Submitted
<1>10. CASE FaultOver
  BY <1>10 DEF FaultOver
<1>11. CASE PullMethod
  <2>1. cache[get].sub \in Subchannels
    BY DEF Entries
  <2> QED BY <1>11, <2>1, SuccessorTyped DEF PullMethod, TakeMethod, Engines
<1>12. CASE PullError
  BY <1>12, <1>a DEF PullError, RaiseCacheError
<1> QED BY <1>1, <1>2, <1>3, <1>4, <1>5, <1>6, <1>7, <1>8, <1>9, <1>10, <1>11, <1>12 DEF Fifo

\* The steps of the CPU thread.
LEMMA TypedCpu == ASSUME Typed, Cpu PROVE Typed'
<1> USE DEF Typed, control, dma, cache1, thread, title, Stops
<1>a. [access |-> TRUE, busy |-> FALSE, suspended |-> FALSE] \in Pushing /\ [access |-> FALSE, busy |-> FALSE, suspended |-> FALSE] \in Pushing
  BY DEF Pushing
<1>1. CASE \E a \in {TRUE, FALSE} : WritePull0(a) \/ WritePush0(a)
  <2>1. push0' \in BOOLEAN /\ pullAccess' \in BOOLEAN
    BY <1>1 DEF WritePull0, WritePush0
  <2> QED BY <1>1, <2>1 DEF WritePull0, WritePush0
<1>2. CASE WriteDmaPush
  BY <1>2, <1>a DEF WriteDmaPush, SetDmaPush
<1>3. CASE WriteDmaPut
  <2>1. dmaPut' \in Nat /\ next' \in 1 .. Len(Stops) + 1
    BY <1>3, StopsTyped DEF WriteDmaPut
  <2> QED BY <1>3, <2>1 DEF WriteDmaPut
<1>4. CASE Ring
  BY <1>4 DEF Ring
<1>5. CASE AckPusher
  BY <1>5 DEF AckPusher
<1>6. CASE WriteDmaGet
  BY <1>6 DEF WriteDmaGet
<1>7. CASE LiftSuspension
  BY <1>7, <1>a DEF LiftSuspension, SetDmaPush
<1>8. CASE AckCache
  BY <1>8 DEF AckCache
<1>9. CASE WriteGet
  BY <1>9, SuccessorTyped DEF WriteGet
<1>10. CASE Repair
  <2>1. cache[get].param \in DOMAIN Objects
    BY DEF Entries
  <2> QED BY <1>10, <2>1 DEF Repair
<1>11. CASE WriteHash
  <2>1. hasErr' \in BOOLEAN
    BY <1>11 DEF WriteHash
  <2> QED BY <1>11, <2>1 DEF WriteHash
<1>12. CASE Reset
  BY <1>12, <1>a, ResetTyped DEF Reset
<1>13. CASE ResetMark
  BY <1>13 DEF ResetMark
<1>14. CASE UpdateIo
  <2>1. isEnabled' \in BOOLEAN
    BY <1>14 DEF UpdateIo
  <2> QED BY <1>14, <2>1 DEF UpdateIo
<1>15. CASE RequestStop
  BY <1>15 DEF RequestStop
<1>16. CASE StopErr
  <2>1. hasErr' \in BOOLEAN
    BY <1>16 DEF StopErr
  <2> QED BY <1>16, <2>1 DEF StopErr
<1>17. CASE StopRing
  BY <1>17 DEF StopRing
<1>18. CASE Join
  BY <1>18 DEF Join
<1> QED BY <1>1, <1>2, <1>3, <1>4, <1>5, <1>6, <1>7, <1>8, <1>9, <1>10, <1>11, <1>12, <1>13, <1>14, <1>15, <1>16, <1>17, <1>18
        DEF Cpu, Submits, Interferes, Stopping

LEMMA RangesNext == ASSUME Ranges, [Next]_vars PROVE Ranges'
<1>1. CASE UNCHANGED vars
  BY <1>1 DEF Ranges, TypeOK, vars, control, dma, cache1, thread, title, Stops
<1>2. Typed /\ Next => Typed'
  BY TypedFifo, TypedCpu DEF Next
<1>3. Ranges' <=> Typed'
  BY TypedIsRanges, PTL
<1> QED BY <1>1, <1>2, <1>3, TypedIsRanges

-----------------------------------------------------------------------------
(***************************************************************************)
(* Each part of the invariant, over the steps of both threads.             *)
(***************************************************************************)

\* Stopping is for good; the pusher rests with its busy bit clear.
LEMMA StopAgreesNext == ASSUME Typed, StopAgrees, Next PROVE StopAgrees'
<1> USE DEF StopAgrees, Stopped, Resting, Typed, Pushing, control, dma, cache1, thread, title
<1>1. CASE PusherWake
  BY <1>1 DEF PusherWake
<1>2. CASE PushParameter
  BY <1>2 DEF PushParameter, LeavePusher
<1>3. CASE PushCommand
  BY <1>3 DEF PushCommand
<1>4. CASE PushError
  BY <1>4 DEF PushError, Suspend
<1>5. CASE PushDone
  BY <1>5 DEF PushDone
<1>6. CASE GiveWay
  BY <1>6 DEF GiveWay, Resume
<1>7. CASE WaitForAccess
  BY <1>7 DEF WaitForAccess
<1>8. CASE FullWake
  BY <1>8 DEF FullWake
<1>9. CASE Submitted
  BY <1>9 DEF Submitted
<1>10. CASE FaultOver
  BY <1>10 DEF FaultOver
<1>11. CASE PullMethod
  BY <1>11 DEF PullMethod, TakeMethod
<1>12. CASE PullError
  BY <1>12 DEF PullError
<1>13. CASE \E a \in {TRUE, FALSE} : WritePull0(a) \/ WritePush0(a)
  BY <1>13 DEF WritePull0, WritePush0, TitleWrites, Doorbell
<1>14. CASE WriteDmaPush
  BY <1>14 DEF WriteDmaPush, SetDmaPush, TitleWrites, Doorbell
<1>15. CASE WriteDmaPut
  BY <1>15 DEF WriteDmaPut, TitleWrites, Doorbell
<1>16. CASE Ring
  BY <1>16 DEF Ring
<1>17. CASE AckPusher
  BY <1>17 DEF AckPusher, TitleWrites
<1>18. CASE WriteDmaGet
  BY <1>18 DEF WriteDmaGet
<1>19. CASE LiftSuspension
  BY <1>19 DEF LiftSuspension, SetDmaPush, Doorbell
<1>20. CASE AckCache
  BY <1>20 DEF AckCache, TitleWrites
<1>21. CASE WriteGet
  BY <1>21 DEF WriteGet
<1>22. CASE Repair
  BY <1>22 DEF Repair
<1>23. CASE WriteHash
  BY <1>23 DEF WriteHash
<1>24. CASE Reset
  BY <1>24 DEF Reset
<1>25. CASE ResetMark
  BY <1>25 DEF ResetMark
<1>26. CASE UpdateIo
  BY <1>26 DEF UpdateIo
<1>27. CASE RequestStop
  BY <1>27 DEF RequestStop
<1>28. CASE StopErr
  BY <1>28 DEF StopErr
<1>29. CASE StopRing
  BY <1>29 DEF StopRing
<1>30. CASE Join
  BY <1>30 DEF Join
<1> QED BY <1>1, <1>2, <1>3, <1>4, <1>5, <1>6, <1>7, <1>8, <1>9, <1>10, <1>11, <1>12, <1>13, <1>14, <1>15, <1>16,
           <1>17, <1>18, <1>19, <1>20, <1>21, <1>22, <1>23, <1>24, <1>25, <1>26, <1>27, <1>28, <1>29, <1>30
        DEF Next, Fifo, Cpu, Submits, Interferes, Stopping

\* A fault has one interrupt, and one title that answers it.
LEMMA FaultAnsweredNext == ASSUME Typed, StopAgrees, FaultAnswered, Next PROVE FaultAnswered'
<1> USE DEF StopAgrees, FaultAnswered, Stopped, Typed, control, dma, cache1, thread, title
<1>1. CASE PusherWake
  BY <1>1 DEF PusherWake
<1>2. CASE PushParameter
  BY <1>2 DEF PushParameter, LeavePusher, MarkPushed
<1>3. CASE PushCommand
  BY <1>3 DEF PushCommand
<1>4. CASE PushError
  BY <1>4 DEF PushError, Suspend
<1>5. CASE PushDone
  BY <1>5 DEF PushDone
<1>6. CASE GiveWay
  BY <1>6 DEF GiveWay, Resume, MayGiveWay
<1>7. CASE WaitForAccess
  BY <1>7 DEF WaitForAccess
<1>8. CASE FullWake
  BY <1>8 DEF FullWake
<1>9. CASE Submitted
  BY <1>9 DEF Submitted
<1>10. CASE FaultOver
  BY <1>10 DEF FaultOver
<1>11. CASE PullMethod
  BY <1>11 DEF PullMethod, TakeMethod
<1>12. CASE PullError
  BY <1>12 DEF PullError, RaiseCacheError
<1>13. CASE \E a \in {TRUE, FALSE} : WritePull0(a)
  BY <1>13 DEF WritePull0, TitleWrites, Doorbell, Locked
<1>14. CASE \E a \in {TRUE, FALSE} : WritePush0(a)
  BY <1>14 DEF WritePush0, TitleWrites, Doorbell, Locked
<1>15. CASE WriteDmaPush
  BY <1>15 DEF WriteDmaPush, SetDmaPush, TitleWrites, Doorbell, Locked
<1>16. CASE WriteDmaPut
  BY <1>16 DEF WriteDmaPut, TitleWrites, Doorbell, Locked
<1>17. CASE Ring
  BY <1>17 DEF Ring
<1>18. CASE AckPusher
  BY <1>18 DEF AckPusher, TitleWrites, Locked
<1>19. CASE WriteDmaGet
  BY <1>19 DEF WriteDmaGet, Locked
<1>20. CASE LiftSuspension
  BY <1>20 DEF LiftSuspension, SetDmaPush, Doorbell, Locked
<1>21. CASE AckCache
  BY <1>21 DEF AckCache, TitleWrites, Locked
<1>22. CASE WriteGet
  BY <1>22 DEF WriteGet, Locked
<1>23. CASE Repair
  BY <1>23 DEF Repair
<1>24. CASE WriteHash
  BY <1>24 DEF WriteHash, Locked
<1>25. CASE Reset
  BY <1>25 DEF Reset
<1>26. CASE ResetMark
  BY <1>26 DEF ResetMark
<1>27. CASE UpdateIo
  BY <1>27 DEF UpdateIo
<1>28. CASE RequestStop
  BY <1>28 DEF RequestStop
<1>29. CASE StopErr
  BY <1>29 DEF StopErr
<1>30. CASE StopRing
  BY <1>30 DEF StopRing
<1>31. CASE Join
  BY <1>31 DEF Join
<1> QED BY <1>1, <1>2, <1>3, <1>4, <1>5, <1>6, <1>7, <1>8, <1>9, <1>10, <1>11, <1>12, <1>13, <1>14, <1>15, <1>16,
           <1>17, <1>18, <1>19, <1>20, <1>21, <1>22, <1>23, <1>24, <1>25, <1>26, <1>27, <1>28, <1>29, <1>30, <1>31
        DEF Next, Fifo, Cpu, Submits, Interferes, Stopping

\* Only a title that disables the engine has it disabled.
LEMMA StaysEnabledNext == ASSUME Typed, StaysEnabled, Next PROVE StaysEnabled'
<1> USE DEF StaysEnabled, Enabled, Title, control, dma, cache1, thread, title
<1>1. CASE PusherWake
  BY <1>1 DEF PusherWake
<1>2. CASE PushParameter
  BY <1>2 DEF PushParameter, LeavePusher, MarkPushed
<1>3. CASE PushCommand
  BY <1>3 DEF PushCommand
<1>4. CASE PushError
  BY <1>4 DEF PushError, Suspend
<1>5. CASE PushDone
  BY <1>5 DEF PushDone
<1>6. CASE GiveWay
  BY <1>6 DEF GiveWay, Resume, MayGiveWay
<1>7. CASE WaitForAccess
  BY <1>7 DEF WaitForAccess
<1>8. CASE FullWake
  BY <1>8 DEF FullWake
<1>9. CASE Submitted
  BY <1>9 DEF Submitted
<1>10. CASE FaultOver
  BY <1>10 DEF FaultOver
<1>11. CASE PullMethod
  BY <1>11 DEF PullMethod, TakeMethod
<1>12. CASE PullError
  BY <1>12 DEF PullError, RaiseCacheError
<1>13. CASE \E a \in {TRUE, FALSE} : WritePull0(a)
  BY <1>13 DEF WritePull0, TitleWrites, Doorbell, Locked
<1>14. CASE \E a \in {TRUE, FALSE} : WritePush0(a)
  BY <1>14 DEF WritePush0, TitleWrites, Doorbell, Locked
<1>15. CASE WriteDmaPush
  BY <1>15 DEF WriteDmaPush, SetDmaPush, TitleWrites, Doorbell, Locked
<1>16. CASE WriteDmaPut
  BY <1>16 DEF WriteDmaPut, TitleWrites, Doorbell, Locked
<1>17. CASE Ring
  BY <1>17 DEF Ring
<1>18. CASE AckPusher
  BY <1>18 DEF AckPusher, TitleWrites, Locked
<1>19. CASE WriteDmaGet
  BY <1>19 DEF WriteDmaGet, Locked
<1>20. CASE LiftSuspension
  BY <1>20 DEF LiftSuspension, SetDmaPush, Doorbell, Locked
<1>21. CASE AckCache
  BY <1>21 DEF AckCache, TitleWrites, Locked
<1>22. CASE WriteGet
  BY <1>22 DEF WriteGet, Locked
<1>23. CASE Repair
  BY <1>23 DEF Repair
<1>24. CASE WriteHash
  BY <1>24 DEF WriteHash, Locked
<1>25. CASE Reset
  BY <1>25 DEF Reset
<1>26. CASE ResetMark
  BY <1>26 DEF ResetMark
<1>27. CASE UpdateIo
  BY <1>27 DEF UpdateIo
<1>28. CASE RequestStop
  BY <1>28 DEF RequestStop
<1>29. CASE StopErr
  BY <1>29 DEF StopErr
<1>30. CASE StopRing
  BY <1>30 DEF StopRing
<1>31. CASE Join
  BY <1>31 DEF Join
<1> QED BY <1>1, <1>2, <1>3, <1>4, <1>5, <1>6, <1>7, <1>8, <1>9, <1>10, <1>11, <1>12, <1>13, <1>14, <1>15, <1>16,
           <1>17, <1>18, <1>19, <1>20, <1>21, <1>22, <1>23, <1>24, <1>25, <1>26, <1>27, <1>28, <1>29, <1>30, <1>31
        DEF Next, Fifo, Cpu, Submits, Interferes, Stopping

\* The pusher is suspended until the title has stepped over the refused word.
LEMMA SuspendedNext == ASSUME Typed, StopAgrees, StaysEnabled, SuspendedAnswered, Next PROVE SuspendedAnswered'
<1> USE DEF SuspendedAnswered, Answering, StopAgrees, StaysEnabled, Enabled, Title, Pushing, Typed, control, dma, cache1, thread, title
<1>1. CASE PusherWake
  BY <1>1 DEF PusherWake, Running
<1>2. CASE PushParameter
  BY <1>2 DEF PushParameter, LeavePusher, MarkPushed
<1>3. CASE PushCommand
  BY <1>3 DEF PushCommand
<1>4. CASE PushError
  BY <1>4 DEF PushError, Suspend
<1>5. CASE PushDone
  BY <1>5 DEF PushDone
<1>6. CASE GiveWay
  BY <1>6 DEF GiveWay, Resume, MayGiveWay
<1>7. CASE WaitForAccess
  BY <1>7 DEF WaitForAccess
<1>8. CASE FullWake
  BY <1>8 DEF FullWake
<1>9. CASE Submitted
  BY <1>9 DEF Submitted
<1>10. CASE FaultOver
  BY <1>10 DEF FaultOver
<1>11. CASE PullMethod
  BY <1>11 DEF PullMethod, TakeMethod
<1>12. CASE PullError
  BY <1>12 DEF PullError, RaiseCacheError
<1>13. CASE \E a \in {TRUE, FALSE} : WritePull0(a)
  BY <1>13 DEF WritePull0, TitleWrites, Doorbell, Locked
<1>14. CASE \E a \in {TRUE, FALSE} : WritePush0(a)
  BY <1>14 DEF WritePush0, TitleWrites, Doorbell, Locked
<1>15. CASE WriteDmaPush
  BY <1>15 DEF WriteDmaPush, SetDmaPush, TitleWrites, Doorbell, Locked
<1>16. CASE WriteDmaPut
  BY <1>16 DEF WriteDmaPut, TitleWrites, Doorbell, Locked
<1>17. CASE Ring
  BY <1>17 DEF Ring
<1>18. CASE AckPusher
  BY <1>18 DEF AckPusher, TitleWrites, Locked
<1>19. CASE WriteDmaGet
  BY <1>19 DEF WriteDmaGet, Locked
<1>20. CASE LiftSuspension
  BY <1>20 DEF LiftSuspension, SetDmaPush, Doorbell, Locked
<1>21. CASE AckCache
  BY <1>21 DEF AckCache, TitleWrites, Locked
<1>22. CASE WriteGet
  BY <1>22 DEF WriteGet, Locked
<1>23. CASE Repair
  BY <1>23 DEF Repair
<1>24. CASE WriteHash
  BY <1>24 DEF WriteHash, Locked
<1>25. CASE Reset
  BY <1>25 DEF Reset
<1>26. CASE ResetMark
  BY <1>26 DEF ResetMark
<1>27. CASE UpdateIo
  BY <1>27 DEF UpdateIo
<1>28. CASE RequestStop
  BY <1>28 DEF RequestStop
<1>29. CASE StopErr
  BY <1>29 DEF StopErr
<1>30. CASE StopRing
  BY <1>30 DEF StopRing
<1>31. CASE Join
  BY <1>31 DEF Join
<1> QED BY <1>1, <1>2, <1>3, <1>4, <1>5, <1>6, <1>7, <1>8, <1>9, <1>10, <1>11, <1>12, <1>13, <1>14, <1>15, <1>16,
           <1>17, <1>18, <1>19, <1>20, <1>21, <1>22, <1>23, <1>24, <1>25, <1>26, <1>27, <1>28, <1>29, <1>30, <1>31
        DEF Next, Fifo, Cpu, Submits, Interferes, Stopping

\* Only the title that answers it ends the cause of a fault.
LEMMA CauseNext == ASSUME Typed, StopAgrees, StaysEnabled, FaultAnswered, FaultHasCause, Next PROVE FaultHasCause'
<1> USE DEF FaultHasCause, FaultAnswered, StopAgrees, StaysEnabled, Enabled, Title, Stopped, Typed, control, dma, cache1, thread, title
<1>1. CASE PusherWake
  BY <1>1 DEF PusherWake
<1>2. CASE PushParameter
  BY <1>2 DEF PushParameter, LeavePusher, MarkPushed
<1>3. CASE PushCommand
  BY <1>3 DEF PushCommand
<1>4. CASE PushError
  BY <1>4 DEF PushError, Suspend
<1>5. CASE PushDone
  BY <1>5 DEF PushDone
<1>6. CASE GiveWay
  BY <1>6 DEF GiveWay, Resume, MayGiveWay
<1>7. CASE WaitForAccess
  BY <1>7 DEF WaitForAccess
<1>8. CASE FullWake
  BY <1>8 DEF FullWake
<1>9. CASE Submitted
  BY <1>9 DEF Submitted
<1>10. CASE FaultOver
  BY <1>10 DEF FaultOver
<1>11. CASE PullMethod
  BY <1>11 DEF PullMethod, TakeMethod
<1>12. CASE PullError
  BY <1>12 DEF PullError, RaiseCacheError
<1>13. CASE \E a \in {TRUE, FALSE} : WritePull0(a)
  BY <1>13 DEF WritePull0, TitleWrites, Doorbell, Locked
<1>14. CASE \E a \in {TRUE, FALSE} : WritePush0(a)
  BY <1>14 DEF WritePush0, TitleWrites, Doorbell, Locked
<1>15. CASE WriteDmaPush
  BY <1>15 DEF WriteDmaPush, SetDmaPush, TitleWrites, Doorbell, Locked
<1>16. CASE WriteDmaPut
  BY <1>16 DEF WriteDmaPut, TitleWrites, Doorbell, Locked
<1>17. CASE Ring
  BY <1>17 DEF Ring
<1>18. CASE AckPusher
  BY <1>18 DEF AckPusher, TitleWrites, Locked
<1>19. CASE WriteDmaGet
  BY <1>19 DEF WriteDmaGet, Locked
<1>20. CASE LiftSuspension
  BY <1>20 DEF LiftSuspension, SetDmaPush, Doorbell, Locked
<1>21. CASE AckCache
  BY <1>21 DEF AckCache, TitleWrites, Locked
<1>22. CASE WriteGet
  BY <1>22 DEF WriteGet, Locked
<1>23. CASE Repair
  BY <1>23 DEF Repair
<1>24. CASE WriteHash
  BY <1>24 DEF WriteHash, Locked
<1>25. CASE Reset
  BY <1>25 DEF Reset
<1>26. CASE ResetMark
  BY <1>26 DEF ResetMark
<1>27. CASE UpdateIo
  BY <1>27 DEF UpdateIo
<1>28. CASE RequestStop
  BY <1>28 DEF RequestStop
<1>29. CASE StopErr
  BY <1>29 DEF StopErr
<1>30. CASE StopRing
  BY <1>30 DEF StopRing
<1>31. CASE Join
  BY <1>31 DEF Join
<1> QED BY <1>1, <1>2, <1>3, <1>4, <1>5, <1>6, <1>7, <1>8, <1>9, <1>10, <1>11, <1>12, <1>13, <1>14, <1>15, <1>16,
           <1>17, <1>18, <1>19, <1>20, <1>21, <1>22, <1>23, <1>24, <1>25, <1>26, <1>27, <1>28, <1>29, <1>30, <1>31
        DEF Next, Fifo, Cpu, Submits, Interferes, Stopping

\* One step round cache1, which has at least two entries, is not none.
LEMMA SuccessorMoves == ASSUME NEW i \in 0 .. CacheSize - 1 PROVE Successor(i) # i
BY PfifoAssumption DEF Successor

\* The marks follow GET and PUT, and what the title does to GET at a fault.
LEMMA SteadyNext == ASSUME Typed, StopAgrees, StaysEnabled, FaultAnswered, SteadyMarks, Next PROVE SteadyMarks'
<1> USE DEF SteadyMarks, Marks, FaultAnswered, StopAgrees, StaysEnabled, Enabled, Title, Stopped, Typed, control, dma, cache1, thread, title
<1>1. CASE PusherWake
  BY <1>1, SuccessorMoves, SuccessorTyped DEF PusherWake
<1>2. CASE PushParameter
  BY <1>2, SuccessorMoves, SuccessorTyped DEF PushParameter, LeavePusher, MarkPushed
<1>3. CASE PushCommand
  BY <1>3, SuccessorMoves, SuccessorTyped DEF PushCommand
<1>4. CASE PushError
  BY <1>4, SuccessorMoves, SuccessorTyped DEF PushError, Suspend
<1>5. CASE PushDone
  BY <1>5, SuccessorMoves, SuccessorTyped DEF PushDone
<1>6. CASE GiveWay
  BY <1>6, SuccessorMoves, SuccessorTyped DEF GiveWay, Resume, MayGiveWay
<1>7. CASE WaitForAccess
  BY <1>7, SuccessorMoves, SuccessorTyped DEF WaitForAccess
<1>8. CASE FullWake
  BY <1>8, SuccessorMoves, SuccessorTyped DEF FullWake
<1>9. CASE Submitted
  BY <1>9, SuccessorMoves, SuccessorTyped DEF Submitted
<1>10. CASE FaultOver
  BY <1>10, SuccessorMoves, SuccessorTyped DEF FaultOver
<1>11. CASE PullMethod
  BY <1>11, SuccessorMoves, SuccessorTyped DEF PullMethod, TakeMethod
<1>12. CASE PullError
  BY <1>12, SuccessorMoves, SuccessorTyped DEF PullError, RaiseCacheError
<1>13. CASE \E a \in {TRUE, FALSE} : WritePull0(a)
  BY <1>13, SuccessorMoves, SuccessorTyped DEF WritePull0, TitleWrites, Doorbell, Locked
<1>14. CASE \E a \in {TRUE, FALSE} : WritePush0(a)
  BY <1>14, SuccessorMoves, SuccessorTyped DEF WritePush0, TitleWrites, Doorbell, Locked
<1>15. CASE WriteDmaPush
  BY <1>15, SuccessorMoves, SuccessorTyped DEF WriteDmaPush, SetDmaPush, TitleWrites, Doorbell, Locked
<1>16. CASE WriteDmaPut
  BY <1>16, SuccessorMoves, SuccessorTyped DEF WriteDmaPut, TitleWrites, Doorbell, Locked
<1>17. CASE Ring
  BY <1>17, SuccessorMoves, SuccessorTyped DEF Ring
<1>18. CASE AckPusher
  BY <1>18, SuccessorMoves, SuccessorTyped DEF AckPusher, TitleWrites, Locked
<1>19. CASE WriteDmaGet
  BY <1>19, SuccessorMoves, SuccessorTyped DEF WriteDmaGet, Locked
<1>20. CASE LiftSuspension
  BY <1>20, SuccessorMoves, SuccessorTyped DEF LiftSuspension, SetDmaPush, Doorbell, Locked
<1>21. CASE AckCache
  BY <1>21, SuccessorMoves, SuccessorTyped DEF AckCache, TitleWrites, Locked
<1>22. CASE WriteGet
  BY <1>22, SuccessorMoves, SuccessorTyped DEF WriteGet, Locked
<1>23. CASE Repair
  BY <1>23, SuccessorMoves, SuccessorTyped DEF Repair
<1>24. CASE WriteHash
  BY <1>24, SuccessorMoves, SuccessorTyped DEF WriteHash, Locked
<1>25. CASE Reset
  BY <1>25, SuccessorMoves, SuccessorTyped DEF Reset
<1>26. CASE ResetMark
  BY <1>26, SuccessorMoves, SuccessorTyped DEF ResetMark
<1>27. CASE UpdateIo
  BY <1>27, SuccessorMoves, SuccessorTyped DEF UpdateIo
<1>28. CASE RequestStop
  BY <1>28, SuccessorMoves, SuccessorTyped DEF RequestStop
<1>29. CASE StopErr
  BY <1>29, SuccessorMoves, SuccessorTyped DEF StopErr
<1>30. CASE StopRing
  BY <1>30, SuccessorMoves, SuccessorTyped DEF StopRing
<1>31. CASE Join
  BY <1>31, SuccessorMoves, SuccessorTyped DEF Join
<1> QED BY <1>1, <1>2, <1>3, <1>4, <1>5, <1>6, <1>7, <1>8, <1>9, <1>10, <1>11, <1>12, <1>13, <1>14, <1>15, <1>16,
           <1>17, <1>18, <1>19, <1>20, <1>21, <1>22, <1>23, <1>24, <1>25, <1>26, <1>27, <1>28, <1>29, <1>30, <1>31
        DEF Next, Fifo, Cpu, Submits, Interferes, Stopping

\* The puller of a plain title is ready whenever there is something to pull.
LEMMA PullerFirstNext == ASSUME Typed, StopAgrees, StaysEnabled, FaultAnswered, SteadyMarks, PullerFirst, Next PROVE PullerFirst'
<1> USE DEF PullerFirst, Fetching, SteadyMarks, Marks, FaultAnswered, StopAgrees, StaysEnabled, Enabled, Plain, Title, Stopped, Typed, control, dma, cache1, thread, title
<1>1. CASE PusherWake
  BY <1>1 DEF PusherWake, Running
<1>2. CASE PushParameter
  BY <1>2 DEF PushParameter, LeavePusher, MarkPushed
<1>3. CASE PushCommand
  BY <1>3 DEF PushCommand
<1>4. CASE PushError
  BY <1>4 DEF PushError, Suspend
<1>5. CASE PushDone
  BY <1>5 DEF PushDone
<1>6. CASE GiveWay
  BY <1>6 DEF GiveWay, Resume, MayGiveWay
<1>7. CASE WaitForAccess
  BY <1>7 DEF WaitForAccess
<1>8. CASE FullWake
  BY <1>8 DEF FullWake
<1>9. CASE Submitted
  BY <1>9 DEF Submitted
<1>10. CASE FaultOver
  BY <1>10 DEF FaultOver
<1>11. CASE PullMethod
  BY <1>11 DEF PullMethod, TakeMethod
<1>12. CASE PullError
  BY <1>12 DEF PullError, RaiseCacheError
<1>13. CASE \E a \in {TRUE, FALSE} : WritePull0(a)
  BY <1>13 DEF WritePull0, TitleWrites, Doorbell, Locked
<1>14. CASE \E a \in {TRUE, FALSE} : WritePush0(a)
  BY <1>14 DEF WritePush0, TitleWrites, Doorbell, Locked
<1>15. CASE WriteDmaPush
  BY <1>15 DEF WriteDmaPush, SetDmaPush, TitleWrites, Doorbell, Locked
<1>16. CASE WriteDmaPut
  BY <1>16 DEF WriteDmaPut, TitleWrites, Doorbell, Locked
<1>17. CASE Ring
  BY <1>17 DEF Ring
<1>18. CASE AckPusher
  BY <1>18 DEF AckPusher, TitleWrites, Locked
<1>19. CASE WriteDmaGet
  BY <1>19 DEF WriteDmaGet, Locked
<1>20. CASE LiftSuspension
  BY <1>20 DEF LiftSuspension, SetDmaPush, Doorbell, Locked
<1>21. CASE AckCache
  BY <1>21 DEF AckCache, TitleWrites, Locked
<1>22. CASE WriteGet
  BY <1>22 DEF WriteGet, Locked
<1>23. CASE Repair
  BY <1>23 DEF Repair
<1>24. CASE WriteHash
  BY <1>24 DEF WriteHash, Locked
<1>25. CASE Reset
  BY <1>25 DEF Reset
<1>26. CASE ResetMark
  BY <1>26 DEF ResetMark
<1>27. CASE UpdateIo
  BY <1>27 DEF UpdateIo
<1>28. CASE RequestStop
  BY <1>28 DEF RequestStop
<1>29. CASE StopErr
  BY <1>29 DEF StopErr
<1>30. CASE StopRing
  BY <1>30 DEF StopRing
<1>31. CASE Join
  BY <1>31 DEF Join
<1> QED BY <1>1, <1>2, <1>3, <1>4, <1>5, <1>6, <1>7, <1>8, <1>9, <1>10, <1>11, <1>12, <1>13, <1>14, <1>15, <1>16,
           <1>17, <1>18, <1>19, <1>20, <1>21, <1>22, <1>23, <1>24, <1>25, <1>26, <1>27, <1>28, <1>29, <1>30, <1>31
        DEF Next, Fifo, Cpu, Submits, Interferes, Stopping

\* A write that the pusher has not seen is one it is going to be told of.
LEMMA DoorbellsNext == ASSUME Typed, StopAgrees, StaysEnabled, FaultAnswered, PullerFirst, SuspendedAnswered, Doorbells, Next PROVE Doorbells'
<1> USE DEF Doorbells, Fetching, Pending, Resting, Running, SuspendedAnswered, Answering, PullerFirst, StopAgrees, StaysEnabled, Enabled, Plain, Title, Stopped, Typed, Pushing, control, dma, cache1, thread, title
<1>1. CASE PusherWake
  BY <1>1 DEF PusherWake
<1>2. CASE PushParameter
  BY <1>2 DEF PushParameter, LeavePusher, MarkPushed
<1>3. CASE PushCommand
  BY <1>3 DEF PushCommand
<1>4. CASE PushError
  BY <1>4 DEF PushError, Suspend
<1>5. CASE PushDone
  BY <1>5 DEF PushDone
<1>6. CASE GiveWay
  BY <1>6 DEF GiveWay, Resume, MayGiveWay
<1>7. CASE WaitForAccess
  BY <1>7 DEF WaitForAccess
<1>8. CASE FullWake
  BY <1>8 DEF FullWake
<1>9. CASE Submitted
  BY <1>9 DEF Submitted
<1>10. CASE FaultOver
  BY <1>10 DEF FaultOver
<1>11. CASE PullMethod
  BY <1>11 DEF PullMethod, TakeMethod
<1>12. CASE PullError
  BY <1>12 DEF PullError, RaiseCacheError
<1>13. CASE \E a \in {TRUE, FALSE} : WritePull0(a)
  BY <1>13 DEF WritePull0, TitleWrites, Doorbell, Locked
<1>14. CASE \E a \in {TRUE, FALSE} : WritePush0(a)
  BY <1>14 DEF WritePush0, TitleWrites, Doorbell, Locked
<1>15. CASE WriteDmaPush
  BY <1>15 DEF WriteDmaPush, SetDmaPush, TitleWrites, Doorbell, Locked
<1>16. CASE WriteDmaPut
  BY <1>16 DEF WriteDmaPut, TitleWrites, Doorbell, Locked
<1>17. CASE Ring
  BY <1>17 DEF Ring
<1>18. CASE AckPusher
  BY <1>18 DEF AckPusher, TitleWrites, Locked
<1>19. CASE WriteDmaGet
  BY <1>19 DEF WriteDmaGet, Locked
<1>20. CASE LiftSuspension
  BY <1>20 DEF LiftSuspension, SetDmaPush, Doorbell, Locked
<1>21. CASE AckCache
  BY <1>21 DEF AckCache, TitleWrites, Locked
<1>22. CASE WriteGet
  BY <1>22 DEF WriteGet, Locked
<1>23. CASE Repair
  BY <1>23 DEF Repair
<1>24. CASE WriteHash
  BY <1>24 DEF WriteHash, Locked
<1>25. CASE Reset
  BY <1>25 DEF Reset
<1>26. CASE ResetMark
  BY <1>26 DEF ResetMark
<1>27. CASE UpdateIo
  BY <1>27 DEF UpdateIo
<1>28. CASE RequestStop
  BY <1>28 DEF RequestStop
<1>29. CASE StopErr
  BY <1>29 DEF StopErr
<1>30. CASE StopRing
  BY <1>30 DEF StopRing
<1>31. CASE Join
  BY <1>31 DEF Join
<1> QED BY <1>1, <1>2, <1>3, <1>4, <1>5, <1>6, <1>7, <1>8, <1>9, <1>10, <1>11, <1>12, <1>13, <1>14, <1>15, <1>16,
           <1>17, <1>18, <1>19, <1>20, <1>21, <1>22, <1>23, <1>24, <1>25, <1>26, <1>27, <1>28, <1>29, <1>30, <1>31
        DEF Next, Fifo, Cpu, Submits, Interferes, Stopping

-----------------------------------------------------------------------------
(***************************************************************************)
(* The invariant and what follows from it                                  *)
(***************************************************************************)

LEMMA PfifoInvInit == ASSUME Init PROVE PfifoInv
<1>1. Ranges
  BY TypedInit, TypedIsRanges
<1>2. StopAgrees /\ FaultAnswered /\ SteadyMarks /\ StaysEnabled /\ PullerFirst /\ SuspendedAnswered /\ Doorbells /\ FaultHasCause
  BY DEF Init, StopAgrees, Stopped, Resting, FaultAnswered, SteadyMarks, Marks, StaysEnabled, PullerFirst, Fetching,
         SuspendedAnswered, Answering, Doorbells, FaultHasCause
<1> QED BY <1>1, <1>2 DEF PfifoInv

LEMMA PfifoInvNext == ASSUME PfifoInv, [Next]_vars PROVE PfifoInv'
<1>1. Typed /\ Ranges'
  BY RangesNext, TypedIsRanges DEF PfifoInv
<1>2. CASE Next
  <2>1. StopAgrees' /\ FaultAnswered' /\ StaysEnabled'
    BY <1>1, <1>2, StopAgreesNext, FaultAnsweredNext, StaysEnabledNext DEF PfifoInv
  <2>2. SuspendedAnswered' /\ FaultHasCause'
    BY <1>1, <1>2, SuspendedNext, CauseNext DEF PfifoInv
  <2>3. SteadyMarks' /\ PullerFirst' /\ Doorbells'
    BY <1>1, <1>2, SteadyNext, PullerFirstNext, DoorbellsNext DEF PfifoInv
  <2> QED BY <1>1, <2>1, <2>2, <2>3 DEF PfifoInv
<1>3. CASE UNCHANGED vars
  <2> USE <1>3 DEF PfifoInv, vars, control, dma, cache1, thread, title
  <2>1. StopAgrees' /\ FaultAnswered' /\ StaysEnabled'
    BY DEF StopAgrees, Stopped, Resting, FaultAnswered, StaysEnabled, Enabled, Title
  <2>2. SuspendedAnswered' /\ FaultHasCause'
    BY DEF SuspendedAnswered, Answering, FaultHasCause, Enabled, Title
  <2>3. SteadyMarks' /\ PullerFirst'
    BY DEF SteadyMarks, Marks, PullerFirst, Fetching, Plain, Title
  <2>4. Doorbells'
    BY DEF Doorbells, Fetching, Pending, Resting, Running, Plain, Title
  <2> QED BY <1>1, <2>1, <2>2, <2>3, <2>4
<1> QED BY <1>2, <1>3

\* The command fifo keeps its invariant, for any titles, push buffers and size
\* of cache1: the ranges of the registers, the marks also while a method is put
\* back, one interrupt and one answer for each fault and each suspension, and a
\* pusher that is told of what it has not seen (pfifo.cpp:228-568).
THEOREM PfifoInvariant == Spec => []PfifoInv
<1>1. Init => PfifoInv
  BY PfifoInvInit
<1>2. PfifoInv /\ [Next]_vars => PfifoInv'
  BY PfifoInvNext
<1> QED BY <1>1, <1>2, PTL DEF Spec

\* The registers are in their ranges, the marks of CACHE1_STATUS tell an empty
\* cache1 from a full one, and the pusher rests with its busy bit clear.
THEOREM RegistersAgree == Spec => []RegistersSound
<1>1. PfifoInv => RegistersSound
  BY DEF PfifoInv, Ranges, StopAgrees, Resting, SteadyMarks, Marks, RegistersSound, MarksAgree, IdleNotBusy
<1> QED BY <1>1, PfifoInvariant, PTL

\* While the engine is left enabled, a puller that is stopped at a method has an
\* interrupt pending or in the hands of the title (pfifo.cpp:543-568).
THEOREM FaultsAreRaised == Spec => []FaultHasCause
<1>1. PfifoInv => FaultHasCause
  BY DEF PfifoInv
<1> QED BY <1>1, PfifoInvariant, PTL

\* With a plain title the fifo thread does not sleep over words it may fetch or
\* methods it may submit: every write that starts it rings (pfifo.cpp:138-170).
THEOREM DoorbellsArrive == Spec => []NoLostDoorbell
<1>1. ASSUME PfifoInv PROVE NoLostDoorbell
  <2>1. ASSUME Plain, Asleep, pullAccess PROVE get = put
    <3>1. Title \cap {"disable", "retry"} = {}
      BY <2>1 DEF Plain
    <3>2. pc = "idle" /\ low
      BY <1>1, <2>1 DEF PfifoInv, PullerFirst, Asleep
    <3> QED BY <1>1, <3>1, <3>2 DEF PfifoInv, SteadyMarks, Marks
  <2>2. ASSUME Plain, Asleep, Running PROVE dmaGet = dmaPut
    BY <1>1, <2>2 DEF PfifoInv, Doorbells, Resting, Pending, Asleep
  <2> QED BY <2>1, <2>2 DEF NoLostDoorbell, NothingLeftBehind
<1> QED BY <1>1, PfifoInvariant, PTL

-----------------------------------------------------------------------------
(***************************************************************************)
(* Order.  The pusher is at a place of the reading of the push buffer, and *)
(* the methods asked for up to there are those that were submitted and     *)
(* those in cache1.                                                        *)
(***************************************************************************)

\* the titles that InOrder is about
Orderly == Enabled /\ ~({"pull", "retry"} \subseteq Title)

\* cache1 has room when the pusher goes on, and a method is there when one is put back
RoomToPush ==
    Orderly =>
        /\ pc \in {"idle", "push"} /\ get = put => low
        /\ pc = "fault" /\ hasErr /\ cpuPc # "hash" => (low <=> Successor(get) = put)
        /\ "retry" \in Title => (push0 \/ Fetching => pullAccess) /\ (~pullAccess => low)

\* the entry that is the j-th from GET, and how many there are
Slot(g, j) == (g + j) % CacheSize
HeldOf(g, p, l) == IF g = p THEN (IF l THEN 0 ELSE CacheSize) ELSE (p + CacheSize - g) % CacheSize

\* the first n methods of the meaning were submitted or are in cache1
Contents(n) ==
    /\ sent \in Seq(Entries) /\ n = Len(sent) + HeldOf(get, put, low) /\ n <= Len(Meaning)
    /\ \A j \in 1 .. Len(sent) : sent[j] = Meaning[j]
    /\ \A j \in 0 .. HeldOf(get, put, low) - 1 : cache[Slot(get, j)] = Meaning[Len(sent) + j + 1]

\* a word that is no command there
Refused(word, place) ==
    /\ place.method.count = 0 /\ word.op \notin {"jump", "method"}
    /\ ~Calls(word, place) /\ ~Returns(word, place)

\* the pusher is at the i-th place
AtPlace(i, h) ==
    /\ i \in 1 .. Len(Reading)
    /\ Reading[i].at = dmaGet /\ Reading[i].back = subroutine /\ Reading[i].method = dmaState
    /\ i <= h[next - 1] /\ dmaPut = Reading[h[next - 1]].at
    /\ Fetching => pbGet = dmaGet /\ \E k \in 0 .. next - 1 : i <= h[k] /\ pbPut = Reading[h[k]].at
    /\ "pusher" \in intr \/ cpuPc = "skip" => i < h[next - 1] /\ Refused(Words[dmaGet], Reading[i])

InPlace == Orderly => \E i \in Nat : \E h \in Halts(game) : AtPlace(i, h) /\ Contents(Reading[i].asked)

OrderInv == RoomToPush /\ InPlace

-----------------------------------------------------------------------------
\* cache1 without divisions: no index goes round more than once.
LEMMA Round == ASSUME NEW n \in Nat, n > 0, NEW a \in Nat, a < n + n PROVE a % n = IF a < n THEN a ELSE a - n
<1>1. CASE a < n
  BY <1>1
<1>2. CASE ~(a < n)
  <2>1. PICK r \in Nat : r = a - n /\ r < n /\ a = n + r
    BY <1>2
  <2>2. r % n = r
    BY <2>1
  <2>3. (n + r) % n = r
    BY <2>1
  <2> QED BY <1>2, <2>1, <2>3
<1> QED BY <1>1, <1>2

Indices == 0 .. CacheSize - 1

LEMMA SuccessorIs == ASSUME NEW i \in Indices PROVE Successor(i) = IF i + 1 < CacheSize THEN i + 1 ELSE 0
<1>1. PICK n \in Nat : n = CacheSize /\ n > 1
  BY PfifoAssumption
<1>2. i \in Nat /\ i < n
  BY <1>1 DEF Indices
<1>3. PICK a \in Nat : a = i + 1 /\ a <= n
  BY <1>2
<1>4. a % n = IF a < n THEN a ELSE a - n
  BY <1>1, <1>3, Round
<1>5. a % n = IF a < n THEN a ELSE 0
  BY <1>3, <1>4
<1> QED BY <1>1, <1>3, <1>5 DEF Successor

LEMMA SlotIs == ASSUME NEW g \in Indices, NEW j \in 0 .. CacheSize PROVE Slot(g, j) = IF g + j < CacheSize THEN g + j ELSE (g + j) - CacheSize
<1>1. PICK n \in Nat : n = CacheSize /\ n > 1
  BY PfifoAssumption
<1>2. PICK a \in Nat : a = g + j /\ a < n + n
  BY <1>1 DEF Indices
<1>3. a % n = IF a < n THEN a ELSE a - n
  BY <1>1, <1>2, Round
<1> QED BY <1>1, <1>2, <1>3 DEF Slot

LEMMA HeldIs ==
    ASSUME NEW g \in Indices, NEW p \in Indices, g # p, NEW l
    PROVE  HeldOf(g, p, l) = IF g < p THEN p - g ELSE (p + CacheSize) - g
<1>1. PICK n \in Nat : n = CacheSize /\ n > 1
  BY PfifoAssumption
<1>2. g \in Nat /\ p \in Nat /\ g < n /\ p < n
  BY <1>1 DEF Indices
<1>3. PICK a \in Nat : a = (p + n) - g /\ a < n + n
  BY <1>2
<1>4. a % n = IF a < n THEN a ELSE a - n
  BY <1>1, <1>3, Round
<1>5. a % n = IF g < p THEN p - g ELSE (p + n) - g
  BY <1>2, <1>3, <1>4
<1>6. HeldOf(g, p, l) = a % n
  <2>1. a = p + (n - g)
    BY <1>2, <1>3
  <2> QED BY <1>1, <2>1 DEF HeldOf
<1> QED BY <1>1, <1>5, <1>6

LEMMA HeldTyped == ASSUME NEW g \in Indices, NEW p \in Indices, NEW l PROVE HeldOf(g, p, l) \in 0 .. CacheSize
<1>1. PICK n \in Nat : n = CacheSize /\ n > 1
  BY PfifoAssumption
<1>2. CASE g = p
  BY <1>1, <1>2 DEF HeldOf
<1>3. CASE g # p
  BY <1>1, <1>3, HeldIs DEF Indices
<1> QED BY <1>2, <1>3

\* Where there is room, PUT is behind the last entry.
LEMMA Pushed ==
    ASSUME NEW g \in Indices, NEW p \in Indices, NEW l, g = p => l, NEW h \in Nat, h = HeldOf(g, p, l), NEW m, ~m
    PROVE  /\ h < CacheSize /\ HeldOf(g, Successor(p), m) = h + 1 /\ p = Slot(g, h)
           /\ \A j \in 0 .. h - 1 : Slot(g, j) # p
<1>1. PICK n \in Nat : n = CacheSize /\ n > 1
  BY PfifoAssumption
<1>2. g \in Nat /\ p \in Nat /\ g < n /\ p < n
  BY <1>1 DEF Indices
<1>3. h = IF g <= p THEN p - g ELSE (p + n) - g
  <2>1. CASE g = p
    BY <1>2, <2>1 DEF HeldOf
  <2>2. CASE g # p
    BY <1>1, <1>2, <2>2, HeldIs
  <2> QED BY <2>1, <2>2
<1>4. h < n
  BY <1>2, <1>3
<1>5. PICK q \in Nat : q = Successor(p) /\ q = IF p + 1 < n THEN p + 1 ELSE 0
  BY <1>1, <1>2, SuccessorIs
<1>6. q \in Indices
  BY <1>1, <1>2, <1>5 DEF Indices
<1>7. HeldOf(g, q, m) = h + 1
  <2>1. CASE g = q
    <3>1. h + 1 = n
      BY <1>2, <1>3, <1>5, <2>1
    <3> QED BY <1>1, <2>1, <3>1 DEF HeldOf
  <2>2. CASE g # q
    <3>1. HeldOf(g, q, m) = IF g < q THEN q - g ELSE (q + n) - g
      BY <1>1, <1>6, <2>2, HeldIs
    <3>2. CASE p + 1 < n
      <4>1. q = p + 1 /\ g # p + 1
        BY <1>5, <2>2, <3>2
      <4>2. (IF g < p + 1 THEN (p + 1) - g ELSE ((p + 1) + n) - g) = h + 1
        BY <1>2, <1>3, <3>2, <4>1
      <4> QED BY <3>1, <4>1, <4>2
    <3>3. CASE p + 1 = n
      <4>1. q = 0 /\ g # 0
        BY <1>5, <2>2, <3>3
      <4>2. (IF g < 0 THEN 0 - g ELSE (0 + n) - g) = h + 1
        BY <1>2, <1>3, <3>3, <4>1
      <4> QED BY <3>1, <4>1, <4>2
    <3>4. p + 1 < n \/ p + 1 = n
      BY <1>2
    <3> QED BY <3>2, <3>3, <3>4
  <2> QED BY <2>1, <2>2
<1>8. \A j \in 0 .. h : Slot(g, j) = IF g + j < n THEN g + j ELSE (g + j) - n
  <2>1. \A j \in 0 .. h : j \in 0 .. CacheSize
    BY <1>1, <1>4
  <2> QED BY <1>1, <2>1, SlotIs
<1>9. p = Slot(g, h)
  <2>1. h \in 0 .. h
    OBVIOUS
  <2>2. Slot(g, h) = IF g + h < n THEN g + h ELSE (g + h) - n
    BY <1>8, <2>1
  <2> QED BY <1>2, <1>3, <2>2
<1>10. ASSUME NEW j \in 0 .. h - 1 PROVE Slot(g, j) # p
  <2>1. Slot(g, j) = IF g + j < n THEN g + j ELSE (g + j) - n
    BY <1>8
  <2> QED BY <1>2, <1>3, <2>1
<1> QED BY <1>1, <1>4, <1>5, <1>7, <1>9, <1>10

\* Where there is an entry, it is the one GET takes.
LEMMA Taken ==
    ASSUME NEW g \in Indices, NEW p \in Indices, NEW l, g = p => ~l, NEW h \in Nat, h = HeldOf(g, p, l),
           NEW m, m <=> Successor(g) = p
    PROVE  /\ h > 0 /\ HeldOf(Successor(g), p, m) = h - 1 /\ HeldOf(g, p, m) = h /\ Slot(g, 0) = g
           /\ \A j \in 0 .. h - 2 : Slot(Successor(g), j) = Slot(g, j + 1)
<1>1. PICK n \in Nat : n = CacheSize /\ n > 1
  BY PfifoAssumption
<1>2. g \in Nat /\ p \in Nat /\ g < n /\ p < n
  BY <1>1 DEF Indices
<1>3. h = IF g < p THEN p - g ELSE (p + n) - g
  <2>1. CASE g = p
    BY <1>1, <1>2, <2>1 DEF HeldOf
  <2>2. CASE g # p
    BY <1>1, <1>2, <2>2, HeldIs
  <2> QED BY <2>1, <2>2
<1>4. h > 0 /\ h <= n
  BY <1>2, <1>3
<1>5. PICK q \in Nat : q = Successor(g) /\ q = IF g + 1 < n THEN g + 1 ELSE 0
  BY <1>1, <1>2, SuccessorIs
<1>6. q \in Indices /\ q # g
  BY <1>1, <1>2, <1>5 DEF Indices
<1>7. HeldOf(q, p, m) = h - 1
  <2>1. CASE p = q
    <3>1. h = 1
      BY <1>1, <1>2, <1>3, <1>5, <2>1
    <3> QED BY <1>5, <2>1, <3>1 DEF HeldOf
  <2>2. CASE p # q
    <3>1. HeldOf(q, p, m) = IF q < p THEN p - q ELSE (p + n) - q
      BY <1>1, <1>6, <2>2, HeldIs
    <3> QED BY <1>2, <1>3, <1>5, <2>2, <3>1
  <2> QED BY <2>1, <2>2
<1>8. HeldOf(g, p, m) = h
  <2>1. CASE g = p
    <3>1. ~m
      BY <1>5, <1>6, <2>1
    <3> QED BY <2>1, <3>1 DEF HeldOf
  <2>2. CASE g # p
    BY <2>2 DEF HeldOf
  <2> QED BY <2>1, <2>2
<1>9. \A j \in 0 .. n : Slot(g, j) = IF g + j < n THEN g + j ELSE (g + j) - n
  BY <1>1, SlotIs
<1>10. Slot(g, 0) = g
  BY <1>1, <1>2, <1>9
<1>11. ASSUME NEW j \in 0 .. h - 2 PROVE Slot(q, j) = Slot(g, j + 1)
  <2>1. j \in 0 .. n /\ j + 1 \in 0 .. n /\ j + 1 < n
    BY <1>4
  <2>2. Slot(q, j) = IF q + j < n THEN q + j ELSE (q + j) - n
    BY <1>1, <1>6, <2>1, SlotIs
  <2>3. Slot(g, j + 1) = IF g + (j + 1) < n THEN g + (j + 1) ELSE (g + (j + 1)) - n
    BY <1>9, <2>1
  <2> QED BY <1>2, <1>5, <2>1, <2>2, <2>3
<1> QED BY <1>4, <1>5, <1>7, <1>8, <1>10, <1>11

\* There is room when the pusher goes on, whether the puller has access or not.
LEMMA RoomNext == ASSUME Typed, StopAgrees, StaysEnabled, FaultAnswered, SteadyMarks, RoomToPush, Next PROVE RoomToPush'
<1> USE DEF RoomToPush, Orderly, Fetching, SteadyMarks, Marks, FaultAnswered, StopAgrees, StaysEnabled, Enabled, Title, Stopped, Typed, control, dma, cache1, thread, title
<1>1. CASE PusherWake
  BY <1>1, SuccessorMoves, SuccessorTyped DEF PusherWake, Running
<1>2. CASE PushParameter
  BY <1>2, SuccessorMoves, SuccessorTyped DEF PushParameter, LeavePusher, MarkPushed
<1>3. CASE PushCommand
  BY <1>3, SuccessorMoves, SuccessorTyped DEF PushCommand
<1>4. CASE PushError
  BY <1>4, SuccessorMoves, SuccessorTyped DEF PushError, Suspend
<1>5. CASE PushDone
  BY <1>5, SuccessorMoves, SuccessorTyped DEF PushDone
<1>6. CASE GiveWay
  BY <1>6, SuccessorMoves, SuccessorTyped DEF GiveWay, Resume, MayGiveWay
<1>7. CASE WaitForAccess
  BY <1>7, SuccessorMoves, SuccessorTyped DEF WaitForAccess
<1>8. CASE FullWake
  BY <1>8, SuccessorMoves, SuccessorTyped DEF FullWake
<1>9. CASE Submitted
  BY <1>9, SuccessorMoves, SuccessorTyped DEF Submitted
<1>10. CASE FaultOver
  BY <1>10, SuccessorMoves, SuccessorTyped DEF FaultOver
<1>11. CASE PullMethod
  BY <1>11, SuccessorMoves, SuccessorTyped DEF PullMethod, TakeMethod
<1>12. CASE PullError
  BY <1>12, SuccessorMoves, SuccessorTyped DEF PullError, RaiseCacheError
<1>13. CASE \E a \in {TRUE, FALSE} : WritePull0(a)
  BY <1>13, SuccessorMoves, SuccessorTyped DEF WritePull0, TitleWrites, Doorbell, Locked
<1>14. CASE \E a \in {TRUE, FALSE} : WritePush0(a)
  BY <1>14, SuccessorMoves, SuccessorTyped DEF WritePush0, TitleWrites, Doorbell, Locked
<1>15. CASE WriteDmaPush
  BY <1>15, SuccessorMoves, SuccessorTyped DEF WriteDmaPush, SetDmaPush, TitleWrites, Doorbell, Locked
<1>16. CASE WriteDmaPut
  BY <1>16, SuccessorMoves, SuccessorTyped DEF WriteDmaPut, TitleWrites, Doorbell, Locked
<1>17. CASE Ring
  BY <1>17, SuccessorMoves, SuccessorTyped DEF Ring
<1>18. CASE AckPusher
  BY <1>18, SuccessorMoves, SuccessorTyped DEF AckPusher, TitleWrites, Locked
<1>19. CASE WriteDmaGet
  BY <1>19, SuccessorMoves, SuccessorTyped DEF WriteDmaGet, Locked
<1>20. CASE LiftSuspension
  BY <1>20, SuccessorMoves, SuccessorTyped DEF LiftSuspension, SetDmaPush, Doorbell, Locked
<1>21. CASE AckCache
  BY <1>21, SuccessorMoves, SuccessorTyped DEF AckCache, TitleWrites, Locked
<1>22. CASE WriteGet
  BY <1>22, SuccessorMoves, SuccessorTyped DEF WriteGet, Locked
<1>23. CASE Repair
  BY <1>23, SuccessorMoves, SuccessorTyped DEF Repair
<1>24. CASE WriteHash
  BY <1>24, SuccessorMoves, SuccessorTyped DEF WriteHash, Locked
<1>25. CASE Reset
  BY <1>25, SuccessorMoves, SuccessorTyped DEF Reset
<1>26. CASE ResetMark
  BY <1>26, SuccessorMoves, SuccessorTyped DEF ResetMark
<1>27. CASE UpdateIo
  BY <1>27, SuccessorMoves, SuccessorTyped DEF UpdateIo
<1>28. CASE RequestStop
  BY <1>28, SuccessorMoves, SuccessorTyped DEF RequestStop
<1>29. CASE StopErr
  BY <1>29, SuccessorMoves, SuccessorTyped DEF StopErr
<1>30. CASE StopRing
  BY <1>30, SuccessorMoves, SuccessorTyped DEF StopRing
<1>31. CASE Join
  BY <1>31, SuccessorMoves, SuccessorTyped DEF Join
<1> QED BY <1>1, <1>2, <1>3, <1>4, <1>5, <1>6, <1>7, <1>8, <1>9, <1>10, <1>11, <1>12, <1>13, <1>14, <1>15, <1>16,
           <1>17, <1>18, <1>19, <1>20, <1>21, <1>22, <1>23, <1>24, <1>25, <1>26, <1>27, <1>28, <1>29, <1>30, <1>31
        DEF Next, Fifo, Cpu, Submits, Interferes, Stopping

-----------------------------------------------------------------------------
\* Steps that leave the place and the methods as they are.
Quiet ==
    /\ UNCHANGED <<game, dmaGet, dmaPut, dmaState, subroutine, next, sent, cache, get, put, low>>
    /\ Fetching' => Fetching /\ UNCHANGED <<pbGet, pbPut>>
    /\ "pusher" \in intr' \/ cpuPc' = "skip" => "pusher" \in intr \/ cpuPc = "skip"
Moves ==
    \/ PusherWake \/ PushParameter \/ PushCommand \/ PushError \/ PullMethod \/ PullError
    \/ WriteDmaPut \/ WriteDmaGet \/ WriteGet

LEMMA QuietSteps == ASSUME Typed, StaysEnabled, Enabled, Next, ~Moves PROVE Quiet
<1> USE DEF Quiet, Fetching, StaysEnabled, Enabled, Title, control, dma, cache1, thread, title
<1>1. CASE PushDone
  BY <1>1 DEF PushDone
<1>2. CASE GiveWay
  BY <1>2 DEF GiveWay, Resume, MayGiveWay
<1>3. CASE WaitForAccess
  BY <1>3 DEF WaitForAccess
<1>4. CASE FullWake
  BY <1>4 DEF FullWake
<1>5. CASE Submitted
  BY <1>5 DEF Submitted
<1>6. CASE FaultOver
  BY <1>6 DEF FaultOver
<1>7. CASE \E a \in {TRUE, FALSE} : WritePull0(a)
  BY <1>7 DEF WritePull0, TitleWrites, Doorbell, Locked
<1>8. CASE \E a \in {TRUE, FALSE} : WritePush0(a)
  BY <1>8 DEF WritePush0, TitleWrites, Doorbell, Locked
<1>9. CASE WriteDmaPush
  BY <1>9 DEF WriteDmaPush, SetDmaPush, TitleWrites, Doorbell, Locked
<1>10. CASE Ring
  BY <1>10 DEF Ring
<1>11. CASE AckPusher
  BY <1>11 DEF AckPusher, TitleWrites, Locked
<1>12. CASE LiftSuspension
  BY <1>12 DEF LiftSuspension, SetDmaPush, Doorbell, Locked
<1>13. CASE AckCache
  BY <1>13 DEF AckCache, TitleWrites, Locked
<1>14. CASE Repair
  BY <1>14 DEF Repair
<1>15. CASE WriteHash
  BY <1>15 DEF WriteHash, Locked
<1>16. CASE Reset
  BY <1>16 DEF Reset
<1>17. CASE ResetMark
  BY <1>17 DEF ResetMark
<1>18. CASE UpdateIo
  BY <1>18 DEF UpdateIo
<1>19. CASE RequestStop
  BY <1>19 DEF RequestStop
<1>20. CASE StopErr
  BY <1>20 DEF StopErr
<1>21. CASE StopRing
  BY <1>21 DEF StopRing
<1>22. CASE Join
  BY <1>22 DEF Join
<1> QED BY <1>1, <1>2, <1>3, <1>4, <1>5, <1>6, <1>7, <1>8, <1>9, <1>10, <1>11, <1>12, <1>13, <1>14, <1>15, <1>16, <1>17, <1>18, <1>19, <1>20, <1>21, <1>22
        DEF Moves, Next, Fifo, Cpu, Submits, Interferes, Stopping

LEMMA StayAt ==
    ASSUME NEW i, NEW h, AtPlace(i, h), UNCHANGED <<game, dmaGet, dmaPut, dmaState, subroutine, next>>,
           Fetching' => Fetching /\ UNCHANGED <<pbGet, pbPut>>,
           "pusher" \in intr' \/ cpuPc' = "skip" => "pusher" \in intr \/ cpuPc = "skip"
    PROVE  AtPlace(i, h)'
<1>1. Reading' = Reading /\ Words' = Words
  BY DEF Reading, Words
<1> QED BY <1>1 DEF AtPlace

LEMMA StayContents ==
    ASSUME NEW n, Contents(n), UNCHANGED <<game, sent, cache, get, put>>, HeldOf(get, put, low') = HeldOf(get, put, low)
    PROVE  Contents(n)'
<1>1. Meaning' = Meaning /\ HeldOf(get, put, low)' = HeldOf(get, put, low)
  BY DEF Meaning
<1>2. \A j : Slot(get, j)' = Slot(get, j)
  BY DEF Slot
<1> QED BY <1>1, <1>2 DEF Contents

\* What the assumption says of the push buffer that is read.
LEMMA ReadingIs ==
    ASSUME game \in Games
    PROVE  /\ Reading \in Seq(Places) /\ Len(Reading) \in Nat /\ Len(Reading) > 0 /\ Reading[1] = FirstPlace
           /\ \A i \in 1 .. Len(Reading) - 1 :
                /\ Reading[i].at \in DOMAIN Words /\ Reading[i + 1] = After(Words, Reading[i])
                /\ Reading[i].method.count > 0 => Meaning[Reading[i].asked + 1] = AskedFor(Words, Reading[i])
           /\ \A i \in 1 .. Len(Reading) : Reading[i] \in Places /\ Reading[i].asked <= Len(Meaning)
           /\ Meaning \in Seq(Entries)
<1>1. IsReading(Reading, Words, Meaning) /\ Meaning \in Seq(Entries)
  BY MeaningAssumption DEF Reading, Words, Meaning, Entries
<1>2. Reading \in Seq(Places) /\ Reading # << >>
  BY <1>1 DEF IsReading
<1>3. Len(Reading) \in Nat /\ Len(Reading) > 0 /\ \A i \in 1 .. Len(Reading) : Reading[i] \in Places
  BY <1>2
<1> QED BY <1>1, <1>2, <1>3 DEF IsReading

LEMMA HaltsAre ==
    ASSUME game \in Games, NEW h \in Halts(game)
    PROVE  /\ h \in [0 .. Len(Stops) -> 1 .. Len(Reading)] /\ h[0] = 1
           /\ \A j, k \in 0 .. Len(Stops) : j <= k => h[j] <= h[k]
           /\ \A k \in 1 .. Len(Stops) : Reading[h[k]].at = Stops[k]
           /\ Stops \in Seq(Nat) /\ Len(Stops) \in Nat
<1>1. Stops \in Seq(Nat)
  BY GamesAssumption DEF Stops
<1>2. Len(Stops) \in Nat
  BY <1>1
<1> QED BY <1>1, <1>2 DEF Halts, Stops, Reading

\* A pusher that has not got to its DMA_PUT has a word to read, and the place after it
\* is not behind that or a later one.
LEMMA OneOn ==
    ASSUME Typed, NEW i, NEW h \in Halts(game), AtPlace(i, h), Fetching, pbGet # pbPut
    PROVE  /\ i \in Nat /\ i \in 1 .. Len(Reading) - 1 /\ i + 1 \in 1 .. Len(Reading) /\ i < h[next - 1] /\ i + 1 <= h[next - 1]
           /\ \E k \in 0 .. next - 1 : i + 1 <= h[k] /\ pbPut = Reading[h[k]].at
<1>1. game \in Games /\ next \in 1 .. Len(Stops) + 1
  BY DEF Typed
<1>2. /\ h \in [0 .. Len(Stops) -> 1 .. Len(Reading)] /\ \A j, k \in 0 .. Len(Stops) : j <= k => h[j] <= h[k]
      /\ Len(Stops) \in Nat
  BY <1>1, HaltsAre
<1>3. PICK n \in Nat : n = Len(Reading)
  BY <1>1, ReadingIs
<1>4. PICK k \in 0 .. next - 1 : i <= h[k] /\ pbPut = Reading[h[k]].at
  BY DEF AtPlace
<1>5. k \in 0 .. Len(Stops) /\ next - 1 \in 0 .. Len(Stops) /\ k <= next - 1
  BY <1>1, <1>2, <1>4
<1>6. PICK a \in Nat : a = h[k] /\ a <= n
  BY <1>2, <1>3, <1>5
<1>7. PICK b \in Nat : b = h[next - 1] /\ a <= b /\ b <= n
  BY <1>2, <1>3, <1>5, <1>6
<1>8. i \in Nat /\ i >= 1 /\ i <= a
  BY <1>3, <1>4, <1>6 DEF AtPlace
<1>9. i # a
  BY <1>4, <1>6 DEF AtPlace
<1>10. i < a /\ i + 1 <= a /\ i < b /\ i + 1 <= b /\ i \in 1 .. n - 1 /\ i + 1 \in 1 .. n
  BY <1>7, <1>8, <1>9
<1> QED BY <1>3, <1>4, <1>6, <1>7, <1>8, <1>10

\* The next place, when the pusher has read a word.
LEMMA OnAt ==
    ASSUME Typed, NEW i, NEW h \in Halts(game), AtPlace(i, h), Fetching, pbGet # pbPut,
           UNCHANGED <<game, next, dmaPut, pbPut, intr, cpuPc>>, "pusher" \notin intr, cpuPc # "skip",
           NEW place, place = Reading[i + 1],
           place.at = dmaGet', place.back = subroutine', place.method = dmaState', pbGet' = dmaGet'
    PROVE  AtPlace(i + 1, h)'
<1>1. i + 1 \in 1 .. Len(Reading) /\ i + 1 <= h[next - 1] /\ \E k \in 0 .. next - 1 : i + 1 <= h[k] /\ pbPut = Reading[h[k]].at
  BY OneOn
<1>2. Reading' = Reading
  BY DEF Reading
<1>3. PICK n : n = i + 1
  OBVIOUS
<1>4. dmaPut = Reading[h[next - 1]].at
  BY DEF AtPlace
<1>5. AtPlace(n, h)'
  BY <1>1, <1>2, <1>3, <1>4 DEF AtPlace
<1> QED BY <1>3, <1>5

\* A method more in cache1.
LEMMA MoreContents ==
    ASSUME Typed, NEW n \in Nat, Contents(n), get = put => low, NEW entry \in Entries, n + 1 <= Len(Meaning), entry = Meaning[n + 1],
           UNCHANGED <<game, sent, get>>, put' = Successor(put), cache' = [cache EXCEPT ![put] = entry], low' = FALSE
    PROVE  Contents(n + 1)'
<1>1. get \in Indices /\ put \in Indices /\ cache \in [Indices -> Entries]
  BY DEF Typed, Indices
<1>2. PICK c \in Nat : c = HeldOf(get, put, low)
  BY <1>1, HeldTyped, PfifoAssumption
<1>3. /\ c < CacheSize /\ HeldOf(get, Successor(put), low') = c + 1 /\ put = Slot(get, c)
      /\ \A j \in 0 .. c - 1 : Slot(get, j) # put
  BY <1>1, <1>2, Pushed
<1>4. PICK s \in Nat : s = Len(sent) /\ n = s + c /\ sent \in Seq(Entries)
  BY <1>2 DEF Contents
<1>5. \A j \in 1 .. s : sent[j] = Meaning[j]
  BY <1>4 DEF Contents
<1>6. \A j \in 0 .. c - 1 : cache[Slot(get, j)] = Meaning[s + j + 1]
  BY <1>2, <1>4 DEF Contents
<1>7. ASSUME NEW j \in 0 .. c PROVE cache'[Slot(get, j)] = Meaning[s + j + 1]
  <2>1. Slot(get, j) \in Indices
    <3>1. PICK m \in Nat : m = CacheSize /\ m > 1
      BY PfifoAssumption
    <3>2. Slot(get, j) = IF get + j < m THEN get + j ELSE (get + j) - m
      BY <1>1, <1>3, <3>1, SlotIs
    <3> QED BY <1>1, <1>3, <3>1, <3>2 DEF Indices
  <2>2. CASE j = c
    <3>1. cache'[put] = entry
      BY <1>1
    <3> QED BY <1>3, <1>4, <2>2, <3>1
  <2>3. CASE j # c
    <3>1. j \in 0 .. c - 1
      BY <2>3
    <3>2. cache'[Slot(get, j)] = cache[Slot(get, j)]
      BY <1>1, <1>3, <2>1, <3>1
    <3> QED BY <1>6, <3>1, <3>2
  <2> QED BY <2>2, <2>3
<1>8. Meaning' = Meaning /\ HeldOf(get, put, low)' = c + 1 /\ \A j : Slot(get, j)' = Slot(get, j)
  BY <1>3 DEF Meaning, Slot
<1>9. PICK m : m = n + 1
  OBVIOUS
<1>10. Contents(m)'
  <2>1. (sent \in Seq(Entries) /\ m = Len(sent) + HeldOf(get, put, low) /\ m <= Len(Meaning))'
    BY <1>4, <1>8, <1>9
  <2>2. (\A j \in 1 .. Len(sent) : sent[j] = Meaning[j])'
    BY <1>4, <1>5, <1>8
  <2>3. (\A j \in 0 .. HeldOf(get, put, low) - 1 : cache[Slot(get, j)] = Meaning[Len(sent) + j + 1])'
    <3>1. \A j \in 0 .. (c + 1) - 1 : j \in 0 .. c
      OBVIOUS
    <3> QED BY <1>4, <1>7, <1>8, <3>1
  <2> QED BY <2>1, <2>2, <2>3 DEF Contents
<1> QED BY <1>9, <1>10

\* A method from cache1 is submitted.
LEMMA SentContents ==
    ASSUME Typed, NEW n \in Nat, Contents(n), get = put => ~low, UNCHANGED <<game, put, cache>>,
           get' = Successor(get), sent' = Append(sent, cache[get]), low' <=> Successor(get) = put
    PROVE  Contents(n)'
<1>1. get \in Indices /\ put \in Indices /\ cache \in [Indices -> Entries]
  BY DEF Typed, Indices
<1>2. PICK c \in Nat : c = HeldOf(get, put, low)
  BY <1>1, HeldTyped, PfifoAssumption
<1>3. /\ c > 0 /\ HeldOf(Successor(get), put, low') = c - 1 /\ Slot(get, 0) = get
      /\ \A j \in 0 .. c - 2 : Slot(Successor(get), j) = Slot(get, j + 1)
  BY <1>1, <1>2, Taken
<1>4. PICK s \in Nat : s = Len(sent) /\ n = s + c /\ sent \in Seq(Entries)
  BY <1>2 DEF Contents
<1>5. \A j \in 1 .. s : sent[j] = Meaning[j]
  BY <1>4 DEF Contents
<1>6. \A j \in 0 .. c - 1 : cache[Slot(get, j)] = Meaning[s + j + 1]
  BY <1>2, <1>4 DEF Contents
<1>7. cache[get] = Meaning[s + 1] /\ cache[get] \in Entries
  <2>1. 0 \in 0 .. c - 1 /\ s + 0 + 1 = s + 1
    BY <1>3
  <2>2. cache[Slot(get, 0)] = Meaning[s + 0 + 1]
    BY <1>6, <2>1
  <2> QED BY <1>1, <1>3, <2>1, <2>2
<1>8. sent' \in Seq(Entries) /\ Len(sent') = s + 1 /\ \A j \in 1 .. s + 1 : sent'[j] = IF j <= s THEN sent[j] ELSE cache[get]
  BY <1>4, <1>7
<1>9. ASSUME NEW j \in 1 .. s + 1 PROVE sent'[j] = Meaning[j]
  <2>1. CASE j <= s
    BY <1>5, <1>8, <2>1
  <2>2. CASE ~(j <= s)
    <3>1. j = s + 1
      BY <2>2
    <3> QED BY <1>7, <1>8, <2>2, <3>1
  <2> QED BY <2>1, <2>2
<1>10. ASSUME NEW j \in 0 .. c - 2 PROVE cache[Slot(Successor(get), j)] = Meaning[(s + 1) + j + 1]
  <2>1. j + 1 \in 0 .. c - 1 /\ s + (j + 1) + 1 = (s + 1) + j + 1
    BY <1>3
  <2> QED BY <1>3, <1>6, <2>1
<1>11. Meaning' = Meaning /\ HeldOf(get, put, low)' = c - 1 /\ \A j : Slot(get, j)' = Slot(Successor(get), j)
  BY <1>3 DEF Meaning, Slot
<1>12. (sent \in Seq(Entries) /\ n = Len(sent) + HeldOf(get, put, low) /\ n <= Len(Meaning))'
  <2>1. n = (s + 1) + (c - 1) /\ n <= Len(Meaning)
    BY <1>3, <1>4 DEF Contents
  <2> QED BY <1>8, <1>11, <2>1
<1>13. (\A j \in 1 .. Len(sent) : sent[j] = Meaning[j])'
  BY <1>8, <1>9, <1>11
<1>14. (\A j \in 0 .. HeldOf(get, put, low) - 1 : cache[Slot(get, j)] = Meaning[Len(sent) + j + 1])'
  <2>1. \A j \in 0 .. (c - 1) - 1 : j \in 0 .. c - 2
    BY <1>3
  <2> QED BY <1>8, <1>10, <1>11, <2>1
<1> QED BY <1>12, <1>13, <1>14 DEF Contents

-----------------------------------------------------------------------------
LEMMA GameStays == ASSUME Next PROVE game' = game
<1> USE DEF control, dma, cache1, thread, title
<1>1. CASE Fifo
  BY <1>1 DEF Fifo, PusherWake, PushParameter, PushCommand, PushError, PushDone, GiveWay, WaitForAccess, FullWake,
              PullMethod, Submitted, PullError, FaultOver
<1>2. CASE Submits
  BY <1>2 DEF Submits, WritePull0, WritePush0, WriteDmaPush, WriteDmaPut, Ring, AckPusher, WriteDmaGet, LiftSuspension,
              AckCache, WriteGet, Repair, WriteHash
<1>3. CASE Interferes \/ RequestStop \/ Stopping
  BY <1>3 DEF Interferes, WritePull0, WritePush0, Reset, ResetMark, UpdateIo, RequestStop, Stopping, StopErr, StopRing, Join
<1> QED BY <1>1, <1>2, <1>3 DEF Next, Cpu

\* The pusher's steps.
Room == Typed /\ SuspendedAnswered /\ RoomToPush /\ Orderly
Placed(i, h) == i \in Nat /\ h \in Halts(game) /\ AtPlace(i, h) /\ Contents(Reading[i].asked)

LEMMA StillPlaced == ASSUME NEW i, NEW h, Placed(i, h), UNCHANGED game, AtPlace(i, h)', Contents(Reading[i].asked)' PROVE Placed(i, h)'
BY DEF Placed

LEMMA WakePlaced == ASSUME Room, PusherWake, NEW i, NEW h, Placed(i, h) PROVE Placed(i, h)'
<1> USE DEF control, dma, cache1, thread, title
<1>1. UNCHANGED <<game, dmaGet, dmaPut, dmaState, subroutine, next, sent, cache, get, put, low, intr, cpuPc>>
  BY DEF PusherWake
<1>2. Contents(Reading[i].asked)'
  <2>1. PICK n : n = Reading[i].asked /\ Contents(n)
    BY DEF Placed
  <2>2. Reading' = Reading
    BY <1>1 DEF Reading
  <2>3. Contents(n)'
    BY <1>1, <2>1, StayContents
  <2> QED BY <2>1, <2>2, <2>3
<1>3. AtPlace(i, h)'
  <2>1. CASE Fetching'
    <3>1. pbGet' = dmaGet' /\ pbPut' = dmaPut'
      BY <2>1 DEF PusherWake, Fetching
    <3>2. Reading' = Reading /\ Words' = Words
      BY <1>1 DEF Reading, Words
    <3>3. next - 1 \in 0 .. next - 1
      BY DEF Room, Typed
    <3> QED BY <1>1, <3>1, <3>2, <3>3 DEF AtPlace, Placed
  <2>2. CASE ~Fetching'
    BY <1>1, <2>2, StayAt DEF Placed
  <2> QED BY <2>1, <2>2
<1> QED BY <1>1, <1>2, <1>3, StillPlaced

LEMMA ParameterPlaced == ASSUME Room, PushParameter, NEW i, NEW h, Placed(i, h) PROVE Placed(i + 1, h)'
<1> USE DEF control, dma, cache1, thread, title
<1>1. Typed /\ Fetching /\ pbGet # pbPut /\ "pusher" \notin intr /\ cpuPc # "skip" /\ h \in Halts(game) /\ game \in Games
  BY DEF Room, Fetching, PushParameter, SuspendedAnswered, Answering, Orderly, Placed, Typed
<1>2. i \in Nat /\ i \in 1 .. Len(Reading) - 1 /\ i + 1 \in 1 .. Len(Reading)
  BY <1>1, OneOn DEF Placed
<1>3. PICK place \in Places : place = Reading[i]
  BY <1>1, <1>2, ReadingIs DEF AtPlace, Placed
<1>4. place.at = dmaGet /\ place.back = subroutine /\ place.method = dmaState /\ pbGet = dmaGet /\ dmaState.count > 0
  BY <1>1, <1>3 DEF AtPlace, Placed, PushParameter
<1>5. PICK later \in Places : later = Reading[i + 1]
  BY <1>1, <1>2, ReadingIs
<1>6. later = AfterParameter(place) /\ Meaning[place.asked + 1] = AskedFor(Words, place)
  BY <1>1, <1>2, <1>3, <1>4, <1>5, ReadingIs DEF After
<1>7. /\ later.at = place.at + 1 /\ later.back = place.back /\ later.asked = place.asked + 1
      /\ later.method = [place.method EXCEPT !.count = @ - 1]
  BY <1>3, <1>6 DEF AfterParameter, Places
<1>8. AtPlace(i + 1, h)'
  <2>1. UNCHANGED <<game, next, dmaPut, pbPut, intr, cpuPc>> /\ pbGet' = dmaGet'
    BY DEF PushParameter
  <2>2. later.at = dmaGet' /\ later.back = subroutine' /\ later.method = dmaState'
    BY <1>4, <1>7 DEF PushParameter
  <2> QED BY <1>1, <1>5, <2>1, <2>2, OnAt DEF Placed
<1>9. Contents(later.asked)'
  <2>1. PICK n \in Nat : n = place.asked /\ Contents(n)
    BY <1>3 DEF Placed, Places
  <2>2. PICK entry : entry = AskedFor(Words, place)
    OBVIOUS
  <2>3. entry = [sub |-> dmaState.sub, kind |-> dmaState.kind, param |-> Words[pbGet].param]
    BY <1>4, <2>2 DEF AskedFor
  <2>4. entry \in Entries
    BY <1>1, <2>3, WordsTyped DEF PushParameter, WordOK, Entries, Methods, Typed
  <2>5. n + 1 <= Len(Meaning) /\ entry = Meaning[n + 1]
    BY <1>1, <1>2, <1>5, <1>6, <1>7, <2>1, <2>2, ReadingIs
  <2>6. get = put => low
    BY DEF Room, RoomToPush, PushParameter
  <2>7. /\ UNCHANGED <<game, sent, get>> /\ put' = Successor(put) /\ low' = FALSE
        /\ cache' = [cache EXCEPT ![put] = entry]
    BY <2>3 DEF PushParameter, MarkPushed
  <2>8. Contents(n + 1)'
    BY <1>1, <2>1, <2>4, <2>5, <2>6, <2>7, MoreContents
  <2> QED BY <1>7, <2>1, <2>8
<1>10. h \in Halts(game)' /\ i + 1 \in Nat /\ Reading'[i + 1] = later
  <2>1. game' = game
    BY DEF PushParameter
  <2> QED BY <1>1, <1>2, <1>5, <2>1 DEF Reading
<1> QED BY <1>8, <1>9, <1>10 DEF Placed

\* What a command that is carried out makes of a place, and one that is refused.
LEMMA CommandAs ==
    ASSUME NEW word, NEW place \in Places, place.back = subroutine, place.method = dmaState
    PROVE  /\ \A c \in Command(word, place.at + 1) :
                AfterCommand(word, place) = [at |-> c.to, back |-> c.back, method |-> c.method, asked |-> place.asked]
           /\ Command(word, place.at + 1) = {} => word.op \notin {"jump", "method"} /\ ~Calls(word, place) /\ ~Returns(word, place)
<1>1. CASE word.op = "jump"
  <2>1. PICK c : c = [to |-> word.to, back |-> subroutine, method |-> dmaState]
    OBVIOUS
  <2>2. Command(word, place.at + 1) = {c}
    BY <1>1, <2>1 DEF Command
  <2>3. AfterCommand(word, place) = [at |-> c.to, back |-> c.back, method |-> c.method, asked |-> place.asked]
    BY <1>1, <2>1 DEF AfterCommand, Calls, Returns
  <2>4. Command(word, place.at + 1) # {}
    BY <2>2
  <2> QED BY <2>2, <2>3, <2>4
<1>2. CASE word.op = "call" /\ subroutine = Inactive
  <2>1. PICK c : c = [to |-> word.to, back |-> place.at + 1, method |-> dmaState]
    OBVIOUS
  <2>2. Command(word, place.at + 1) = {c}
    BY <1>2, <2>1 DEF Command
  <2>3. AfterCommand(word, place) = [at |-> c.to, back |-> c.back, method |-> c.method, asked |-> place.asked]
    BY <1>2, <2>1 DEF AfterCommand, Calls, Returns
  <2>4. Command(word, place.at + 1) # {}
    BY <2>2
  <2> QED BY <2>2, <2>3, <2>4
<1>3. CASE word.op = "return" /\ subroutine # Inactive
  <2>1. PICK c : c = [to |-> subroutine, back |-> Inactive, method |-> dmaState]
    OBVIOUS
  <2>2. Command(word, place.at + 1) = {c}
    BY <1>3, <2>1 DEF Command
  <2>3. AfterCommand(word, place) = [at |-> c.to, back |-> c.back, method |-> c.method, asked |-> place.asked]
    BY <1>3, <2>1 DEF AfterCommand, Calls, Returns
  <2>4. Command(word, place.at + 1) # {}
    BY <2>2
  <2> QED BY <2>2, <2>3, <2>4
<1>4. CASE word.op = "method"
  <2>1. PICK c : c = [to |-> place.at + 1, back |-> subroutine, method |-> [sub |-> word.sub, kind |-> word.kind, count |-> word.count]]
    OBVIOUS
  <2>2. Command(word, place.at + 1) = {c}
    BY <1>4, <2>1 DEF Command
  <2>3. AfterCommand(word, place) = [at |-> c.to, back |-> c.back, method |-> c.method, asked |-> place.asked]
    BY <1>4, <2>1 DEF AfterCommand, Calls, Returns
  <2>4. Command(word, place.at + 1) # {}
    BY <2>2
  <2> QED BY <2>2, <2>3, <2>4
<1>5. CASE word.op \notin {"jump", "method"} /\ ~(word.op = "call" /\ subroutine = Inactive) /\ ~(word.op = "return" /\ subroutine # Inactive)
  <2>1. Command(word, place.at + 1) = {}
    BY <1>5 DEF Command
  <2> QED BY <1>5, <2>1 DEF Calls, Returns
<1> QED BY <1>1, <1>2, <1>3, <1>4, <1>5

LEMMA CommandPlaced == ASSUME Room, PushCommand, NEW i, NEW h, Placed(i, h) PROVE Placed(i + 1, h)'
<1> USE DEF control, dma, cache1, thread, title
<1>1. Typed /\ Fetching /\ pbGet # pbPut /\ "pusher" \notin intr /\ cpuPc # "skip" /\ h \in Halts(game) /\ game \in Games
  BY DEF Room, Fetching, PushCommand, SuspendedAnswered, Answering, Orderly, Placed, Typed
<1>2. i \in Nat /\ i \in 1 .. Len(Reading) - 1 /\ i + 1 \in 1 .. Len(Reading)
  BY <1>1, OneOn DEF Placed
<1>3. PICK place \in Places : place = Reading[i]
  BY <1>1, <1>2, ReadingIs DEF AtPlace, Placed
<1>4. place.at = dmaGet /\ place.back = subroutine /\ place.method = dmaState /\ pbGet = dmaGet /\ dmaState.count = 0
  BY <1>1, <1>3 DEF AtPlace, Placed, PushCommand
<1>5. PICK later \in Places : later = Reading[i + 1]
  BY <1>1, <1>2, ReadingIs
<1>6. PICK word : word = Words[pbGet]
  OBVIOUS
<1>7. later = AfterCommand(word, place)
  BY <1>1, <1>2, <1>3, <1>4, <1>5, <1>6, ReadingIs DEF After
<1>8. PICK c \in Command(word, place.at + 1) :
        dmaGet' = c.to /\ subroutine' = c.back /\ dmaState' = c.method /\ pbGet' = dmaGet'
  BY <1>4, <1>6 DEF PushCommand
<1>9. later = [at |-> c.to, back |-> c.back, method |-> c.method, asked |-> place.asked]
  BY <1>3, <1>4, <1>7, <1>8, CommandAs
<1>10. AtPlace(i + 1, h)'
  <2>1. UNCHANGED <<game, next, dmaPut, pbPut, intr, cpuPc>> /\ pbGet' = dmaGet'
    BY <1>8 DEF PushCommand
  <2>2. later.at = dmaGet' /\ later.back = subroutine' /\ later.method = dmaState'
    BY <1>8, <1>9
  <2> QED BY <1>1, <1>5, <2>1, <2>2, OnAt DEF Placed
<1>11. Contents(later.asked)'
  <2>1. PICK n : n = place.asked /\ Contents(n)
    BY <1>3 DEF Placed
  <2>2. UNCHANGED <<game, sent, cache, get, put, low>>
    BY DEF PushCommand
  <2>3. Contents(n)'
    BY <2>1, <2>2, StayContents
  <2> QED BY <1>9, <2>1, <2>3
<1>12. h \in Halts(game)' /\ i + 1 \in Nat /\ Reading'[i + 1] = later
  <2>1. game' = game
    BY DEF PushCommand
  <2> QED BY <1>1, <1>2, <1>5, <2>1 DEF Reading
<1> QED BY <1>10, <1>11, <1>12 DEF Placed

\* A word that is refused is one of the buffer.
LEMMA ErrorPlaced == ASSUME Room, PushError, NEW i, NEW h, Placed(i, h) PROVE Placed(i, h)'
<1> USE DEF control, dma, cache1, thread, title
<1>1. Typed /\ Fetching /\ pbGet # pbPut /\ h \in Halts(game) /\ game \in Games
  BY DEF Room, Fetching, PushError, Placed, Typed
<1>2. i \in Nat /\ i \in 1 .. Len(Reading) - 1 /\ i < h[next - 1] /\ i \in 1 .. Len(Reading)
  BY <1>1, OneOn DEF Placed, AtPlace
<1>3. PICK place \in Places : place = Reading[i]
  BY <1>1, <1>2, ReadingIs
<1>4. place.at = dmaGet /\ place.back = subroutine /\ place.method = dmaState /\ pbGet = dmaGet
  BY <1>1, <1>3 DEF AtPlace, Placed
<1>5. dmaGet \in DOMAIN Words
  BY <1>1, <1>2, <1>3, <1>4, ReadingIs
<1>6. Refused(Words[dmaGet], place)
  <2>1. dmaState.count = 0 /\ Command(Words[dmaGet], place.at + 1) = {}
    BY <1>4, <1>5 DEF PushError
  <2> QED BY <1>3, <1>4, <2>1, CommandAs DEF Refused
<1>7. UNCHANGED <<game, dmaGet, dmaPut, dmaState, subroutine, next, sent, cache, get, put, low>> /\ ~Fetching'
  BY DEF PushError, Fetching
<1>8. Reading' = Reading /\ Words' = Words
  BY <1>7 DEF Reading, Words
<1>9. AtPlace(i, h)'
  BY <1>2, <1>3, <1>6, <1>7, <1>8 DEF AtPlace, Placed
<1>10. Contents(Reading[i].asked)'
  <2>1. PICK n : n = place.asked /\ Contents(n)
    BY <1>3 DEF Placed
  <2>2. Contents(n)'
    BY <1>7, <2>1, StayContents
  <2> QED BY <1>3, <1>8, <2>1, <2>2
<1> QED BY <1>7, <1>9, <1>10, StillPlaced

\* The puller's steps, and the title's in its place.
LEMMA TakenPlaced ==
    ASSUME Typed, NEW i, NEW h, Placed(i, h), get = put => ~low, UNCHANGED <<game, dma, put, cache, next, intr>>,
           cpuPc' # "skip" \/ cpuPc' = cpuPc,
           Fetching' => Fetching /\ UNCHANGED <<pbGet, pbPut>>,
           get' = Successor(get), sent' = Append(sent, cache[get]), low' <=> Successor(get) = put
    PROVE  Placed(i, h)'
<1>1. game \in Games /\ i \in 1 .. Len(Reading)
  BY DEF Typed, Placed, AtPlace
<1>2. PICK n \in Nat : n = Reading[i].asked /\ Contents(n)
  BY <1>1, ReadingIs DEF Placed, Places
<1>3. Contents(n)'
  BY <1>2, SentContents
<1>4. Contents(Reading[i].asked)'
  BY <1>2, <1>3 DEF Reading
<1>5. AtPlace(i, h)'
  BY StayAt DEF Placed, dma
<1> QED BY <1>4, <1>5, StillPlaced

LEMMA FaultPlaced == ASSUME Room, PullError, NEW i, NEW h, Placed(i, h) PROVE Placed(i, h)'
<1> USE DEF control, dma, cache1, thread, title
<1>1. UNCHANGED <<game, dmaGet, dmaPut, dmaState, subroutine, next, sent, cache, get, put, cpuPc>> /\ ~low /\ (low' <=> Successor(get) = put)
  BY DEF PullError
<1>2. HeldOf(get, put, low') = HeldOf(get, put, low)
  <2>1. get \in Indices /\ put \in Indices
    BY DEF Room, Typed, Indices
  <2>2. PICK c \in Nat : c = HeldOf(get, put, low)
    BY <2>1, HeldTyped, PfifoAssumption
  <2>3. HeldOf(get, put, low') = c
    BY <1>1, <2>1, <2>2, Taken
  <2> QED BY <2>2, <2>3
<1>3. Contents(Reading[i].asked)'
  <2>1. PICK n : n = Reading[i].asked /\ Contents(n)
    BY DEF Placed
  <2>2. Contents(n)'
    BY <1>1, <1>2, <2>1, StayContents
  <2> QED BY <1>1, <2>1, <2>2 DEF Reading
<1>4. AtPlace(i, h)'
  <2>1. "pusher" \in intr' => "pusher" \in intr
    BY DEF PullError, RaiseCacheError
  <2>2. Fetching' => Fetching /\ UNCHANGED <<pbGet, pbPut>>
    BY DEF PullError, Fetching
  <2> QED BY <1>1, <2>1, <2>2, StayAt DEF Placed
<1> QED BY <1>1, <1>3, <1>4, StillPlaced

\* The title's steps on the pointers of the pusher.
LEMMA PutPlaced == ASSUME Room, WriteDmaPut, NEW i, NEW h, Placed(i, h) PROVE Placed(i, h)'
<1> USE DEF control, dma, cache1, thread, title
<1>1. UNCHANGED <<game, dmaGet, dmaState, subroutine, sent, cache, get, put, low, intr, pbGet, pbPut, pc, resume>> /\ cpuPc' = "ring"
  BY DEF WriteDmaPut, Doorbell
<1>2. game \in Games /\ h \in Halts(game) /\ next \in 1 .. Len(Stops) + 1 /\ next <= Len(Stops)
  BY DEF Room, Typed, Placed, WriteDmaPut
<1>3. PICK n \in Nat : n = next /\ n > 0 /\ n <= Len(Stops) /\ next' = n + 1 /\ Len(Stops) \in Nat
  BY <1>2, HaltsAre DEF WriteDmaPut
<1>4. n \in 1 .. Len(Stops) /\ n \in 0 .. Len(Stops) /\ n - 1 \in 0 .. Len(Stops) /\ n - 1 <= n
  BY <1>3
<1>5. h[n - 1] <= h[n] /\ Reading[h[n]].at = dmaPut' /\ h[n] \in 1 .. Len(Reading) /\ h[n - 1] \in 1 .. Len(Reading)
  <2>1. Reading[h[n]].at = Stops[n] /\ dmaPut' = Stops[n]
    BY <1>2, <1>3, <1>4, HaltsAre DEF WriteDmaPut
  <2> QED BY <1>2, <1>4, <2>1, HaltsAre
<1>6. i \in Nat /\ i <= h[n]
  <2>1. i \in Nat /\ i <= h[n - 1]
    BY <1>3 DEF Placed, AtPlace
  <2> QED BY <1>2, <1>5, <2>1, ReadingIs
<1>7. ("pusher" \in intr => i < h[n])
  <2>1. "pusher" \in intr => i < h[n - 1]
    BY <1>3 DEF Placed, AtPlace
  <2> QED BY <1>2, <1>5, <1>6, <2>1, ReadingIs
<1>8. Reading' = Reading /\ Words' = Words /\ (Fetching' => Fetching) /\ next' - 1 = n
  BY <1>1, <1>3 DEF Reading, Words, Fetching
<1>9. AtPlace(i, h)'
  <2>1. \A k \in 0 .. n - 1 : k \in 0 .. n
    BY <1>3
  <2>2. (Fetching => pbGet = dmaGet /\ \E k \in 0 .. next - 1 : i <= h[k] /\ pbPut = Reading[h[k]].at)'
    BY <1>1, <1>3, <1>8, <2>1 DEF Placed, AtPlace
  <2>3. ("pusher" \in intr \/ cpuPc = "skip" => i < h[next - 1] /\ Refused(Words[dmaGet], Reading[i]))'
    BY <1>1, <1>7, <1>8 DEF Placed, AtPlace
  <2>4. (i \in 1 .. Len(Reading) /\ Reading[i].at = dmaGet /\ Reading[i].back = subroutine /\ Reading[i].method = dmaState)'
    BY <1>1, <1>8 DEF Placed, AtPlace
  <2>5. (i <= h[next - 1] /\ dmaPut = Reading[h[next - 1]].at)'
    BY <1>5, <1>6, <1>8
  <2> QED BY <2>2, <2>3, <2>4, <2>5 DEF AtPlace
<1>10. Contents(Reading[i].asked)'
  <2>1. PICK m : m = Reading[i].asked /\ Contents(m)
    BY DEF Placed
  <2>2. Contents(m)'
    BY <1>1, <2>1, StayContents
  <2> QED BY <1>8, <2>1, <2>2
<1> QED BY <1>1, <1>9, <1>10, StillPlaced

LEMMA SkipPlaced == ASSUME Room, WriteDmaGet, NEW i, NEW h, Placed(i, h) PROVE Placed(i + 1, h)'
<1> USE DEF control, dma, cache1, thread, title
<1>1. /\ UNCHANGED <<game, dmaPut, dmaState, subroutine, next, sent, cache, get, put, low, intr, pbGet, pbPut, pc, resume>>
      /\ cpuPc = "skip" /\ cpuPc' = "ringSkip" /\ dmaGet' = dmaGet + 1
  BY DEF WriteDmaGet
<1>2. ~Fetching' /\ "pusher" \notin intr'
  BY <1>1 DEF Room, Orderly, SuspendedAnswered, Answering, Fetching
<1>3. game \in Games /\ h \in Halts(game) /\ i < h[next - 1] /\ Refused(Words[dmaGet], Reading[i]) /\ i \in Nat
  BY <1>1 DEF Room, Typed, Placed, AtPlace
<1>4. PICK n \in Nat : n = Len(Reading)
  BY <1>3, ReadingIs
<1>5. PICK b \in 1 .. n : b = h[next - 1]
  <2>1. next \in 1 .. Len(Stops) + 1 /\ Len(Stops) \in Nat
    BY <1>3, HaltsAre DEF Room, Typed
  <2>2. next - 1 \in 0 .. Len(Stops)
    BY <2>1
  <2> QED BY <1>3, <1>4, <2>2, HaltsAre
<1>6. i \in 1 .. n - 1 /\ i \in 1 .. n /\ i + 1 \in 1 .. n /\ i + 1 <= b
  <2>1. i \in 1 .. n
    BY <1>4 DEF Placed, AtPlace
  <2> QED BY <1>3, <1>5, <2>1
<1>7. PICK place \in Places : place = Reading[i]
  BY <1>3, <1>4, <1>6, ReadingIs
<1>8. PICK later \in Places : later = Reading[i + 1]
  BY <1>3, <1>4, <1>6, ReadingIs
<1>9. place.at = dmaGet /\ place.back = subroutine /\ place.method = dmaState
  BY <1>7 DEF Placed, AtPlace
<1>10. later = AfterCommand(Words[dmaGet], place)
  BY <1>3, <1>4, <1>6, <1>7, <1>8, <1>9, ReadingIs DEF After, Refused
<1>11. later.at = place.at + 1 /\ later.back = place.back /\ later.method = place.method /\ later.asked = place.asked
  BY <1>3, <1>7, <1>10 DEF AfterCommand, Refused
<1>12. Reading' = Reading /\ Words' = Words
  BY <1>1 DEF Reading, Words
<1>13. AtPlace(i + 1, h)'
  <2>1. PICK j : j = i + 1
    OBVIOUS
  <2>2. (j \in 1 .. Len(Reading) /\ Reading[j].at = dmaGet /\ Reading[j].back = subroutine /\ Reading[j].method = dmaState)'
    BY <1>1, <1>4, <1>6, <1>8, <1>9, <1>11, <1>12, <2>1
  <2>3. (j <= h[next - 1] /\ dmaPut = Reading[h[next - 1]].at)'
    BY <1>1, <1>5, <1>6, <1>12, <2>1 DEF Placed, AtPlace
  <2>4. AtPlace(j, h)'
    BY <1>1, <1>2, <2>2, <2>3 DEF AtPlace
  <2> QED BY <2>1, <2>4
<1>14. Contents(later.asked)'
  <2>1. PICK m : m = place.asked /\ Contents(m)
    BY <1>7 DEF Placed
  <2>2. Contents(m)'
    BY <1>1, <2>1, StayContents
  <2> QED BY <1>11, <2>1, <2>2
<1>15. h \in Halts(game)' /\ i + 1 \in Nat /\ Reading'[i + 1] = later
  BY <1>1, <1>3, <1>8, <1>12
<1> QED BY <1>13, <1>14, <1>15 DEF Placed

LEMMA QuietPlaced == ASSUME Quiet, NEW i, NEW h, Placed(i, h) PROVE Placed(i, h)'
<1>1. AtPlace(i, h)'
  BY StayAt DEF Quiet, Placed
<1>2. Contents(Reading[i].asked)'
  <2>1. PICK n : n = Reading[i].asked /\ Contents(n)
    BY DEF Placed
  <2>2. Contents(n)'
    BY <2>1, StayContents DEF Quiet
  <2> QED BY <2>1, <2>2 DEF Quiet, Reading
<1> QED BY <1>1, <1>2, StillPlaced DEF Quiet

LEMMA PlacedNext ==
    ASSUME Room, StaysEnabled, FaultAnswered, Next, NEW i, NEW h, Placed(i, h)
    PROVE  \E j : Placed(j, h)'
<1> USE DEF control, dma, cache1, thread, title
<1>1. CASE PusherWake
  BY <1>1, WakePlaced
<1>2. CASE PushParameter
  BY <1>2, ParameterPlaced
<1>3. CASE PushCommand
  BY <1>3, CommandPlaced
<1>4. CASE PushError
  BY <1>4, ErrorPlaced
<1>5. CASE PullMethod
  <2>1. /\ UNCHANGED <<game, dma, put, cache, next, intr, cpuPc>> /\ ~low
        /\ get' = Successor(get) /\ sent' = Append(sent, cache[get]) /\ (low' <=> Successor(get) = put)
    BY <1>5 DEF PullMethod, TakeMethod
  <2>2. Fetching' => Fetching /\ UNCHANGED <<pbGet, pbPut>>
    BY <1>5 DEF PullMethod, TakeMethod, Fetching
  <2>3. Placed(i, h)'
    BY <2>1, <2>2, TakenPlaced DEF Room
  <2> QED BY <2>3
<1>6. CASE PullError
  BY <1>6, FaultPlaced
<1>7. CASE WriteDmaPut
  BY <1>7, PutPlaced
<1>8. CASE WriteDmaGet
  BY <1>8, SkipPlaced
<1>9. CASE WriteGet
  <2>1. /\ UNCHANGED <<game, dma, put, cache, next, intr, low>> /\ cpuPc = "fix" /\ cpuPc' = "hash"
        /\ get' = Successor(get) /\ sent' = Append(sent, cache[get])
    BY <1>9 DEF WriteGet
  <2>2. Fetching' => Fetching /\ UNCHANGED <<pbGet, pbPut>>
    BY <1>9 DEF WriteGet, Fetching
  <2>3. pc = "fault" /\ hasErr
    BY <2>1 DEF FaultAnswered
  <2>4. low <=> Successor(get) = put
    BY <2>1, <2>3 DEF Room, RoomToPush
  <2>5. get = put => ~low
    BY <2>4, SuccessorMoves DEF Room, Typed
  <2>6. Placed(i, h)'
    BY <2>1, <2>2, <2>4, <2>5, TakenPlaced DEF Room
  <2> QED BY <2>6
<1>10. CASE ~Moves
  BY <1>10, QuietSteps, QuietPlaced DEF Room, Orderly
<1> QED BY <1>1, <1>2, <1>3, <1>4, <1>5, <1>6, <1>7, <1>8, <1>9, <1>10 DEF Moves

LEMMA InPlaceNext ==
    ASSUME Typed, StaysEnabled, FaultAnswered, SuspendedAnswered, RoomToPush, InPlace, Next
    PROVE  InPlace'
<1>1. Orderly' => Orderly
  BY GameStays DEF Orderly, Enabled, Title
<1>2. ASSUME Orderly PROVE InPlace'
  <2>1. PICK i \in Nat, h \in Halts(game) : AtPlace(i, h) /\ Contents(Reading[i].asked)
    BY <1>2 DEF InPlace
  <2>2. Placed(i, h) /\ Room
    BY <1>2, <2>1 DEF Placed, Room
  <2>3. PICK j : Placed(j, h)'
    BY <2>2, PlacedNext
  <2> QED BY <2>3 DEF InPlace, Placed
<1> QED BY <1>1, <1>2 DEF InPlace

LEMMA OrderInit == ASSUME Init PROVE OrderInv
<1>1. game \in Games /\ Typed
  BY TypedInit DEF Init
<1>2. RoomToPush
  BY DEF RoomToPush, Init, Fetching
<1>3. PICK h : h \in Halts(game)
  BY <1>1, MeaningAssumption
<1>4. h[0] = 1 /\ h[0] \in 1 .. Len(Reading) /\ Len(Reading) \in Nat /\ Len(Reading) > 0 /\ Reading[1] = FirstPlace
  BY <1>1, <1>3, HaltsAre, ReadingIs
<1>5. next - 1 = 0
  BY DEF Init
<1>6. AtPlace(1, h)
  <2>1. 1 \in 1 .. Len(Reading) /\ 1 <= h[next - 1] /\ Reading[h[next - 1]].at = 0
    BY <1>4, <1>5 DEF FirstPlace
  <2>2. Reading[1].at = dmaGet /\ Reading[1].back = subroutine /\ Reading[1].method = dmaState
    BY <1>4 DEF FirstPlace, Init
  <2>3. ~Fetching /\ dmaPut = 0 /\ intr = {} /\ cpuPc # "skip"
    BY DEF Init, Fetching
  <2> QED BY <2>1, <2>2, <2>3 DEF AtPlace
<1>7. Contents(0)
  <2>1. Len(Meaning) \in Nat
    BY <1>1, ReadingIs
  <2>2. HeldOf(get, put, low) = 0 /\ sent = << >>
    BY DEF Init, HeldOf
  <2> QED BY <2>1, <2>2 DEF Contents
<1>8. Reading[1].asked = 0
  BY <1>4 DEF FirstPlace
<1> QED BY <1>2, <1>3, <1>6, <1>7, <1>8 DEF OrderInv, InPlace

\* The pusher is where the reading of its push buffer is, and what it has read is
\* what was submitted or is in cache1.
THEOREM OrderInvariant == Spec => [](PfifoInv /\ OrderInv)
<1>1. Init => PfifoInv /\ OrderInv
  BY PfifoInvInit, OrderInit
<1>2. PfifoInv /\ OrderInv /\ [Next]_vars => (PfifoInv /\ OrderInv)'
  <2> SUFFICES ASSUME PfifoInv, OrderInv, [Next]_vars PROVE (PfifoInv /\ OrderInv)'
    OBVIOUS
  <2>1. PfifoInv'
    BY PfifoInvNext
  <2>2. CASE Next
    <3>1. Typed /\ StopAgrees /\ StaysEnabled /\ FaultAnswered /\ SteadyMarks /\ SuspendedAnswered /\ RoomToPush /\ InPlace
      BY TypedIsRanges DEF PfifoInv, OrderInv
    <3>2. RoomToPush'
      BY <2>2, <3>1, RoomNext
    <3>3. InPlace'
      BY <2>2, <3>1, InPlaceNext
    <3> QED BY <2>1, <3>2, <3>3 DEF OrderInv
  <2>3. CASE UNCHANGED vars
    <3>1. RoomToPush'
      BY <2>3 DEF OrderInv, RoomToPush, Orderly, Enabled, Title, Fetching, vars, control, cache1, thread, title
    <3>2. Quiet /\ UNCHANGED game
      BY <2>3 DEF Quiet, Fetching, vars, control, dma, cache1, thread, title
    <3>3. InPlace'
      <4>1. Orderly' => Orderly
        BY <3>2 DEF Orderly, Enabled, Title
      <4>2. ASSUME Orderly PROVE InPlace'
        <5>1. PICK i \in Nat, h \in Halts(game) : AtPlace(i, h) /\ Contents(Reading[i].asked)
          BY <4>2 DEF OrderInv, InPlace
        <5>2. Placed(i, h)'
          BY <3>2, <5>1, QuietPlaced DEF Placed
        <5> QED BY <5>2 DEF InPlace, Placed
      <4> QED BY <4>1, <4>2 DEF InPlace
    <3> QED BY <2>1, <3>1, <3>3 DEF OrderInv
  <2> QED BY <2>2, <2>3
<1> QED BY <1>1, <1>2, PTL DEF Spec

\* Sequences of one length with the same elements are equal.
LEMMA SameSequence ==
    ASSUME NEW S, NEW m \in Nat, NEW a \in Seq(S), NEW b \in Seq(S), Len(a) = m, Len(b) = m,
           \A j \in 1 .. m : a[j] = b[j]
    PROVE  a = b
<1>1. a \in [1 .. m -> S]
  OBVIOUS
<1>2. b \in [1 .. m -> S]
  OBVIOUS
<1> QED BY <1>1, <1>2

\* What is submitted and what waits in cache1 is what the push buffer says, in its
\* order, nothing left out and nothing twice, for push buffers of any length with jumps,
\* calls and refused words, and any order of faults, wake-ups and register writes
\* (pfifo.cpp:228-568).
THEOREM OrderKept == Spec => []InOrder
<1>1. ASSUME PfifoInv, OrderInv PROVE InOrder
  <2> SUFFICES ASSUME Orderly, NEW all, all = sent \o Waiting PROVE Len(all) <= Len(Meaning) /\ all = SubSeq(Meaning, 1, Len(all))
    BY DEF InOrder, Orderly
  <2>1. Typed /\ game \in Games
    BY <1>1, TypedIsRanges DEF PfifoInv, Typed
  <2>2. get \in Indices /\ put \in Indices /\ cache \in [Indices -> Entries]
    BY <2>1 DEF Typed, Indices
  <2>3. PICK c \in Nat : c = HeldOf(get, put, low) /\ c = Held /\ c <= CacheSize
    BY <2>2, HeldTyped, PfifoAssumption DEF Held, HeldOf
  <2>4. PICK n : Contents(n)
    BY <1>1 DEF OrderInv, InPlace
  <2>5. PICK s \in Nat : s = Len(sent) /\ sent \in Seq(Entries)
    BY <2>4 DEF Contents
  <2>6. /\ \A j \in 1 .. s : sent[j] = Meaning[j]
        /\ \A j \in 0 .. c - 1 : cache[Slot(get, j)] = Meaning[s + j + 1]
        /\ s + c <= Len(Meaning)
    BY <2>3, <2>4, <2>5 DEF Contents
  <2>7. Meaning \in Seq(Entries) /\ Len(Meaning) \in Nat
    BY <2>1, ReadingIs
  <2>8. ASSUME NEW j \in 1 .. c PROVE Waiting[j] = Meaning[s + j] /\ Waiting[j] \in Entries
    <3>1. Waiting[j] = cache[Slot(get, j - 1)]
      <4>1. get + j - 1 = get + (j - 1)
        OBVIOUS
      <4> QED BY <2>3, <4>1 DEF Waiting, Slot
    <3>2. j - 1 \in 0 .. c - 1 /\ s + (j - 1) + 1 = s + j
      BY <2>3, <2>5
    <3>3. Waiting[j] = Meaning[s + j]
      BY <2>6, <3>1, <3>2
    <3>4. s + j \in 1 .. Len(Meaning)
      BY <2>3, <2>5, <2>6, <2>7
    <3> QED BY <2>7, <3>3, <3>4
  <2>9. Waiting \in Seq(Entries) /\ Len(Waiting) = c
    <3>1. Waiting \in [1 .. c -> Entries]
      BY <2>3, <2>8 DEF Waiting
    <3> QED BY <3>1
  <2>10. all \in Seq(Entries) /\ Len(all) = s + c /\ \A j \in 1 .. s + c : all[j] = IF j <= s THEN sent[j] ELSE Waiting[j - s]
    BY <2>3, <2>5, <2>9
  <2>11. ASSUME NEW j \in 1 .. s + c PROVE all[j] = Meaning[j]
    <3>1. CASE j <= s
      BY <2>6, <2>10, <3>1
    <3>2. CASE ~(j <= s)
      <4>1. j - s \in 1 .. c /\ s + (j - s) = j
        BY <2>3, <2>5, <3>2
      <4> QED BY <2>8, <2>10, <3>2, <4>1
    <3> QED BY <3>1, <3>2
  <2>12. PICK some : some = SubSeq(Meaning, 1, s + c)
    OBVIOUS
  <2>13. some \in Seq(Entries) /\ Len(some) = s + c /\ \A j \in 1 .. s + c : some[j] = Meaning[j]
    BY <2>3, <2>5, <2>6, <2>7, <2>12
  <2>14. all = some
    <3>1. PICK m \in Nat : m = s + c
      OBVIOUS
    <3>2. Len(all) = m /\ Len(some) = m /\ \A j \in 1 .. m : all[j] = some[j]
      BY <2>10, <2>11, <2>13, <3>1
    <3> QED BY <2>10, <2>13, <3>2, SameSequence
  <2> QED BY <2>6, <2>10, <2>12, <2>14
<1> QED BY <1>1, OrderInvariant, PTL

=============================================================================
