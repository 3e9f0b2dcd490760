------------------------------- MODULE Pfifo --------------------------------
(* The command fifo of the GPU (pfifo.cpp): one thread that runs the pusher  *)
(* and the puller as two coroutines, and the CPU thread, which runs the      *)
(* title's register writes and stops the thread.  The pusher turns the words *)
(* of a push buffer into methods and puts them in cache1, the puller takes   *)
(* them out and submits them to the graphics engine (module Pgraph).  Words, *)
(* methods and handles are abstract; which words are read, in which order    *)
(* and how far, is not.  Everything done in one hold of m_fifo_mtx is one    *)
(* step for each word or method.  The pusher unlocks the mutex twice after   *)
(* an error (lines 396 and 240), which is undefined: here it stays unlocked. *)
(* The wait for another engine to go idle is left to Pgraph.                 *)
EXTENDS Naturals, Sequences

CONSTANTS Games,        \* the titles: push buffer, its reading, DMA_PUT values and what else they do
          Subchannels,
          Objects,      \* handle -> what it finds in the hash table
          CacheSize,    \* entries of cache1
          Inactive      \* no return address

ASSUME PfifoAssumption == CacheSize \in Nat /\ CacheSize > 1

Kinds == {"bind", "lookup", "plain"}
Engines == {"graphics", "sw"}

\* A word of a push buffer: any can be read as data, and may be a handle.
WordOK(word) ==
    /\ word.param \in DOMAIN Objects
    /\ word.op \in {"jump", "call"} => word.to \in Nat
    /\ word.op = "method" => word.sub \in Subchannels /\ word.kind \in Kinds /\ word.count \in Nat

\* Registers that are zero: no method in progress, and entries of cache1 that
\* would bind the handle zero, which is not in the hash table.
NoMethod == [sub |-> CHOOSE s \in Subchannels : TRUE, kind |-> "bind", count |-> 0]
NoHandle == CHOOSE h \in DOMAIN Objects : Objects[h] = "invalid"
NoEntries == [i \in 0 .. CacheSize - 1 |-> [sub |-> NoMethod.sub, kind |-> NoMethod.kind, param |-> NoHandle]]

\* What a push buffer means.  It is read word by word, from the first one on: a
\* place in a reading has a position, a return address, the method in progress and
\* how many methods were asked for before.  A parameter asks for one; a word that is
\* refused is stepped over.
Places == [at : Nat, back : {Inactive} \cup Nat, method : [sub : Subchannels, kind : Kinds, count : Nat], asked : Nat]
FirstPlace == [at |-> 0, back |-> Inactive, method |-> NoMethod, asked |-> 0]
Calls(word, place) == word.op = "call" /\ place.back = Inactive
Returns(word, place) == word.op = "return" /\ place.back # Inactive
AfterParameter(place) == [place EXCEPT !.at = @ + 1, !.method.count = @ - 1, !.asked = @ + 1]
AfterCommand(word, place) ==
    [at     |-> IF word.op = "jump" \/ Calls(word, place) THEN word.to ELSE IF Returns(word, place) THEN place.back ELSE place.at + 1,
     back   |-> IF Calls(word, place) THEN place.at + 1 ELSE IF Returns(word, place) THEN Inactive ELSE place.back,
     method |-> IF word.op = "method" THEN [sub |-> word.sub, kind |-> word.kind, count |-> word.count] ELSE place.method,
     asked  |-> place.asked]
After(words, place) ==
    IF place.method.count > 0 THEN AfterParameter(place) ELSE AfterCommand(words[place.at], place)
AskedFor(words, place) == [sub |-> place.method.sub, kind |-> place.method.kind, param |-> words[place.at].param]

IsReading(reading, words, meaning) ==
    /\ reading \in Seq(Places) /\ reading # << >> /\ reading[1] = FirstPlace
    /\ \A i \in 1 .. Len(reading) - 1 :
         /\ reading[i].at \in DOMAIN words /\ reading[i + 1] = After(words, reading[i])
         /\ reading[i].method.count > 0 => meaning[reading[i].asked + 1] = AskedFor(words, reading[i])
    /\ \A i \in 1 .. Len(reading) : reading[i].asked <= Len(meaning)
    /\ reading[Len(reading)].asked = Len(meaning)

\* where a reading is when it has got to each DMA_PUT, in their order
Halts(g) ==
    {h \in [0 .. Len(g.stops) -> 1 .. Len(g.reading)] :
        /\ h[0] = 1 /\ \A j, k \in 0 .. Len(g.stops) : j <= k => h[j] <= h[k]
        /\ \A k \in 1 .. Len(g.stops) : g.reading[h[k]].at = g.stops[k]}

ASSUME GamesAssumption ==
    \A g \in Games :
        /\ DOMAIN g.words \subseteq Nat /\ \A i \in DOMAIN g.words : WordOK(g.words[i])
        /\ g.stops \in Seq(Nat)
ASSUME MeaningAssumption ==
    \A g \in Games :
        g.meaning \in Seq([sub : Subchannels, kind : Kinds, param : DOMAIN Objects])
        /\ IsReading(g.reading, g.words, g.meaning) /\ Halts(g) # {}
ASSUME ObjectsAssumption == Subchannels # {} /\ \E h \in DOMAIN Objects : Objects[h] = "invalid"

VARIABLES push0,        \* the access bit of CACHE1_PUSH0
          dmaPush,      \* DMA_PUSH: access, busy (STATE) and suspended (STATUS)
          pullAccess,   \* the access bit of CACHE1_PULL0
          dmaGet, dmaPut,
          dmaState,     \* DMA_STATE: subchannel, method and parameters to come
          subroutine,   \* DMA_SUBROUTINE
          cache,        \* CACHE1_METHOD and CACHE1_DATA
          get, put,     \* CACHE1_GET and CACHE1_PUT
          low, high,    \* the marks of CACHE1_STATUS
          engine,       \* CACHE1_ENGINE, for each subchannel
          intr,         \* INTR_0
          hasWork,      \* m_fifo_has_work
          hasErr,       \* m_puller_has_err
          isEnabled,    \* m_is_enabled
          stop,         \* the stop state of m_jthr
          pc, resume,   \* where the fifo thread is, and where its pusher goes on
          pbGet, pbPut, \* curr_pb_get and curr_pb_put of the pusher
          cpuPc,
          next,         \* the next of Stops to write
          repaired,     \* handles the title has added to the hash table
          sent,         \* what was submitted, or done by the title instead
          game          \* the title that runs, one of Games

control == <<push0, dmaPush, pullAccess>>
dma == <<dmaGet, dmaPut, dmaState, subroutine>>
cache1 == <<cache, get, put, low, high>>
thread == <<pc, resume, pbGet, pbPut>>
title == <<cpuPc, next, repaired>>
vars == <<control, dma, cache1, engine, intr, hasWork, hasErr, isEnabled, stop, thread, title, sent, game>>

Words == game.words         \* the push buffer, from position 0 on
Stops == game.stops         \* the values the title writes to DMA_PUT, in order
Meaning == game.meaning     \* the methods the buffer asks for up to the last of them
Reading == game.reading     \* how it comes to ask for them
Title == game.does          \* what else the title does, see the guards

Successor(i) == (i + 1) % CacheSize

\* reset() and init().  All registers are zero but for the mark that says empty.
Init ==
    /\ game \in Games
    /\ push0 = FALSE /\ dmaPush = [access |-> FALSE, busy |-> FALSE, suspended |-> FALSE]
    /\ pullAccess = FALSE
    /\ dmaGet = 0 /\ dmaPut = 0 /\ dmaState = NoMethod /\ subroutine = Inactive
    /\ cache = NoEntries
    /\ get = 0 /\ put = 0 /\ low = TRUE /\ high = FALSE
    /\ engine = [s \in Subchannels |-> "sw"]
    /\ intr = {} /\ hasWork = FALSE /\ hasErr = FALSE /\ isEnabled = TRUE /\ stop = FALSE
    /\ pc = "idle" /\ resume = "top" /\ pbGet = 0 /\ pbPut = 0
    /\ cpuPc = "run" /\ next = 1 /\ repaired = {} /\ sent = << >>

-----------------------------------------------------------------------------
(* The pusher.  It waits at "idle"; at "push" it holds the lock. *)

Running == push0 /\ dmaPush.access /\ ~dmaPush.suspended

\* The wait returns, the lock is taken, the flag is cleared.
PusherWake ==
    /\ pc = "idle" /\ hasWork
    /\ hasWork' = FALSE
    /\ \/ /\ stop
          /\ pc' = "done"
          /\ UNCHANGED <<game, dmaPush, resume, pbGet, pbPut>>
       \/ /\ ~stop /\ ~Running
          /\ resume' = "top" /\ pc' = "pull"
          /\ UNCHANGED <<game, dmaPush, pbGet, pbPut>>
       \/ /\ ~stop /\ Running
          /\ dmaPush' = [dmaPush EXCEPT !.busy = TRUE]
          /\ pbGet' = dmaGet /\ pbPut' = dmaPut
          /\ pc' = "push"
          /\ UNCHANGED resume
    /\ UNCHANGED <<game, push0, pullAccess, dma, cache1, engine, intr, hasErr, isEnabled, stop, title, sent>>

\* Variant: leaves the empty mark.
MarkPushedLow == high' = (high \/ put' = get) /\ low' = low
\* The marks, once PUT has moved.
MarkPushed == high' = (high \/ put' = get) /\ low' = FALSE

\* Variant: goes on with the next word.
LeavePusherNot == resume' = "loop" /\ pc' = "push"
LeavePusher == resume' = "loop" /\ pc' = "pull"

PushParameter ==
    /\ pc = "push" /\ pbGet # pbPut /\ pbGet \in DOMAIN Words /\ dmaState.count > 0
    /\ cache' = [cache EXCEPT ![put] = [sub |-> dmaState.sub, kind |-> dmaState.kind, param |-> Words[pbGet].param]]
    /\ put' = Successor(put)
    /\ MarkPushed
    /\ dmaState' = [dmaState EXCEPT !.count = @ - 1]
    /\ pbGet' = pbGet + 1 /\ dmaGet' = pbGet'
    /\ LeavePusher
    /\ UNCHANGED <<game, control, dmaPut, subroutine, get, engine, intr, hasWork, hasErr, isEnabled, stop, pbPut, title, sent>>

\* What a command does to the position, the return address and the method;
\* the empty set for a command that is refused.  A parameter in the place of a
\* command is taken for one that is not recognised.
Command(word, after) ==
    CASE word.op = "jump" -> {[to |-> word.to, back |-> subroutine, method |-> dmaState]}
      [] word.op = "call" /\ subroutine = Inactive -> {[to |-> word.to, back |-> after, method |-> dmaState]}
      [] word.op = "return" /\ subroutine # Inactive -> {[to |-> subroutine, back |-> Inactive, method |-> dmaState]}
      [] word.op = "method" -> {[to |-> after, back |-> subroutine,
                                 method |-> [sub |-> word.sub, kind |-> word.kind, count |-> word.count]]}
      [] OTHER -> {}

PushCommand ==
    /\ pc = "push" /\ pbGet # pbPut /\ pbGet \in DOMAIN Words /\ dmaState.count = 0
    /\ \E c \in Command(Words[pbGet], pbGet + 1) :
          /\ pbGet' = c.to /\ dmaGet' = c.to
          /\ subroutine' = c.back
          /\ dmaState' = c.method
    /\ UNCHANGED <<game, control, dmaPut, cache1, engine, intr, hasWork, hasErr, isEnabled, stop, pc, resume, pbPut, title, sent>>

Suspend == dmaPush' = [dmaPush EXCEPT !.busy = FALSE, !.suspended = TRUE]

\* Past the limit of the buffer, or a command that is refused: GET stays at it.
PushError ==
    /\ pc = "push" /\ pbGet # pbPut
    /\ \/ pbGet \notin DOMAIN Words
       \/ /\ pbGet \in DOMAIN Words /\ dmaState.count = 0
          /\ Command(Words[pbGet], pbGet + 1) = {}
    /\ Suspend
    /\ intr' = intr \cup {"pusher"}
    /\ pc' = "idle"
    /\ UNCHANGED <<game, push0, pullAccess, dma, cache1, engine, hasWork, hasErr, isEnabled, stop, resume, pbGet, pbPut, title, sent>>

PushDone ==
    /\ pc = "push" /\ pbGet = pbPut
    /\ dmaPush' = [dmaPush EXCEPT !.busy = FALSE]
    /\ pc' = "idle"
    /\ UNCHANGED <<game, push0, pullAccess, dma, cache1, engine, intr, hasWork, hasErr, isEnabled, stop, resume, pbGet, pbPut, title, sent>>

-----------------------------------------------------------------------------
(* The puller.  At "pull" it holds the lock. *)

\* Switches to the pusher, which left from the top of its loop or from the
\* middle of its buffer; there it goes on unless the engine was disabled.
Resume ==
    \/ /\ resume = "top"
       /\ pc' = "idle"
       /\ UNCHANGED dmaPush
    \/ /\ resume = "loop" /\ isEnabled
       /\ pc' = "push"
       /\ UNCHANGED dmaPush
    \/ /\ resume = "loop" /\ ~isEnabled
       /\ dmaPush' = [dmaPush EXCEPT !.busy = FALSE]
       /\ pc' = "idle"

\* Variant: does not care for room.
MayGiveWayFull == IF pullAccess THEN low ELSE TRUE
\* Cache1 is empty, or the puller has no access and there is room.
MayGiveWay == IF pullAccess THEN low ELSE ~high

GiveWay ==
    /\ pc = "pull" /\ MayGiveWay
    /\ Resume
    /\ UNCHANGED <<game, push0, pullAccess, dma, cache1, engine, intr, hasWork, hasErr, isEnabled, stop, resume, pbGet, pbPut, title, sent>>

WaitForAccess ==
    /\ pc = "pull" /\ ~pullAccess /\ high
    /\ pc' = "full"
    /\ UNCHANGED <<game, control, dma, cache1, engine, intr, hasWork, hasErr, isEnabled, stop, resume, pbGet, pbPut, title, sent>>

\* The puller uses the same flag as the pusher.
FullWake ==
    /\ pc = "full" /\ hasWork
    /\ hasWork' = FALSE
    /\ pc' = IF stop THEN "done" ELSE "pull"
    /\ UNCHANGED <<game, control, dma, cache1, engine, intr, hasErr, isEnabled, stop, resume, pbGet, pbPut, title, sent>>

\* What the hash table says of a handle.
Lookup(handle) == IF handle \in repaired THEN "graphics" ELSE Objects[handle]

\* The engine a method goes to; "invalid" when its handle is not found.
EngineOf(entry) ==
    CASE entry.kind = "bind" -> Lookup(entry.param)
      [] entry.kind = "lookup" /\ Lookup(entry.param) = "invalid" -> "invalid"
      [] OTHER -> engine[entry.sub]

TakeMethod ==
    /\ pc = "pull" /\ pullAccess /\ ~low
    /\ get' = Successor(get)
    /\ low' = (get' = put)
    /\ high' = FALSE

\* The lock is released while submitMethod waits for room.
PullMethod ==
    /\ TakeMethod
    /\ EngineOf(cache[get]) = "graphics"
    /\ engine' = [engine EXCEPT ![cache[get].sub] = "graphics"]
    /\ sent' = Append(sent, cache[get])
    /\ pc' = "submit"
    /\ UNCHANGED <<game, control, dma, cache, put, intr, hasWork, hasErr, isEnabled, stop, resume, pbGet, pbPut, title>>

Submitted ==
    /\ pc = "submit"
    /\ pc' = IF stop THEN "done" ELSE "pull"
    /\ UNCHANGED <<game, control, dma, cache1, engine, intr, hasWork, hasErr, isEnabled, stop, resume, pbGet, pbPut, title, sent>>

\* Variant: forgets the interrupt.
RaiseCacheErrorNot == UNCHANGED intr
RaiseCacheError == intr' = intr \cup {"cache"}

\* Puts GET back, but not the marks.
PullError ==
    /\ pc = "pull" /\ pullAccess /\ ~low
    /\ EngineOf(cache[get]) \in {"invalid", "sw"}
    /\ low' = (Successor(get) = put)
    /\ high' = FALSE
    /\ get' = get
    /\ dmaPush' = [dmaPush EXCEPT !.busy = FALSE]
    /\ RaiseCacheError
    /\ hasErr' = TRUE
    /\ pc' = "fault"
    /\ UNCHANGED <<game, push0, pullAccess, dma, cache, put, engine, hasWork, isEnabled, stop, resume, pbGet, pbPut, title, sent>>

FaultOver ==
    /\ pc = "fault" /\ ~hasErr
    /\ pc' = IF stop THEN "done" ELSE "pull"
    /\ UNCHANGED <<game, control, dma, cache1, engine, intr, hasWork, hasErr, isEnabled, stop, resume, pbGet, pbPut, title, sent>>

Fifo == \/ PusherWake \/ PushParameter \/ PushCommand \/ PushError \/ PushDone
        \/ GiveWay \/ WaitForAccess \/ FullWake \/ PullMethod \/ Submitted \/ PullError \/ FaultOver

-----------------------------------------------------------------------------
(* The CPU thread.  A register write takes the lock, so it waits while the   *)
(* fifo thread holds it; the flag is set after the lock is released.  What   *)
(* the title may do beyond submitting its buffer once is in Title: "push"    *)
(* and "pull" for turning the accesses off and on, "toggle" for rewriting    *)
(* DMA_PUSH, "retry" for repairing a handle rather than doing the method     *)
(* itself, "disable" for PMC_ENABLE and "stop" for closing the console.      *)

Locked == pc \in {"push", "pull"}
TitleWrites == cpuPc = "run" /\ isEnabled /\ ~Locked

\* Variant: a write that nobody is told of.
DoorbellQuiet == cpuPc' = "run"
Doorbell == cpuPc' = "ring"

\* The title has the puller ready before it starts the pusher, and starts it
\* at once, unless it is one that turns the puller off.
WritePull0(access) ==
    /\ TitleWrites /\ pullAccess # access
    /\ access \/ "pull" \in Title
    /\ pullAccess' = access
    /\ Doorbell
    /\ UNCHANGED <<game, push0, dmaPush, dma, cache1, engine, intr, hasWork, hasErr, isEnabled, stop, thread, next, repaired, sent>>

WritePush0(access) ==
    /\ TitleWrites /\ push0 # access
    /\ IF access THEN pullAccess \/ "pull" \in Title ELSE "push" \in Title
    /\ push0' = access
    /\ Doorbell
    /\ UNCHANGED <<game, dmaPush, pullAccess, dma, cache1, engine, intr, hasWork, hasErr, isEnabled, stop, thread, next, repaired, sent>>

\* The register keeps what is written but for the busy bit, which becomes zero.
SetDmaPush == dmaPush' = [access |-> TRUE, busy |-> FALSE, suspended |-> FALSE]

WriteDmaPush ==
    /\ TitleWrites /\ ~dmaPush.suspended
    /\ dmaPush.access => "toggle" \in Title
    /\ SetDmaPush
    /\ Doorbell
    /\ UNCHANGED <<game, push0, pullAccess, dma, cache1, engine, intr, hasWork, hasErr, isEnabled, stop, thread, next, repaired, sent>>

WriteDmaPut ==
    /\ TitleWrites /\ next <= Len(Stops)
    /\ dmaPut' = Stops[next] /\ next' = next + 1
    /\ Doorbell
    /\ UNCHANGED <<game, control, dmaGet, dmaState, subroutine, cache1, engine, intr, hasWork, hasErr, isEnabled, stop, thread, repaired, sent>>

Ring ==
    /\ cpuPc \in {"ring", "ringSkip"}
    /\ hasWork' = TRUE
    /\ cpuPc' = IF cpuPc = "ring" THEN "run" ELSE "resume"
    /\ UNCHANGED <<game, control, dma, cache1, engine, intr, hasErr, isEnabled, stop, thread, next, repaired, sent>>

\* Handles a pusher interrupt: acknowledges it, steps GET over the command that
\* was refused and lifts the suspension.  Past the end there is none.
AckPusher ==
    /\ TitleWrites /\ "pusher" \in intr /\ dmaGet \in DOMAIN Words
    /\ intr' = intr \ {"pusher"}
    /\ cpuPc' = "skip"
    /\ UNCHANGED <<game, control, dma, cache1, engine, hasWork, hasErr, isEnabled, stop, thread, next, repaired, sent>>

WriteDmaGet ==
    /\ cpuPc = "skip" /\ ~Locked
    /\ dmaGet' = dmaGet + 1
    /\ cpuPc' = "ringSkip"
    /\ UNCHANGED <<game, control, dmaPut, dmaState, subroutine, cache1, engine, intr, hasWork, hasErr, isEnabled, stop, thread, next, repaired, sent>>

LiftSuspension ==
    /\ cpuPc = "resume" /\ ~Locked
    /\ SetDmaPush
    /\ Doorbell
    /\ UNCHANGED <<game, push0, pullAccess, dma, cache1, engine, intr, hasWork, hasErr, isEnabled, stop, thread, next, repaired, sent>>

\* Handles a puller interrupt: acknowledges it, then does the method itself and
\* steps GET over it, or repairs its handle; a write to HASH ends the fault.
AckCache ==
    /\ TitleWrites /\ "cache" \in intr
    /\ intr' = intr \ {"cache"}
    /\ cpuPc' = "fix"
    /\ UNCHANGED <<game, control, dma, cache1, engine, hasWork, hasErr, isEnabled, stop, thread, next, repaired, sent>>

WriteGet ==
    /\ cpuPc = "fix" /\ ~Locked
    /\ get' = Successor(get)
    /\ sent' = Append(sent, cache[get])
    /\ cpuPc' = "hash"
    /\ UNCHANGED <<game, control, dma, cache, put, low, high, engine, intr, hasWork, hasErr, isEnabled, stop, thread, next, repaired>>

Repair ==
    /\ cpuPc = "fix" /\ "retry" \in Title
    /\ cache[get].kind # "plain" /\ Lookup(cache[get].param) = "invalid"
    /\ repaired' = repaired \cup {cache[get].param}
    /\ cpuPc' = "hash"
    /\ UNCHANGED <<game, control, dma, cache1, engine, intr, hasWork, hasErr, isEnabled, stop, thread, next, sent>>

WriteHash ==
    /\ cpuPc = "hash" /\ ~Locked
    /\ hasErr' = FALSE
    /\ cpuPc' = "run"
    /\ UNCHANGED <<game, control, dma, cache1, engine, intr, hasWork, isEnabled, stop, thread, next, repaired, sent>>

\* A write to PMC_ENABLE resets the registers, without the lock: zeroes them, as
\* one step here, sets the empty mark, and then tells the fifo thread; the
\* title's writes have no effect until it enables it again.  Not once the buffer
\* is through, a bound.
Reset ==
    /\ cpuPc = "run" /\ isEnabled /\ "disable" \in Title
    /\ Len(sent) < Len(Meaning)
    /\ push0' = FALSE /\ dmaPush' = [access |-> FALSE, busy |-> FALSE, suspended |-> FALSE]
    /\ pullAccess' = FALSE
    /\ dmaGet' = 0 /\ dmaPut' = 0 /\ dmaState' = NoMethod /\ subroutine' = Inactive
    /\ get' = 0 /\ put' = 0 /\ low' = FALSE /\ high' = FALSE
    /\ cache' = NoEntries
    /\ engine' = [s \in Subchannels |-> "sw"]
    /\ intr' = {}
    /\ cpuPc' = "mark"
    /\ UNCHANGED <<game, hasWork, hasErr, isEnabled, stop, thread, next, repaired, sent>>

ResetMark ==
    /\ cpuPc = "mark"
    /\ low' = TRUE /\ high' = FALSE
    /\ cpuPc' = "updateIo"
    /\ UNCHANGED <<game, control, dma, cache, get, put, engine, intr, hasWork, hasErr, isEnabled, stop, thread, next, repaired, sent>>

UpdateIo ==
    /\ \/ cpuPc = "updateIo" /\ isEnabled' = FALSE
       \/ cpuPc = "run" /\ ~isEnabled /\ isEnabled' = TRUE
    /\ cpuPc' = "run"
    /\ UNCHANGED <<game, control, dma, cache1, engine, intr, hasWork, hasErr, stop, thread, next, repaired, sent>>

\* deinit, which stops the graphics engine after the first step.
RequestStop ==
    /\ cpuPc = "run" /\ "stop" \in Title
    /\ stop' = TRUE
    /\ cpuPc' = "stopErr"
    /\ UNCHANGED <<game, control, dma, cache1, engine, intr, hasWork, hasErr, isEnabled, thread, next, repaired, sent>>

StopErr ==
    /\ cpuPc = "stopErr"
    /\ hasErr' = FALSE
    /\ cpuPc' = "stopRing"
    /\ UNCHANGED <<game, control, dma, cache1, engine, intr, hasWork, isEnabled, stop, thread, next, repaired, sent>>

\* Variant: tells nobody.
StopRingQuiet ==
    /\ cpuPc = "stopRing"
    /\ cpuPc' = "join"
    /\ UNCHANGED <<game, control, dma, cache1, engine, intr, hasWork, hasErr, isEnabled, stop, thread, next, repaired, sent>>
StopRing ==
    /\ cpuPc = "stopRing"
    /\ hasWork' = TRUE
    /\ cpuPc' = "join"
    /\ UNCHANGED <<game, control, dma, cache1, engine, intr, hasErr, isEnabled, stop, thread, next, repaired, sent>>

Join ==
    /\ cpuPc = "join" /\ pc = "done"
    /\ cpuPc' = "gone"
    /\ UNCHANGED <<game, control, dma, cache1, engine, intr, hasWork, hasErr, isEnabled, stop, thread, next, repaired, sent>>

\* What the title does sooner or later, against what it may do.
Submits == \/ WritePull0(TRUE) \/ WritePush0(TRUE) \/ WriteDmaPush \/ WriteDmaPut \/ Ring
           \/ AckPusher \/ WriteDmaGet \/ LiftSuspension \/ AckCache \/ WriteGet \/ Repair \/ WriteHash
Interferes == WritePull0(FALSE) \/ WritePush0(FALSE) \/ Reset \/ ResetMark \/ UpdateIo
Stopping == StopErr \/ StopRing \/ Join
Cpu == Submits \/ Interferes \/ RequestStop \/ Stopping

Next == Fifo \/ Cpu

Spec == Init /\ [][Next]_vars

\* Both threads go on, and the title handles what it is told and submits all.
FairSpec == Spec /\ WF_vars(Fifo) /\ WF_vars(Submits) /\ WF_vars(Stopping)

-----------------------------------------------------------------------------
(* Properties *)

Entries == [sub : Subchannels, kind : Kinds, param : DOMAIN Objects]

\* Types and ranges of the registers both threads share (pfifo.hpp) and of the
\* thread that works on them.
TypeOK ==
    /\ {push0, pullAccess, low, high, hasWork, hasErr, isEnabled, stop} \subseteq BOOLEAN
    /\ dmaPush \in [access : BOOLEAN, busy : BOOLEAN, suspended : BOOLEAN]
    /\ {dmaGet, dmaPut, pbGet, pbPut} \subseteq Nat
    /\ dmaState \in [sub : Subchannels, kind : Kinds, count : Nat]
    /\ get \in 0 .. CacheSize - 1 /\ put \in 0 .. CacheSize - 1
    /\ engine \in [Subchannels -> Engines] /\ intr \subseteq {"pusher", "cache"}
    /\ pc \in {"idle", "push", "pull", "full", "submit", "fault", "done"}
    /\ resume \in {"top", "loop"}
    /\ repaired \subseteq DOMAIN Objects /\ next \in 1 .. Len(Stops) + 1

\* The entries between GET and PUT, which are equal when cache1 is empty or full.
Held == IF get = put THEN (IF low THEN 0 ELSE CacheSize) ELSE (put + CacheSize - get) % CacheSize
Waiting == [i \in 1 .. Held |-> cache[(get + i - 1) % CacheSize]]

\* Titles that leave the engine enabled, and among them those that leave the
\* puller on and do the methods that fault themselves.
Enabled == "disable" \notin Title
Plain == Title \cap {"disable", "pull", "retry"} = {}

\* What was submitted and what waits in cache1 is what the push buffer says, in
\* its order, nothing left out and nothing twice: across jumps and calls, full
\* and empty caches, accesses turned off and on, and methods done by the title.
\* Not for one that turns the puller off at a method it means to try again.
InOrder ==
    LET all == sent \o Waiting IN
    Enabled /\ ~({"pull", "retry"} \subseteq Title) => Len(all) <= Len(Meaning) /\ all = SubSeq(Meaning, 1, Len(all))

\* The marks of CACHE1_STATUS, which both coroutines decide by, tell an empty
\* cache1 from a full one whenever the puller is not stopped at a method, unless
\* the title lets it take the method again.
MarksAgree ==
    Title \cap {"disable", "retry"} = {} /\ pc \notin {"fault", "done"} =>
        /\ low => get = put /\ ~high
        /\ high => get = put
        /\ get = put => low \/ high

Asleep == pc = "idle" /\ ~hasWork /\ cpuPc \notin {"ring", "ringSkip"} /\ isEnabled /\ ~stop

\* The thread does not sleep while the puller may take methods out of cache1:
\* "puller access to cache1 changed and possibly put != get, notify the pusher"
\* (pfifo.cpp:158).
NothingLeftBehind == Asleep /\ pullAccess => get = put

\* With a plain title the thread does not sleep over words it may fetch ("dma
\* pointer changed, notify the pusher") or methods it may submit.
NoLostDoorbell == Plain => NothingLeftBehind /\ (Asleep /\ Running => dmaGet = dmaPut)

\* The pusher does not sleep with its busy bit set, by which the title knows that
\* it has come to rest, also when it was disabled in the middle of a method.
IdleNotBusy == pc = "idle" => ~dmaPush.busy

\* The registers the title decides by agree with each other and with the thread.
RegistersSound == TypeOK /\ MarksAgree /\ IdleNotBusy

\* The puller is stopped at a method only while the title has an interrupt to
\* answer, or is answering it.
FaultHasCause == Enabled /\ pc = "fault" /\ hasErr => "cache" \in intr \/ cpuPc \in {"fix", "hash"}

\* All methods of the buffer are submitted in the end, when nothing but faults
\* comes in between.
AllDelivered == (Title = {}) ~> (sent = Meaning)

\* Every handle of the buffer is one of an object for the graphics engine.
NoFaults == \A i \in DOMAIN Meaning : Meaning[i].kind # "plain" => Objects[Meaning[i].param] = "graphics"

\* deinit returns when no method faults.
StopEnds == (cpuPc = "stopErr" /\ NoFaults) ~> (cpuPc = "gone")

(* What the comments of the code say and the model refutes (README, 5), like *)
(* NothingLeftBehind.                                                        *)

\* The busy bit is set from the first word the pusher fetches to the last
\* (pfifo.cpp:258), but for a fault of the puller, which clears it.
BusyWhileRunning == pc \in {"push", "pull", "submit", "full"} /\ resume = "loop" /\ pbGet # pbPut => dmaPush.busy

\* The pusher stops where it was disabled and leaves DMA_GET as reset() has set
\* it (pfifo.cpp:319).
DisabledIsReset == ~isEnabled /\ pc = "idle" => dmaGet = 0
=============================================================================
