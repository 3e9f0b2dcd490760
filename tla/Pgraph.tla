------------------------------- MODULE Pgraph -------------------------------
(* The graphics engine (pgraph.cpp): the graph thread, which executes what   *)
(* the fifo thread submits, the CPU thread, which runs the title's register  *)
(* accesses and finally stops the thread, and the fifo thread as far as it   *)
(* calls submitMethod.  The input queue is the bounded queue SpscQueue is    *)
(* shown to implement.  What a method draws is left out; what matters is     *)
(* under which channel it runs.  A step is one access to state that another  *)
(* thread reads or writes outside m_graph_mtx.                               *)
EXTENDS Naturals, Sequences

CONSTANTS Channels,     \* the channels methods are submitted for
          NoChannel,    \* no channel: an invalid context, a plain method
          Capacity,     \* of m_input_queue
          Titles        \* what each title does besides answering the switches: "stray" writes
                        \* to INTR when no switch is pending, "disables" writes PMC_ENABLE,
                        \* "fails" runs a method the emulator does not implement

ASSUME PgraphAssumption == NoChannel \notin Channels /\ Capacity \in Nat \ {0}
ASSUME TitlesAssumption == Titles \subseteq SUBSET {"stray", "disables", "fails"}

VARIABLES queue,        \* m_input_queue: the target of a bind, NoChannel for a plain method
          hasWork,      \* m_graph_has_work
          trig,         \* m_ctx_switch_trig
          mtx,          \* the holder of m_graph_mtx
          intStatus,    \* the context switch bit of m_int_status
          busy,         \* m_busy
          fifoAccess,   \* the access bit of m_fifo_access
          pmcEnable,    \* the bit of this engine in PMC_ENABLE
          isEnabled,    \* m_is_enabled, which follows it
          shouldExit,   \* m_should_exit = 0
          stop,         \* the stop state of m_jthr
          channel,      \* NV_PGRAPH_CTX_USER, NoChannel when CTX_CONTROL says invalid
          trapped,      \* NV_PGRAPH_TRAPPED_ADDR: the channel an interrupt asks for
          elem,         \* the entry the graph thread works on
          offered,      \* the entry the fifo thread submits
          graphPc, cpuPc, fifoPc,
          title         \* the title that runs

lines == <<intStatus, busy, trapped>>
enables == <<fifoAccess, pmcEnable, isEnabled>>
vars == <<queue, hasWork, trig, mtx, lines, enables, shouldExit, stop, channel, elem, offered, graphPc, cpuPc, fifoPc, title>>

Entries == Channels \cup {NoChannel}

Init ==
    /\ title \in Titles
    /\ queue = << >> /\ hasWork = TRUE /\ trig = FALSE /\ mtx = "free"
    /\ intStatus = FALSE /\ busy = FALSE
    /\ fifoAccess = FALSE /\ pmcEnable \in (IF "disables" \in title THEN BOOLEAN ELSE {TRUE}) /\ isEnabled = pmcEnable
    /\ shouldExit = FALSE /\ stop = FALSE
    /\ channel = NoChannel /\ trapped = NoChannel /\ elem = NoChannel /\ offered = NoChannel
    /\ graphPc = "wait" /\ cpuPc = "run" /\ fifoPc = "ready"

-----------------------------------------------------------------------------
(* The fifo thread: submitMethod, until it finds that it should stop. *)

\* pfifo::deinit requests the stop of this thread before anything else.
FifoStopped == cpuPc \in {"stopGraph", "stopTrig", "stopRing", "join", "joinFifo", "gone"}

Submit(e) ==
    /\ fifoPc = "ready"
    /\ offered' = e
    /\ fifoPc' = "emplace"
    /\ UNCHANGED <<title, queue, hasWork, trig, mtx, lines, enables, shouldExit, stop, channel, elem, graphPc, cpuPc>>

\* Blocks while the queue is full.
Emplace ==
    /\ fifoPc = "emplace" /\ Len(queue) < Capacity
    /\ queue' = Append(queue, offered)
    /\ fifoPc' = "ring"
    /\ UNCHANGED <<title, hasWork, trig, mtx, lines, enables, shouldExit, stop, channel, elem, offered, graphPc, cpuPc>>

Ring ==
    /\ fifoPc = "ring"
    /\ hasWork' = TRUE
    /\ fifoPc' = IF FifoStopped THEN "left" ELSE "ready"
    /\ UNCHANGED <<title, queue, trig, mtx, lines, enables, shouldExit, stop, channel, elem, offered, graphPc, cpuPc>>

\* It finds the stop request in other places, too.
Leave ==
    /\ fifoPc = "ready" /\ FifoStopped
    /\ fifoPc' = "left"
    /\ UNCHANGED <<title, queue, hasWork, trig, mtx, lines, enables, shouldExit, stop, channel, elem, offered, graphPc, cpuPc>>

Fifo == Emplace \/ Ring \/ Leave

-----------------------------------------------------------------------------
(* The graph thread: graphHandler. *)

Granted == fifoAccess /\ isEnabled /\ ~shouldExit

Wake ==
    /\ graphPc = "wait" /\ hasWork /\ mtx = "free"
    /\ hasWork' = FALSE
    /\ IF stop
       THEN graphPc' = "drain" /\ UNCHANGED <<mtx, busy>>
       ELSE graphPc' = "loop" /\ mtx' = "graph" /\ busy' = TRUE
    /\ UNCHANGED <<title, queue, trig, intStatus, trapped, enables, shouldExit, stop, channel, elem, offered, cpuPc, fifoPc>>

\* Takes the next entry, and finds out whether it needs another channel.
TakeEntry ==
    /\ graphPc = "loop" /\ queue # << >> /\ Granted
    /\ elem' = Head(queue)
    /\ queue' = Tail(queue)
    /\ graphPc' = IF elem' \in Channels /\ elem' # channel THEN "trap" ELSE "execute"
    /\ UNCHANGED <<title, hasWork, trig, mtx, lines, enables, shouldExit, stop, channel, offered, cpuPc, fifoPc>>

\* Asks the title to switch: first the busy flag and the trapped channel, then
\* the interrupt, then the flag the thread is going to wait on.
Trap ==
    /\ graphPc = "trap"
    /\ busy' = FALSE /\ trapped' = elem
    /\ graphPc' = "interrupt"
    /\ UNCHANGED <<title, queue, hasWork, trig, mtx, intStatus, enables, shouldExit, stop, channel, elem, offered, cpuPc, fifoPc>>

RaiseInterrupt ==
    /\ graphPc = "interrupt"
    /\ intStatus' = TRUE
    /\ graphPc' = "setTrig"
    /\ UNCHANGED <<title, queue, hasWork, trig, mtx, busy, trapped, enables, shouldExit, stop, channel, elem, offered, cpuPc, fifoPc>>

SetTrig ==
    /\ graphPc = "setTrig"
    /\ trig' = TRUE /\ mtx' = "free"
    /\ graphPc' = "waitTrig"
    /\ UNCHANGED <<title, queue, hasWork, lines, enables, shouldExit, stop, channel, elem, offered, cpuPc, fifoPc>>

\* Variant: the thread goes on without looking at the stop state.
ResumeBlind ==
    /\ graphPc = "waitTrig" /\ ~trig /\ mtx = "free"
    /\ mtx' = "graph" /\ busy' = TRUE
    /\ graphPc' = "execute"
    /\ UNCHANGED <<title, queue, hasWork, trig, intStatus, trapped, enables, shouldExit, stop, channel, elem, offered, cpuPc, fifoPc>>

Resume ==
    /\ graphPc = "waitTrig" /\ ~trig /\ mtx = "free"
    /\ mtx' = "graph"
    /\ IF stop THEN graphPc' = "done" /\ UNCHANGED busy
               ELSE graphPc' = "execute" /\ busy' = TRUE
    /\ UNCHANGED <<title, queue, hasWork, trig, intStatus, trapped, enables, shouldExit, stop, channel, elem, offered, cpuPc, fifoPc>>

\* Binds the object, or runs the method; one that is not implemented ends it all.
Execute ==
    /\ graphPc = "execute"
    /\ \E fails \in (IF "fails" \in title THEN BOOLEAN ELSE {FALSE}) :
          /\ shouldExit' = (shouldExit \/ fails)
          /\ hasWork' = (hasWork \/ fails)
    /\ graphPc' = "loop"
    /\ UNCHANGED <<title, queue, trig, mtx, lines, enables, stop, channel, elem, offered, cpuPc, fifoPc>>

LoopEnds ==
    /\ graphPc = "loop" /\ (queue = << >> \/ ~Granted)
    /\ graphPc' = "done"
    /\ UNCHANGED <<title, queue, hasWork, trig, mtx, lines, enables, shouldExit, stop, channel, elem, offered, cpuPc, fifoPc>>

\* Variant: the flag is cleared once more when the work is done.
DoneClears ==
    /\ graphPc = "done"
    /\ busy' = FALSE /\ mtx' = "free" /\ hasWork' = FALSE
    /\ graphPc' = "wait"
    /\ UNCHANGED <<title, queue, trig, intStatus, trapped, enables, shouldExit, stop, channel, elem, offered, cpuPc, fifoPc>>

Done ==
    /\ graphPc = "done"
    /\ busy' = FALSE /\ mtx' = "free"
    /\ graphPc' = "wait"
    /\ UNCHANGED <<title, queue, hasWork, trig, intStatus, trapped, enables, shouldExit, stop, channel, elem, offered, cpuPc, fifoPc>>

\* Variant: a queue with nobody left to take from it.
DrainNothing ==
    /\ graphPc = "drain"
    /\ graphPc' = "exited"
    /\ UNCHANGED <<title, queue, hasWork, trig, mtx, lines, enables, shouldExit, stop, channel, elem, offered, cpuPc, fifoPc>>

\* The thread empties the queue, so that the fifo thread is not stuck in emplace.
Drain ==
    /\ graphPc = "drain"
    /\ queue' = IF queue # << >> THEN Tail(queue) ELSE queue
    /\ graphPc' = IF queue # << >> THEN "drain" ELSE "exited"
    /\ UNCHANGED <<title, hasWork, trig, mtx, lines, enables, shouldExit, stop, channel, elem, offered, cpuPc, fifoPc>>

Graph == \/ Wake \/ TakeEntry \/ Trap \/ RaiseInterrupt \/ SetTrig \/ Resume
         \/ Execute \/ LoopEnds \/ Done \/ Drain

-----------------------------------------------------------------------------
(* The CPU thread: the title's accesses, PMC_ENABLE, and the end of it all. *)

\* The title's answer to the interrupt: it points CTX_USER at the channel that
\* was trapped and makes CTX_CONTROL valid.
SwitchChannel ==
    /\ cpuPc = "run" /\ isEnabled /\ intStatus /\ mtx = "free"
    /\ channel' = trapped
    /\ UNCHANGED <<title, queue, hasWork, trig, mtx, lines, enables, shouldExit, stop, elem, offered, graphPc, cpuPc, fifoPc>>

\* Variant: the interrupt goes away, but nobody tells the graph thread.
WriteIntrQuiet(clears) ==
    /\ cpuPc = "run" /\ isEnabled
    /\ "stray" \in title \/ (clears /\ intStatus /\ channel = trapped)
    /\ intStatus' = (intStatus /\ ~clears)
    /\ UNCHANGED <<title, queue, hasWork, trig, mtx, busy, trapped, enables, shouldExit, stop, channel, elem, offered, graphPc, cpuPc, fifoPc>>

\* A write to INTR, with or without the bit of the context switch.  A title
\* that is not stray only acknowledges an interrupt it has served.
WriteIntr(clears) ==
    /\ cpuPc = "run" /\ isEnabled
    /\ "stray" \in title \/ (clears /\ intStatus /\ channel = trapped)
    /\ intStatus' = (intStatus /\ ~clears)
    /\ cpuPc' = IF intStatus' THEN "run" ELSE "clearTrig"
    /\ UNCHANGED <<title, queue, hasWork, trig, mtx, busy, trapped, enables, shouldExit, stop, channel, elem, offered, graphPc, fifoPc>>

\* Variant: m_graph_mtx is not taken.
ClearTrigUnlocked ==
    /\ cpuPc = "clearTrig"
    /\ trig' = FALSE
    /\ cpuPc' = "run"
    /\ UNCHANGED <<title, queue, hasWork, mtx, lines, enables, shouldExit, stop, channel, elem, offered, graphPc, fifoPc>>

ClearTrig ==
    /\ cpuPc = "clearTrig" /\ mtx = "free"
    /\ trig' = FALSE
    /\ cpuPc' = "run"
    /\ UNCHANGED <<title, queue, hasWork, mtx, lines, enables, shouldExit, stop, channel, elem, offered, graphPc, fifoPc>>

WriteFifo(access) ==
    /\ cpuPc = "run" /\ isEnabled
    /\ fifoAccess' = access
    /\ cpuPc' = "ring"
    /\ UNCHANGED <<title, queue, hasWork, trig, mtx, lines, pmcEnable, isEnabled, shouldExit, stop, channel, elem, offered, graphPc, fifoPc>>

\* A write to PMC_ENABLE resets an engine it does not enable, whatever the
\* graph thread is doing.
WriteEnable(on) ==
    /\ cpuPc = "run" /\ "disables" \in title
    /\ pmcEnable' = on
    /\ IF on THEN UNCHANGED <<intStatus, busy, trapped, fifoAccess, channel, hasWork>>
             ELSE /\ intStatus' = FALSE /\ busy' = FALSE /\ fifoAccess' = FALSE /\ hasWork' = FALSE
                  /\ trapped' = NoChannel /\ channel' = NoChannel
    /\ cpuPc' = IF on = pmcEnable THEN "run" ELSE "updateIo"
    /\ UNCHANGED <<title, queue, trig, mtx, isEnabled, shouldExit, stop, elem, offered, graphPc, fifoPc>>

UpdateIo ==
    /\ cpuPc = "updateIo"
    /\ isEnabled' = pmcEnable
    /\ cpuPc' = "ring"
    /\ UNCHANGED <<title, queue, hasWork, trig, mtx, lines, fifoAccess, pmcEnable, shouldExit, stop, channel, elem, offered, graphPc, fifoPc>>

RingUp ==
    /\ cpuPc \in {"ring", "stopRing"}
    /\ hasWork' = TRUE
    /\ cpuPc' = IF cpuPc = "ring" THEN "run" ELSE "join"
    /\ UNCHANGED <<title, queue, trig, mtx, lines, enables, shouldExit, stop, channel, elem, offered, graphPc, fifoPc>>

\* pfifo::deinit asks its own thread to stop, and then calls pgraph::deinit.
StopFifo ==
    /\ cpuPc = "run"
    /\ cpuPc' = "stopGraph"
    /\ UNCHANGED <<title, queue, hasWork, trig, mtx, lines, enables, shouldExit, stop, channel, elem, offered, graphPc, fifoPc>>

StopGraph ==
    /\ cpuPc = "stopGraph"
    /\ stop' = TRUE
    /\ cpuPc' = "stopTrig"
    /\ UNCHANGED <<title, queue, hasWork, trig, mtx, lines, enables, shouldExit, channel, elem, offered, graphPc, fifoPc>>

StopTrig ==
    /\ cpuPc = "stopTrig"
    /\ trig' = FALSE
    /\ cpuPc' = "stopRing"
    /\ UNCHANGED <<title, queue, hasWork, mtx, lines, enables, shouldExit, stop, channel, elem, offered, graphPc, fifoPc>>

Join ==
    /\ \/ cpuPc = "join" /\ graphPc = "exited" /\ cpuPc' = "joinFifo"
       \/ cpuPc = "joinFifo" /\ fifoPc = "left" /\ cpuPc' = "gone"
    /\ UNCHANGED <<title, queue, hasWork, trig, mtx, lines, enables, shouldExit, stop, channel, elem, offered, graphPc, fifoPc>>

Title == SwitchChannel \/ ("stray" \notin title /\ WriteIntr(TRUE))
Cpu == ClearTrig \/ UpdateIo \/ RingUp \/ StopGraph \/ StopTrig \/ Join

Next == \/ Fifo \/ \E e \in Entries : Submit(e)
        \/ Graph
        \/ Cpu \/ StopFifo \/ SwitchChannel
        \/ \E b \in BOOLEAN : WriteIntr(b) \/ WriteFifo(b) \/ WriteEnable(b)

Spec == Init /\ [][Next]_vars

\* The three threads run; the title serves the interrupts it gets, whatever
\* else it writes in between.
FairSpec == Spec /\ WF_vars(Fifo) /\ WF_vars(Graph) /\ WF_vars(Cpu) /\ SF_vars(Title)

-----------------------------------------------------------------------------
(* Properties. *)

\* Types, and the lock: its holder is the graph thread between two waits.
TypeOK ==
    /\ title \in Titles
    /\ queue \in Seq(Entries) /\ Len(queue) =< Capacity
    /\ {hasWork, trig, intStatus, busy, shouldExit, stop} \cup {fifoAccess, pmcEnable, isEnabled} \subseteq BOOLEAN
    /\ {channel, trapped, elem, offered} \subseteq Entries
    /\ graphPc \in {"wait", "loop", "trap", "interrupt", "setTrig", "waitTrig", "execute", "done", "drain", "exited"}
    /\ mtx = IF graphPc \in {"loop", "trap", "interrupt", "setTrig", "execute", "done"} THEN "graph" ELSE "free"
    /\ cpuPc \in {"run", "clearTrig", "updateIo", "ring", "stopGraph", "stopTrig", "stopRing", "join", "joinFifo", "gone"}
    /\ fifoPc \in {"ready", "emplace", "ring", "left"}

\* The graph thread never sleeps over work it may do: if it waits with its flag
\* clear, somebody is about to set it (m_graph_has_work is set after the queue,
\* the access bit and the enable bit, and cleared before they are read).
NoLostWork ==
    (graphPc = "wait" /\ ~hasWork /\ queue # << >> /\ Granted) => fifoPc = "ring" \/ cpuPc \in {"ring", "stopTrig", "stopRing"}

\* A title that writes INTR only to acknowledge the switches it has made, and
\* leaves the engine enabled.
Steady == title \cap {"stray", "disables"} = {}

\* An object is bound only under the channel it was submitted for: "wait until
\* the title does the switch and clears the interrupt" (pgraph.cpp:821).
RightChannel == (graphPc = "execute" /\ elem \in Channels) => channel = elem

\* With a steady title that is so, also when deinit interrupts the wait.
SteadyRightChannel == Steady => RightChannel

\* While the graph thread waits for the title there is an interrupt that the
\* title can clear, or the title has just cleared it, as long as PMC_ENABLE does
\* not reset the engine meanwhile.
WaitHasCause ==
    ("disables" \notin title /\ graphPc = "waitTrig" /\ trig) => intStatus \/ cpuPc = "clearTrig"

\* A switch a steady title serves wakes the graph thread.
SwitchResumes == (Steady /\ graphPc = "waitTrig") ~> (graphPc # "waitTrig" \/ FifoStopped)

\* Stopping ends both threads, unless the graph thread waits for a title that
\* no longer runs; a fifo thread stuck in a full queue is let go.
StopsUnlessTrapped == (cpuPc = "stopGraph") ~> (cpuPc = "gone" \/ graphPc = "waitTrig")

(* What the comments of the code say and the model refutes (README, 5), like *)
(* RightChannel.                                                             *)

\* What the fifo thread waits for before it submits to another engine
\* (pfifo.cpp:417): once STATUS reads zero the engine has nothing left to do.
IdleMeansIdle == (fifoPc = "ready" /\ ~busy /\ Granted) => queue = << >> /\ graphPc \notin {"execute", "loop"}

\* deinit returns (pgraph.cpp:868).
DeinitReturns == (cpuPc = "stopGraph") ~> (cpuPc = "gone")
=============================================================================
