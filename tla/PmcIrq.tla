------------------------------- MODULE PmcIrq -------------------------------
(* The interrupt of the GPU (pmc.cpp): updateIrq() gathers the interrupts of *)
(* the engines into INTR_0 and drives the line of the interrupt controller.  *)
(* It takes no lock and is called by the CPU thread, after every write to an *)
(* interrupt register and by the vertical blank and the alarm, by the fifo   *)
(* thread and by the graph thread, after they have raised an interrupt of    *)
(* their engine.  A step is one access to a register or to the line.         *)
EXTENDS Naturals, Sequences, FiniteSets

CONSTANTS Order,        \* the engines, in the order updateIrq reads them
          Raisers,      \* engine -> the thread that raises its interrupts
          Periodic,     \* the engines whose interrupt comes with time
          Writes        \* the kinds of registers the title writes

Engines == {Order[i] : i \in 1 .. Len(Order)}
Threads == {Raisers[e] : e \in Engines} \cup {"cpu"}

ASSUME PmcAssumption == /\ Order \in Seq(STRING) /\ Order # << >>
                        /\ Raisers \in [Engines -> STRING]
                        /\ \A e \in Periodic : Raisers[e] = "cpu"

VARIABLES intr,         \* INTR_0 of each engine: anything pending?
          enabled,      \* INTR_EN_0 of each engine: anything enabled?
          status,       \* NV_PMC_INTR_0
          mode,         \* NV_PMC_INTR_EN_0
          line,         \* the line NV2A_IRQ_NUM
          pc, pos,      \* where each thread is in updateIrq
          seen,         \* what it has read
          saved,        \* what a write to INTR_0 is going to store
          draws         \* does the title use engines with a thread of their own?

engines == <<intr, enabled>>
threads == <<pc, pos, seen, saved>>
pmcVars == <<engines, status, mode, line, threads, draws>>

PmcInit ==
    /\ draws \in BOOLEAN
    /\ intr = [e \in Engines |-> FALSE] /\ enabled = [e \in Engines |-> FALSE]
    /\ status = {} /\ mode = "disabled" /\ line = FALSE
    /\ pc = [t \in Threads |-> "out"] /\ pos = [t \in Threads |-> 1] /\ seen = [t \in Threads |-> FALSE]
    /\ saved = {}

Goto(t, l) == pc' = [pc EXCEPT ![t] = l]

\* Variant: misses the first engine.
CallUpdateIrqSecond(t) == Goto(t, "intr") /\ pos' = [pos EXCEPT ![t] = 2]
CallUpdateIrq(t) == Goto(t, "intr") /\ pos' = [pos EXCEPT ![t] = 1]

-----------------------------------------------------------------------------
(* updateIrq *)

ReadIntr(t) ==
    /\ pc[t] = "intr"
    /\ seen' = [seen EXCEPT ![t] = intr[Order[pos[t]]]]
    /\ Goto(t, "enabled")
    /\ UNCHANGED <<draws, engines, status, mode, line, pos, saved>>

ReadEnabled(t) ==
    /\ pc[t] = "enabled"
    /\ seen' = [seen EXCEPT ![t] = @ /\ enabled[Order[pos[t]]]]
    /\ Goto(t, "bit")
    /\ UNCHANGED <<draws, engines, status, mode, line, pos, saved>>

Gather(t) == status' = IF seen[t] THEN status \cup {Order[pos[t]]} ELSE status \ {Order[pos[t]]}

More(t) == pos[t] < Len(Order)

SetBit(t) ==
    /\ pc[t] = "bit"
    /\ Gather(t)
    /\ \/ /\ More(t)
          /\ pos' = [pos EXCEPT ![t] = @ + 1]
          /\ Goto(t, "intr")
       \/ /\ ~More(t)
          /\ Goto(t, "mode")
          /\ UNCHANGED pos
    /\ UNCHANGED <<draws, engines, mode, line, seen, saved>>

\* Which bits of INTR_0 count.
Counting(m) == CASE m = "hardware" -> Engines [] m = "software" -> {"software"} [] OTHER -> {}

\* Reads INTR_EN_0; with interrupts disabled INTR_0 does not matter.
ReadMode(t) ==
    /\ pc[t] = "mode"
    /\ Goto(t, IF mode \in {"hardware", "software"} THEN mode ELSE "drive")
    /\ seen' = [seen EXCEPT ![t] = FALSE]
    /\ UNCHANGED <<draws, engines, status, mode, line, pos, saved>>

ReadStatus(t) ==
    /\ pc[t] \in {"hardware", "software"}
    /\ seen' = [seen EXCEPT ![t] = status \cap Counting(pc[t]) # {}]
    /\ Goto(t, "drive")
    /\ UNCHANGED <<draws, engines, status, mode, line, pos, saved>>

DriveLine(t) ==
    /\ pc[t] = "drive"
    /\ line' = seen[t]
    /\ Goto(t, "out")
    /\ UNCHANGED <<draws, engines, status, mode, pos, seen, saved>>

UpdateIrq(t) == \/ ReadIntr(t) \/ ReadEnabled(t) \/ SetBit(t) \/ ReadMode(t) \/ ReadStatus(t) \/ DriveLine(t)

-----------------------------------------------------------------------------
(* The callers *)

\* An interrupt of an engine: of the vertical blank and the alarm only while it
\* is enabled.
Raise(e) ==
    /\ pc[Raisers[e]] = "out"
    /\ e \in Periodic => enabled[e]
    /\ Raisers[e] = "cpu" \/ draws
    /\ intr' = [intr EXCEPT ![e] = TRUE]
    /\ CallUpdateIrq(Raisers[e])
    /\ UNCHANGED <<draws, enabled, status, mode, line, seen, saved>>

\* The title acknowledges the interrupts of an engine.
WriteEngineIntr(e) ==
    /\ pc["cpu"] = "out" /\ "ack" \in Writes
    /\ intr' = [intr EXCEPT ![e] = FALSE]
    /\ CallUpdateIrq("cpu")
    /\ UNCHANGED <<draws, enabled, status, mode, line, seen, saved>>

WriteIntrEn(e, b) ==
    /\ pc["cpu"] = "out" /\ "enable" \in Writes
    /\ enabled' = [enabled EXCEPT ![e] = b]
    /\ CallUpdateIrq("cpu")
    /\ UNCHANGED <<draws, intr, status, mode, line, seen, saved>>

\* INTR_0: the software bit changes, the others are read and written back.
ReadSoftware(bit) ==
    /\ pc["cpu"] = "out" /\ "software" \in Writes
    /\ saved' = (status \ {"software"}) \cup bit
    /\ Goto("cpu", "store")
    /\ UNCHANGED <<draws, engines, status, mode, line, pos, seen>>

WriteSoftware ==
    /\ pc["cpu"] = "store"
    /\ status' = saved /\ saved' = {}
    /\ CallUpdateIrq("cpu")
    /\ UNCHANGED <<draws, engines, mode, line, seen>>

WriteMode(m) ==
    /\ pc["cpu"] = "out" /\ "mode" \in Writes
    /\ mode' = m
    /\ CallUpdateIrq("cpu")
    /\ UNCHANGED <<draws, engines, status, line, seen, saved>>

\* A write to PMC_ENABLE resets the engines it disables.
WritePmcEnable(off) ==
    /\ pc["cpu"] = "out" /\ "engines" \in Writes
    /\ off # {}
    /\ intr' = [e \in Engines |-> intr[e] /\ e \notin off]
    /\ enabled' = [e \in Engines |-> enabled[e] /\ e \notin off]
    /\ CallUpdateIrq("cpu")
    /\ UNCHANGED <<draws, status, mode, line, seen, saved>>

TitleStep ==
    \/ \E e \in Engines : WriteEngineIntr(e) \/ \E b \in BOOLEAN : WriteIntrEn(e, b)
    \/ \E bit \in SUBSET {"software"} : ReadSoftware(bit)
    \/ WriteSoftware
    \/ \E m \in {"disabled", "hardware", "software"} : WriteMode(m)
    \/ \E off \in SUBSET Engines : WritePmcEnable(off)

PmcNext == \/ \E t \in Threads : UpdateIrq(t)
           \/ \E e \in Engines : Raise(e)
           \/ TitleStep

PmcSpec == PmcInit /\ [][PmcNext]_pmcVars

\* The threads go on, and so does time: cpu.cpp runs the periodic events between
\* two blocks of guest code, however many registers the guest writes.
FairPmcSpec == /\ PmcSpec
               /\ \A t \in Threads : WF_pmcVars(UpdateIrq(t))
               /\ WF_pmcVars(WriteSoftware)
               /\ \A e \in Periodic : SF_pmcVars(Raise(e))

-----------------------------------------------------------------------------
(* Properties *)

\* Types of the registers of pmc.cpp, and of the threads in updateIrq.
PmcTypeOK ==
    /\ intr \in [Engines -> BOOLEAN] /\ enabled \in [Engines -> BOOLEAN]
    /\ status \subseteq Engines \cup {"software"} /\ saved \subseteq Engines \cup {"software"}
    /\ mode \in {"disabled", "hardware", "software"} /\ line \in BOOLEAN
    /\ pc \in [Threads -> {"out", "intr", "enabled", "bit", "mode", "hardware", "software", "drive", "store"}]
    /\ pos \in [Threads -> 1 .. Len(Order)] /\ seen \in [Threads -> BOOLEAN]

Pending(e) == intr[e] /\ enabled[e]
Quiet == \A t \in Threads : pc[t] = "out"

\* Whenever no thread is at work, INTR_0 shows the engines with a pending and
\* enabled interrupt, and the line is up exactly when INTR_EN_0 asks for it: so
\* as long as all interrupts come from the CPU thread.
LineFollows ==
    Quiet /\ ~draws =>
        /\ status \cap Engines = {e \in Engines : Pending(e)}
        /\ line = (status \cap Counting(mode) # {})

\* INTR_0 and the line hold what their types allow, and what the engines say.
RegistersFollow == PmcTypeOK /\ LineFollows

\* "Check for pending PFIFO interrupts": an enabled interrupt of an engine does
\* not stay unseen when all threads have left updateIrq.
InterruptNotLost == Quiet /\ mode = "hardware" /\ (\E e \in Engines : Pending(e)) => line

\* An interrupt that an updateIrq of another thread has wiped out of INTR_0 is
\* found again, provided an interrupt that comes with time stays enabled.
LostIsFound ==
    \A e \in Engines, p \in Periodic :
        <>[](Pending(e) /\ enabled[p] /\ mode = "hardware") => <>[](e \in status /\ line)

=============================================================================
