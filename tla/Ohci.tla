--------------------------------- MODULE Ohci ---------------------------------
(***************************************************************************)
(* The USB host controller (usb/ohci.cpp) as functions of a record: its    *)
(* state, the frame timer, the interrupt line and the power of the ports.  *)
(* Lists of descriptors are registers that are only kept, and left out.    *)
(***************************************************************************)
EXTENDS Naturals, Periodic

CONSTANTS
    Frame,  \* g_ticks_per_millisecond
    Ports,  \* ports of the root hub
    Causes  \* bits of INTERRUPT_STATUS

ASSUME OhciAssumption == Frame \in Nat \ {0} /\ "SF" \in Causes /\ 0 \in Ports

UsbStates == {"reset", "resume", "operational", "suspend"}

\* masked: the bits RHDB_PPCM that are set
UsbSet == [state : UsbStates, running : BOOLEAN, sof : Nat, st : SUBSET Causes, en : SUBSET Causes, mie : BOOLEAN,
           line : BOOLEAN, mode : {"none", "global", "port"}, masked : SUBSET Ports, powered : SUBSET Ports]

UsbInit == [state |-> "reset", running |-> FALSE, sof |-> 0, st |-> {}, en |-> {}, mie |-> FALSE, line |-> FALSE,
            mode |-> "none", masked |-> {}, powered |-> {}]

\* update_int
UpdateInt(u) == [u EXCEPT !.line = u.mie /\ u.st \cap u.en # {}]

\* sw_reset: the registers up to RH_DESCRIPTOR_A
SwReset(u) == [u EXCEPT !.state = "suspend", !.running = FALSE, !.st = {}, !.en = {}, !.mie = FALSE]

\* hw_reset: all the registers, but not the ports, nor the interrupt line
HwReset(u) == [SwReset(u) EXCEPT !.state = "reset", !.mode = "none", !.masked = {}]

\* update_state
UpdateState(u, state, t) ==
    IF state = u.state THEN u
    ELSE IF state = "reset" THEN HwReset(u)
    ELSE IF state = "operational"
    THEN UpdateInt([u EXCEPT !.state = state, !.sof = t, !.running = TRUE, !.st = @ \cup {"SF"}])
    ELSE [u EXCEPT !.state = state, !.running = FALSE]

\* Variant: the line stays as it was.
DisableIntQuietly(u, causes, mie) == [u EXCEPT !.en = @ \ causes, !.mie = @ /\ ~mie]

\* write of INT_ST, INT_EN and INT_DIS
AckInt(u, causes) == UpdateInt([u EXCEPT !.st = @ \ causes])
EnableInt(u, causes, mie) == UpdateInt([u EXCEPT !.en = @ \cup causes, !.mie = @ \/ mie])
DisableInt(u, causes, mie) == UpdateInt([u EXCEPT !.en = @ \ causes, !.mie = @ /\ ~mie])

\* write of RH_ST: idx is never assigned, every port looks at the mask of port 0
Switched(u) == IF u.mode = "global" THEN Ports ELSE IF u.mode = "port" /\ 0 \notin u.masked THEN Ports ELSE {}
RootHub(u, off, on) ==
    LET cleared == IF off THEN u.powered \ Switched(u) ELSE u.powered IN
    [u EXCEPT !.powered = IF on THEN cleared \cup Switched(u) ELSE cleared]

\* getNextUpdateTime
UsbPoll(u, t) == Answer(u.running, u, [u EXCEPT !.sof = @ + Frame], u.sof + Frame, Frame, t)
=============================================================================
