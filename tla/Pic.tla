-------------------------------- MODULE Pic ---------------------------------
(***************************************************************************)
(* The two cascaded 8259 interrupt controllers (pic.cpp) between the       *)
(* devices that raise and lower request lines, the guest that programs     *)
(* the controllers, and the CPU that acknowledges an interrupt while its   *)
(* interrupt line is high.  One mutex serialises all of it, so an access   *)
(* is one step; what can go wrong is the order of the accesses.            *)
(*                                                                         *)
(* Registers are sets of lines.  The vectors (ICW2) are data and left out: *)
(* an acknowledge is told apart by the lines it puts in service, or none   *)
(* when it is spurious.  Writes that the code answers with nxbx_fatal are  *)
(* not made.                                                               *)
(***************************************************************************)
EXTENDS Naturals

CONSTANTS
    Width,        \* lines of one controller (8 in the code)
    DeviceLines,  \* the lines of each controller that have a device
    ReadSelects,  \* which of OCW3's register selections the guest makes
    Guests        \* what else a guest may write, one record for each kind of guest:
                  \*   masks    interrupt masks it writes to each controller
                  \*   levels   ELCR values it writes to each controller
                  \*   rotated  controllers on which it uses the OCW2 commands that change priorities

Lines == 0 .. Width - 1
Cascade == 2
Chips == {"master", "slave"}

ASSUME WidthAssumption == Width \in Nat /\ Width > Cascade
ASSUME LinesAssumption ==
    DeviceLines \in [Chips -> SUBSET Lines] /\ Cascade \notin DeviceLines["master"]
ASSUME CommandsAssumption == ReadSelects \subseteq BOOLEAN
ASSUME GuestsAssumption ==
    Guests \subseteq [masks : [Chips -> SUBSET SUBSET Lines],
                      levels : [Chips -> SUBSET SUBSET (Lines \ {Cascade})],
                      rotated : SUBSET Chips]

VARIABLES
    guest,   \* the kind of guest that runs
    pic,     \* the registers of the two controllers
    intLine, \* the interrupt line of the CPU
    stale    \* controllers whose updateState may not have seen what is pending (history)

vars == <<guest, pic, intLine, stale>>

Chip == [irr : SUBSET Lines, isr : SUBSET Lines, imr : SUBSET Lines, elcr : SUBSET Lines,
         pin : SUBSET Lines, base : Lines, send : Lines,
         readIsr : BOOLEAN, inInit : BOOLEAN, icw : {0, 2, 3, 4, 5}]

Other(c) == IF c = "master" THEN "slave" ELSE "master"

\* distance from the highest priority, which is the line after priority_base
Rank(p, i) == IF i > p.base THEN i - p.base - 1 ELSE i + Width - p.base - 1

\* Variant: what is in service is not looked at.
DeliverableAlways(p) == p.irr \ p.imr

\* requests that are not masked and not blocked by one in service
Deliverable(p) == {i \in p.irr \ p.imr : \A j \in p.isr : Rank(p, i) < Rank(p, j)}

Highest(p, lines) == CHOOSE i \in lines : \A j \in lines : Rank(p, i) <= Rank(p, j)

\* Variant: the mask is applied to the question whether there is anything to
\* send, and forgotten when the line is picked.
UpdatedUnmasked(p) == IF Deliverable(p) = {} THEN p ELSE [p EXCEPT !.send = Highest(p, p.irr)]

\* updateState, the part of one controller: highest_priority_irq_to_send
Updated(p) == IF Deliverable(p) = {} THEN p ELSE [p EXCEPT !.send = Highest(p, Deliverable(p))]

\* an edge counts when the pin was low, a level always
Latches(p, i) == i \in p.elcr \/ i \notin p.pin
Raised(p, i) == [p EXCEPT !.pin = @ \cup {i}, !.irr = @ \cup {i}]

Lowered(p, i) == [p EXCEPT !.pin = @ \ {i}, !.irr = @ \ {i}]

\* the slave announces itself with an edge on the cascade line
Announced(m) == Raised(Lowered(m, Cascade), Cascade)

\* controller c gets the registers p and runs updateState
Settle(c, p) ==
    \/ /\ c = "master"
       /\ pic' = [pic EXCEPT !["master"] = Updated(p)]
       /\ intLine' = (intLine \/ Deliverable(p) # {})
       /\ stale' = [stale EXCEPT !["master"] = FALSE]
    \/ /\ c = "slave" /\ Deliverable(p) = {}
       /\ pic' = [pic EXCEPT !["slave"] = p]
       /\ stale' = [stale EXCEPT !["slave"] = FALSE]
       /\ UNCHANGED intLine
    \/ /\ c = "slave" /\ Deliverable(p) # {}
       /\ LET m == Announced(pic["master"]) IN
          /\ pic' = [x \in Chips |-> IF x = "master" THEN Updated(m) ELSE Updated(p)]
          /\ intLine' = (intLine \/ Deliverable(m) # {})
       /\ stale' = [x \in Chips |-> FALSE]

-----------------------------------------------------------------------------
(***************************************************************************)
(* Devices                                                                 *)
(***************************************************************************)

\* raiseIrq; an edge on a line that is already high changes nothing
RaiseIrq(c, i) ==
    /\ Latches(pic[c], i)
    /\ Settle(c, Raised(pic[c], i))

\* lowerIrq; the last request of the slave takes the cascade line with it
LowerIrq(c, i) ==
    LET p == Lowered(pic[c], i) IN
    /\ pic' = IF c = "slave" /\ p.irr = {}
              THEN [x \in Chips |-> IF x = "slave" THEN p ELSE Lowered(pic["master"], Cascade)]
              ELSE [pic EXCEPT ![c] = p]
    /\ UNCHANGED <<intLine, stale>>

-----------------------------------------------------------------------------
(***************************************************************************)
(* The CPU                                                                 *)
(***************************************************************************)

\* getInterrupt when the request is still there
Served(p) == [p EXCEPT !.isr = @ \cup {p.send},
                       !.irr = IF p.send \in p.elcr THEN @ ELSE @ \ {p.send}]

Genuine(p) == p.send \in p.irr

\* getInterruptForCpu: the line goes low, a request goes in service
Acknowledge ==
    LET m == pic["master"]
        s == pic["slave"] IN
    /\ intLine /\ intLine' = FALSE
    /\ \/ /\ ~Genuine(m)
          /\ stale' = [stale EXCEPT !["master"] = TRUE]
          /\ UNCHANGED pic
       \/ /\ Genuine(m) /\ m.send # Cascade
          /\ pic' = [pic EXCEPT !["master"] = Served(m)]
          /\ UNCHANGED stale
       \/ /\ Genuine(m) /\ m.send = Cascade /\ Genuine(s)
          /\ pic' = [x \in Chips |-> Served(pic[x])]
          /\ UNCHANGED stale
       \/ /\ Genuine(m) /\ m.send = Cascade /\ ~Genuine(s)
          /\ pic' = [pic EXCEPT !["master"] = Served(m)]
          /\ stale' = [stale EXCEPT !["slave"] = TRUE]

-----------------------------------------------------------------------------
(***************************************************************************)
(* The guest                                                               *)
(***************************************************************************)

\* OCW1
WriteMask(c, mask) ==
    /\ ~pic[c].inInit
    /\ Settle(c, [pic[c] EXCEPT !.imr = mask])

\* Variant: the line is cleared without a new look at what is pending.
SpecificEoiQuiet(c, i, rotate) ==
    /\ pic' = [pic EXCEPT ![c].isr = @ \ {i}, ![c].base = IF rotate THEN i ELSE @]
    /\ UNCHANGED <<intLine, stale>>

\* OCW2 with EOI and a line
SpecificEoi(c, i, rotate) ==
    Settle(c, [pic[c] EXCEPT !.isr = @ \ {i}, !.base = IF rotate THEN i ELSE @])

\* OCW2 with EOI and no line: the highest priority one in service ends; the
\* rotation takes the line from the command all the same
NonSpecificEoi(c, i, rotate) ==
    LET p == pic[c] IN
    Settle(c, [p EXCEPT !.isr = IF @ = {} THEN @ ELSE @ \ {Highest(p, @)},
                        !.base = IF rotate THEN i ELSE @])

\* OCW2 "set priority": updateState does not run
SetPriority(c, i) ==
    /\ pic' = [pic EXCEPT ![c].base = i]
    /\ stale' = [stale EXCEPT ![c] = TRUE]
    /\ UNCHANGED intLine

\* OCW3
SelectRegister(c, isr) ==
    /\ pic' = [pic EXCEPT ![c].readIsr = isr]
    /\ UNCHANGED <<intLine, stale>>

\* ICW1: the CPU line goes low whichever controller is initialised
StartInit(c) ==
    /\ pic' = [pic EXCEPT ![c] = [@ EXCEPT !.irr = {}, !.isr = {}, !.imr = {}, !.base = Width - 1,
                                           !.inInit = TRUE, !.icw = 2]]
    /\ intLine' = FALSE
    /\ stale' = [stale EXCEPT ![Other(c)] = TRUE]

\* ICW2, ICW3, ICW4
ContinueInit(c) ==
    /\ pic[c].inInit
    /\ pic' = [pic EXCEPT ![c] = [pic[c] EXCEPT !.icw = @ + 1, !.inInit = pic[c].icw # 4]]
    /\ UNCHANGED <<intLine, stale>>

WriteElcr(c, lines) ==
    /\ pic' = [pic EXCEPT ![c].elcr = lines]
    /\ UNCHANGED <<intLine, stale>>

Rotations(c) == IF c \in guest.rotated THEN BOOLEAN ELSE {FALSE}

Guest(c) ==
    \/ \E mask \in guest.masks[c] : WriteMask(c, mask)
    \/ \E i \in Lines, rotate \in Rotations(c) : SpecificEoi(c, i, rotate) \/ NonSpecificEoi(c, i, rotate)
    \/ c \in guest.rotated /\ \E i \in Lines : SetPriority(c, i)
    \/ \E isr \in ReadSelects : SelectRegister(c, isr)
    \/ StartInit(c) \/ ContinueInit(c)
    \/ \E lines \in guest.levels[c] : WriteElcr(c, lines)

Device(c) == \E i \in DeviceLines[c] : RaiseIrq(c, i) \/ LowerIrq(c, i)

ResetChip == [irr |-> {}, isr |-> {}, imr |-> Lines, elcr |-> {}, pin |-> {}, base |-> 0, send |-> 0,
              readIsr |-> FALSE, inInit |-> FALSE, icw |-> 0]

Init ==
    /\ guest \in Guests
    /\ pic = [c \in Chips |-> ResetChip]
    /\ intLine = FALSE
    /\ stale = [c \in Chips |-> FALSE]

Next ==
    /\ Acknowledge \/ \E c \in Chips : Device(c) \/ Guest(c)
    /\ UNCHANGED guest
Spec == Init /\ [][Next]_vars

-----------------------------------------------------------------------------
(***************************************************************************)
(* Properties                                                              *)
(***************************************************************************)

\* The registers hold lines, and the initialisation words come in order.
TypeOK ==
    /\ pic \in [Chips -> Chip]
    /\ \A c \in Chips : pic[c].inInit => pic[c].icw \in {2, 3, 4}
    /\ intLine \in BOOLEAN
    /\ stale \in [Chips -> BOOLEAN]

\* A request is only pending while its device asserts the line, however often
\* the guest masks, acknowledges, initialises or changes the trigger mode.
PendingIsAsserted == \A c \in Chips : pic[c].irr \subseteq pic[c].pin

\* No deliverable request is forgotten: while the master has one, the CPU line
\* is high, and while the slave has one, the master knows of it.  The only
\* ways to lose one are the steps that set stale: a spurious acknowledge, initialising
\* the other controller, and changing the priorities without an EOI.
NothingForgotten ==
    /\ Deliverable(pic["master"]) # {} => intLine \/ stale["master"]
    /\ Deliverable(pic["slave"]) # {} => Cascade \in pic["master"].irr \/ stale["slave"]

\* The line that the next acknowledge takes is the one with the highest
\* priority among those that could be delivered, unless it was withdrawn.
SendsHighest ==
    \A c \in Chips :
        LET p == pic[c] IN
        Deliverable(p) # {} /\ Genuine(p) /\ ~stale[c]
            => p.send \in Deliverable(p) /\ \A j \in Deliverable(p) : Rank(p, p.send) <= Rank(p, j)

\* An acknowledge puts a line in service only above those in service already,
\* on a controller whose priorities the guest leaves alone.
AckNests ==
    [][\A c \in Chips \ guest.rotated : \A i \in pic'[c].isr \ pic[c].isr :
           \A j \in pic[c].isr : Rank(pic[c], i) < Rank(pic[c], j)]_vars
=============================================================================
