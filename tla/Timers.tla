-------------------------------- MODULE Timers --------------------------------
(***************************************************************************)
(* The devices with a timer, the title that programs them, and the loop of *)
(* the CPU that polls them (cpu.cpp): pit.cpp, cmos.cpp, ptimer.cpp,       *)
(* pcrtc.cpp and usb/ohci.cpp.                                             *)
(*                                                                         *)
(* The CPU runs the title up to a deadline, polls all devices and gets the *)
(* next one; a handler that starts a timer polls them, too.  A poll raises *)
(* what is due.  Of the PIT only channel 0 has a state that is looked at.  *)
(* The ratio and the frequency that make up the period of the GPU's alarm  *)
(* are one value, and its counter is not modelled; nor are INTR_0 and the  *)
(* line of the GPU, which are in PmcIrq.                                  *)
(***************************************************************************)
EXTENDS Naturals, FiniteSets, Cmos, Ohci

CONSTANTS
    Lows, Highs,  \* values of the two halves of the PIT's counter, in ticks
    AlarmPeriods, \* what counterToUs makes of the ratios and frequencies written
    Alarms,       \* values of ALARM_0, in ticks
    Vblank,       \* s_vblank_ntsc_period
    MaxTime,      \* bound on the time
    MaxLate,      \* how much longer than asked for lib86cpu may run the title
    Uses          \* what the title does: one of these sets of words

ASSUME TimersAssumption ==
    /\ Lows \subseteq Nat \ {0} /\ Highs \subseteq Nat /\ AlarmPeriods \subseteq Nat \ {0} /\ Alarms \subseteq Nat
    /\ AlarmPeriods # {} /\ \E top \in Alarms : \A a \in Alarms : a <= top
    /\ Vblank \in Nat \ {0} /\ MaxTime \in Nat /\ MaxLate \in Nat
    /\ \A u \in Uses : u \subseteq {"pit", "cmos", "periodic", "flags", "hours", "decimal", "alarm", "ratio", "vblank", "usb", "hub", "late"}

VARIABLES
    now,      \* timer::get_now()
    deadline, \* when cpu_run_until is to return
    dev,      \* the members of the devices
    raised,   \* events of each device since its rhythm began or ended (history)
    begun,    \* when that was, the seconds counted then, and the hour meant (history)
    trailing, \* the devices started without a poll, or late, which stay late; other
              \* words for what is out of step (history)
    doing     \* what the title does

tvars == <<now, deadline, dev, raised, begun, trailing, doing>>

Devices == {"pit", "cmos", "ptimer", "pcrtc", "usb"}

-----------------------------------------------------------------------------
(***************************************************************************)
(* The loop of the CPU                                                     *)
(***************************************************************************)

\* Variant: the next period begins when the interrupt is raised.
PitPollDrifts(p, t) == Answer(p.running, p, [p EXCEPT !.last = t], p.last + p.counter, p.counter, t)

\* getNextIrqTime of the PIT: its interrupt line is lowered and raised
PitPoll(p, t) == Answer(p.running, p, [p EXCEPT !.last = @ + p.counter], p.last + p.counter, p.counter, t)

\* getNextAlarmTime.  A bias may exceed the period: the next event is in the past then,
\* or does not come, if it is so early that 64 bits wrap.
PtimerNext(a) == IF a.last + a.period + a.later < a.sooner THEN Never ELSE a.last + a.period + a.later - a.sooner
PtimerPoll(a, t) ==
    Answer(a.enabled /\ a.active, a, [a EXCEPT !.last = PtimerNext(a), !.later = 0, !.sooner = 0],
           PtimerNext(a), a.period, t)

\* getNextVblankTime
PcrtcPoll(v, t) ==
    Answer(v.enabled, v, [v EXCEPT !.last = @ + Vblank], v.last + Vblank, Vblank, t)

Soonest(S) == CHOOSE t \in S : \A s \in S : t <= s

\* checkPeriodicEvents, of devices in the states given, and the new deadline
Poll(m, count) ==
    \E rp \in {PitPoll(m.pit, now)}, rc \in {CmosPoll(m.cmos, now)}, ra \in {PtimerPoll(m.ptimer, now)},
       rv \in {PcrtcPoll(m.pcrtc, now)}, ru \in {UsbPoll(m.usb, now)} :
        LET answer == [pit |-> rp, cmos |-> rc, ptimer |-> ra, pcrtc |-> rv, usb |-> ru]
            in == Soonest({answer[d].in : d \in Devices}) IN
        /\ dev' = [d \in Devices |-> answer[d].dev]
        /\ deadline' = IF in = Never THEN Never ELSE now + in
        /\ raised' = [d \in Devices |-> IF answer[d].event THEN count[d] + 1 ELSE count[d]]

\* the title runs
Run ==
    /\ now < MaxTime
    /\ now < deadline + IF "late" \in doing THEN MaxLate ELSE 0
    /\ now' = now + 1
    /\ UNCHANGED <<deadline, dev, raised, begun, trailing, doing>>

\* start: cpu_run_until has returned
Timeout == now >= deadline /\ Poll(dev, raised) /\ UNCHANGED <<now, begun, trailing, doing>>

-----------------------------------------------------------------------------
(***************************************************************************)
(* The title's writes                                                      *)
(***************************************************************************)

\* a write that does not poll; those that begin the rhythm of a device
Quietly(m) == dev' = m /\ UNCHANGED <<now, deadline, raised, doing>>
Restarted(d) == [raised EXCEPT ![d] = 0]
Begins(d) == begun' = [begun EXCEPT ![d] = now, !["seconds"] = IF d = "cmos" THEN dev.cmos.sys ELSE @]

\* COMMAND: the only access mode that is supported
PitCommand ==
    /\ "pit" \in doing
    /\ Quietly([dev EXCEPT !.pit.ready = TRUE])
    /\ UNCHANGED <<begun, trailing>>

\* the low half of a counter that runs is its whole period until the high half
\* is written
PitLow(low) ==
    /\ "pit" \in doing /\ dev.pit.ready /\ ~dev.pit.lsb
    /\ Quietly([dev EXCEPT !.pit.counter = low, !.pit.lsb = TRUE])
    /\ UNCHANGED <<begun, trailing>>

\* Variant: the CPU is not told.
StartTimerSilent(m) == dev' = m /\ raised' = Restarted("pit") /\ UNCHANGED deadline

\* startTimer, of channel 0
StartTimer(m) == Poll(m, Restarted("pit"))

PitHigh(high) ==
    /\ "pit" \in doing /\ dev.pit.lsb
    /\ StartTimer([dev EXCEPT !.pit.counter = @ + high, !.pit.lsb = FALSE, !.pit.running = TRUE, !.pit.last = now])
    /\ Begins("pit")
    /\ UNCHANGED <<now, trailing, doing>>

\* startTimer, of the other channels
PitOther == "pit" \in doing /\ Poll(dev, raised) /\ UNCHANGED <<now, begun, trailing, doing>>

\* write8 of registers A and B: update_timer.  A clock that ran on unseen behind the
\* periodic interrupt is late when that stops.
CmosControl(b, freq) ==
    \E c \in {UpdateTimer([dev.cmos EXCEPT !.b = b, !.freq = freq], now)} :
    /\ "cmos" \in doing /\ c # dev.cmos
    /\ b = dev.cmos.b \/ freq = dev.cmos.freq
    /\ ("PIE" \in b \/ freq # dev.cmos.freq) => "periodic" \in doing
    /\ b \cap {"AIE", "UIE"} # {} => "flags" \in doing
    /\ LET starts == (c.int /\ ~dev.cmos.int) \/ (c.clock /\ ~dev.cmos.clock /\ ~c.int) IN
       /\ IF starts THEN Begins("cmos") ELSE UNCHANGED begun
       /\ trailing' = IF starts THEN trailing \ {"cmos"} ELSE IF dev.cmos.int /\ ~c.int THEN trailing \cup {"cmos"} ELSE trailing
       /\ IF TimerChanged(dev.cmos, c)
          THEN Poll([dev EXCEPT !.cmos = c], IF starts THEN Restarted("cmos") ELSE raised) /\ UNCHANGED <<now, doing>>
          ELSE Quietly([dev EXCEPT !.cmos = c])

\* read of register C, write of the alarm
CmosOther ==
    /\ "flags" \in doing
    /\ \/ Quietly([dev EXCEPT !.cmos.flags = {}])
       \/ \E s \in AlarmSecs : Quietly([dev EXCEPT !.cmos.alarm = s])
    /\ UNCHANGED <<begun, trailing>>

\* writes of the hour, and of its format in register B.  A title writes hours in
\* either format of 24 hours or in the binary one of 12.
CmosHour ==
    /\ "hours" \in doing
    /\ \/ \E binary, h24 \in BOOLEAN : Quietly([dev EXCEPT !.cmos.binary = binary, !.cmos.h24 = h24]) /\ UNCHANGED begun
       \/ \E hour \in 0 .. 23 :
            /\ dev.cmos.h24 \/ dev.cmos.binary \/ "decimal" \in doing
            /\ Quietly([dev EXCEPT !.cmos.hour = HourWritten(dev.cmos, HourByte(dev.cmos, hour))])
            /\ begun' = [begun EXCEPT !["hour"] = hour]
    /\ UNCHANGED trailing

\* INTR_EN_0 of PTIMER
PtimerIntr(on) ==
    /\ "alarm" \in doing
    /\ Quietly([dev EXCEPT !.ptimer.enabled = on])
    /\ trailing' = IF on /\ ~dev.ptimer.enabled THEN trailing \cup {"ptimer"} ELSE trailing
    /\ UNCHANGED begun

\* an alarm that became overdue with the write, which nothing makes up for
OutOfStep(m) == {"alarm"} \cup IF PtimerNext(m.ptimer) < now THEN {"ptimer"} ELSE {}

\* NUMERATOR, or the core frequency (NVPLL_COEFF)
PtimerRatio(r) ==
    LET m == [dev EXCEPT !.ptimer.ratio = r, !.ptimer.period = IF dev.ptimer.active THEN r ELSE @] IN
    /\ "ratio" \in doing
    /\ IF dev.ptimer.active THEN Poll(m, Restarted("ptimer")) /\ UNCHANGED <<now, doing>> ELSE Quietly(m)
    /\ trailing' = trailing \cup OutOfStep(m)
    /\ UNCHANGED begun

\* DENOMINATOR: zero stops the counter
PtimerSwitch(on) ==
    LET a == dev.ptimer
        m == [dev EXCEPT !.ptimer = IF on THEN [a EXCEPT !.active = TRUE, !.period = a.ratio, !.last = now]
                                    ELSE [a EXCEPT !.active = FALSE]] IN
    /\ "alarm" \in doing
    /\ Poll(m, IF on THEN Restarted("ptimer") ELSE raised)
    /\ IF on THEN Begins("ptimer") ELSE UNCHANGED begun
    /\ trailing' = IF ~on THEN trailing ELSE IF a.later = a.sooner THEN trailing \ {"ptimer", "alarm"}
                   ELSE (trailing \ {"ptimer"}) \cup OutOfStep(m)
    /\ UNCHANGED <<now, doing>>

\* ALARM_0: the next period is longer or shorter
PtimerAlarm(alarm) ==
    LET later == IF alarm > dev.ptimer.alarm THEN alarm - dev.ptimer.alarm ELSE 0
        sooner == IF alarm < dev.ptimer.alarm THEN dev.ptimer.alarm - alarm ELSE 0
        m == [dev EXCEPT !.ptimer.alarm = alarm, !.ptimer.later = later, !.ptimer.sooner = sooner] IN
    /\ "ratio" \in doing
    /\ IF dev.ptimer.active THEN Poll(m, Restarted("ptimer")) /\ UNCHANGED <<now, doing>> ELSE Quietly(m)
    /\ trailing' = trailing \cup OutOfStep(m)
    /\ UNCHANGED begun

\* INTR_EN_0 of PCRTC
VblankStop ==
    /\ "vblank" \in doing /\ dev.pcrtc.enabled
    /\ Quietly([dev EXCEPT !.pcrtc.enabled = FALSE])
    /\ UNCHANGED <<begun, trailing>>

VblankStart ==
    /\ "vblank" \in doing /\ ~dev.pcrtc.enabled
    /\ dev' = [dev EXCEPT !.pcrtc.enabled = TRUE, !.pcrtc.last = now]
    /\ raised' = Restarted("pcrtc") /\ Begins("pcrtc")
    /\ trailing' = trailing \cup {"pcrtc"}
    /\ UNCHANGED <<now, deadline, doing>>

\* the alarm is the highest value of its register
PtimerInit ==
    [enabled |-> FALSE, active |-> TRUE, ratio |-> Soonest(AlarmPeriods), period |-> Soonest(AlarmPeriods),
     last |-> 0, alarm |-> CHOOSE top \in Alarms : \A a \in Alarms : a <= top, later |-> 0, sooner |-> 0]
PcrtcInit == [enabled |-> FALSE, last |-> 0]

\* PMC_ENABLE resets both: last_alarm_time stays
GpuReset ==
    /\ doing \cap {"alarm", "vblank"} # {}
    /\ Poll([dev EXCEPT !.ptimer = [PtimerInit EXCEPT !.last = dev.ptimer.last], !.pcrtc = [PcrtcInit EXCEPT !.last = dev.pcrtc.last]],
            raised)
    /\ trailing' = trailing \cup {"alarm"}
    /\ UNCHANGED <<now, begun, doing>>

\* write of CTRL: a state
UsbControl(state) ==
    LET starts == state = "operational" /\ dev.usb.state # state
        resets == state = "reset" /\ dev.usb.state # state IN
    /\ "usb" \in doing
    /\ dev' = [dev EXCEPT !.usb = UpdateState(dev.usb, state, now)]
    /\ IF starts THEN raised' = Restarted("usb") /\ Begins("usb") ELSE UNCHANGED <<raised, begun>>
    /\ trailing' = IF starts THEN (trailing \ {"line"}) \cup {"usb"} ELSE IF resets THEN trailing \cup {"line"} ELSE trailing
    /\ UNCHANGED <<now, deadline, doing>>

\* write of CMD_ST
UsbSoftReset ==
    /\ "usb" \in doing
    /\ Quietly([dev EXCEPT !.usb = SwReset(dev.usb)])
    /\ trailing' = trailing \cup {"line"}
    /\ UNCHANGED begun

\* writes of INT_ST, INT_EN and INT_DIS
UsbInterrupts ==
    /\ "usb" \in doing
    /\ \E causes \in SUBSET Causes, mie \in BOOLEAN :
            \/ Quietly([dev EXCEPT !.usb = AckInt(dev.usb, causes)])
            \/ Quietly([dev EXCEPT !.usb = EnableInt(dev.usb, causes, mie)])
            \/ Quietly([dev EXCEPT !.usb = DisableInt(dev.usb, causes, mie)])
    /\ trailing' = trailing \ {"line"}
    /\ UNCHANGED begun

\* writes of RH_DESCRIPTOR_A, RH_DESCRIPTOR_B and RH_ST
UsbHub ==
    /\ "hub" \in doing
    /\ \/ \E mode \in {"none", "global", "port"}, masked \in SUBSET Ports :
            Quietly([dev EXCEPT !.usb.mode = mode, !.usb.masked = masked])
       \/ \E off, on \in BOOLEAN : Quietly([dev EXCEPT !.usb = RootHub(dev.usb, off, on)])
    /\ UNCHANGED <<begun, trailing>>

\* the first poll was made
TimersInit ==
    /\ now = 0 /\ deadline = Second
    /\ dev = [pit |-> [ready |-> FALSE, lsb |-> FALSE, running |-> FALSE, counter |-> 0, last |-> 0],
              cmos |-> CmosInit, ptimer |-> PtimerInit, pcrtc |-> PcrtcInit, usb |-> UsbInit]
    /\ raised = [d \in Devices |-> 0] /\ begun = [d \in Devices \cup {"seconds", "hour"} |-> 0]
    /\ trailing = {}

TimersNext ==
    \/ Run \/ Timeout
    \/ PitCommand \/ (\E low \in Lows : PitLow(low)) \/ (\E high \in Highs : PitHigh(high)) \/ PitOther
    \/ (\E b \in SUBSET BFlags, freq \in Freqs \cup {0} : CmosControl(b, freq)) \/ CmosOther \/ CmosHour
    \/ (\E on \in BOOLEAN : PtimerIntr(on)) \/ (\E r \in AlarmPeriods : PtimerRatio(r)) \/ (\E on \in BOOLEAN : PtimerSwitch(on))
    \/ (\E alarm \in Alarms : PtimerAlarm(alarm)) \/ VblankStop \/ VblankStart \/ GpuReset
    \/ (\E state \in UsbStates : UsbControl(state)) \/ UsbSoftReset \/ UsbInterrupts \/ UsbHub

-----------------------------------------------------------------------------
TimersTyped ==
    /\ now \in 0 .. MaxTime /\ deadline \in Nat /\ doing \in Uses
    /\ dev.pit \in [ready : BOOLEAN, lsb : BOOLEAN, running : BOOLEAN, counter : Nat, last : Nat]
    /\ dev.cmos \in CmosSet /\ dev.usb \in UsbSet
    /\ dev.ptimer \in [enabled : BOOLEAN, active : BOOLEAN, ratio : AlarmPeriods, period : AlarmPeriods,
                       last : Nat, alarm : Alarms, later : Nat, sooner : Nat]
    /\ dev.pcrtc \in [enabled : BOOLEAN, last : Nat]
    /\ DOMAIN dev = Devices /\ raised \in [Devices -> Nat] /\ begun \in [Devices \cup {"seconds", "hour"} -> Nat]
    /\ trailing \subseteq Devices \cup {"line", "alarm"}

Running(d) ==
    CASE d = "pit" -> dev.pit.running /\ ~dev.pit.lsb
      [] d = "cmos" -> CmosRunning(dev.cmos)
      [] d = "ptimer" -> dev.ptimer.enabled /\ dev.ptimer.active
      [] d = "pcrtc" -> dev.pcrtc.enabled
      [] d = "usb" -> dev.usb.running

Due(d) ==
    CASE d = "pit" -> dev.pit.last + dev.pit.counter
      [] d = "cmos" -> CmosDue(dev.cmos)
      [] d = "ptimer" -> PtimerNext(dev.ptimer)
      [] d = "pcrtc" -> dev.pcrtc.last + Vblank
      [] d = "usb" -> dev.usb.sof + Frame

PeriodOf(d) ==
    CASE d = "pit" -> dev.pit.counter [] d = "cmos" -> CmosPeriod(dev.cmos) [] d = "ptimer" -> dev.ptimer.period
      [] d = "pcrtc" -> Vblank [] d = "usb" -> Frame

\* The CPU never runs past the next event of a device (cpu_set_timeout): a title
\* that is not interrupted late sees every interrupt at its time, whatever it
\* starts and stops.  What is started without a poll refutes it for the device, and
\* stays late by as much as its first poll was (README, section 5).
DeadlineCovers ==
    "late" \notin doing => \A d \in Devices \ trailing : Running(d) => deadline <= Due(d)

\* However late the polls are, no period is skipped, counted twice or stretched:
\* the next event stays a whole number of periods behind the start, and no event
\* is raised before its time.  Late polls refute it for the periodic interrupt of
\* the CMOS: when they add up to a second, it comes once more.
Steady(d) ==
    /\ d = "cmos" => "cmos" \notin trailing /\ ~(dev.cmos.int /\ "late" \in doing)
    /\ d = "ptimer" => "alarm" \notin trailing
Rhythm ==
    \A d \in Devices : Running(d) /\ Steady(d) =>
        /\ Due(d) = begun[d] + (raised[d] + 1) * PeriodOf(d)
        /\ raised[d] * PeriodOf(d) <= now - begun[d]

\* The seconds of the real time clock are those that have passed since it was
\* started; late polls may only put it ahead.  Periodic interrupts refute it.
ClockKeepsTime ==
    dev.cmos.clock /\ "periodic" \notin doing =>
        LET counted == dev.cmos.sys - begun["seconds"]
            passed == now - begun["cmos"] IN
        /\ counted >= raised["cmos"]
        /\ "late" \notin doing => counted = passed \div Second \/ (counted + 1) * Second = passed

\* The hour the title wrote is the hour it reads, also in another format.  The hours
\* before noon of the 12 hour format refute it, and writes in its decimal one.
HourReadsBack ==
    "decimal" \notin doing /\ (dev.cmos.h24 \/ begun["hour"] \notin 1 .. 11) =>
        HourRegister(dev.cmos) = HourByte(dev.cmos, begun["hour"])

\* All three: the rhythm of the devices, the clock's seconds and its hour.
TimeIsKept == Rhythm /\ ClockKeepsTime /\ HourReadsBack

\* The interrupt line of USB is high exactly while an enabled interrupt is pending.
\* A reset of the controller refutes it until the next write to a register of
\* interrupts.
UsbLineFollows ==
    "line" \notin trailing => dev.usb.line = (dev.usb.mie /\ dev.usb.st \cap dev.usb.en # {})

\* What the comment of getNextUpdateTime says, "every Nth periodic interrupt, there
\* will be a clock update": with the interrupt on, the clock does not fall more
\* than a second behind.  Refuted.
PeriodicKeepsTime ==
    "late" \notin doing /\ dev.cmos.int => now - dev.cmos.lastClock <= 2 * Second
=============================================================================
