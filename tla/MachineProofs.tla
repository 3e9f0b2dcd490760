----------------------------- MODULE MachineProofs -----------------------------
(***************************************************************************)
(* Proofs about the devices a title programs, for any values of their      *)
(* constants and any titles that keep to the rules of each module.         *)
(***************************************************************************)
EXTENDS MCMachine, SequenceTheorems, FiniteSetTheorems, WellFoundedInduction, TLAPS

-----------------------------------------------------------------------------
(***************************************************************************)
(* The timers: types                                                       *)
(***************************************************************************)

PitSet == [ready : BOOLEAN, lsb : BOOLEAN, running : BOOLEAN, counter : Nat, last : Nat]
PtimerSet == [enabled : BOOLEAN, active : BOOLEAN, ratio : AlarmPeriods, period : AlarmPeriods,
              last : Nat, alarm : Alarms, later : Nat, sooner : Nat]
PcrtcSet == [enabled : BOOLEAN, last : Nat]

\* the period of an interrupt that is on is not zero, it takes several of them to
\* count a second, and no tick is in the future
CmosOK(c, t) == c \in CmosSet /\ (c.int => c.period > 0 /\ c.max > 1) /\ c.lastInt <= t /\ c.lastClock <= t

\* the members of the devices
DevOK(m, t) ==
    /\ DOMAIN m = Devices
    /\ m.pit \in PitSet /\ CmosOK(m.cmos, t) /\ m.ptimer \in PtimerSet /\ m.pcrtc \in PcrtcSet /\ m.usb \in UsbSet

\* the same devices, but one
LEMMA DevExcept ==
    ASSUME NEW m, NEW t, DevOK(m, t)
    PROVE  /\ \A p \in PitSet : DevOK([m EXCEPT !.pit = p], t)
           /\ \A p \in PtimerSet : DevOK([m EXCEPT !.ptimer = p], t)
           /\ \A p \in PcrtcSet : DevOK([m EXCEPT !.pcrtc = p], t)
           /\ \A p \in UsbSet : DevOK([m EXCEPT !.usb = p], t)
           /\ \A p : CmosOK(p, t) => DevOK([m EXCEPT !.cmos = p], t)
BY DEF DevOK, Devices

\* A million written out is more than the provers can print.
LEMMA NeverIsNumber == Never \in Nat
BY SMT DEF Never

LEMMA AnswerTyped ==
    ASSUME NEW S, NEW running \in BOOLEAN, NEW m \in S, NEW fired \in S, NEW next \in Nat, NEW period \in Nat, NEW t \in Nat
    PROVE  /\ Answer(running, m, fired, next, period, t).dev \in S
           /\ Answer(running, m, fired, next, period, t).in \in Nat
           /\ Answer(running, m, fired, next, period, t).event \in BOOLEAN
BY NeverIsNumber DEF Answer, Polled

\* The answer of a timer keeps its type and is in a natural number of ticks.
LEMMA PollsTyped ==
    ASSUME NEW t \in Nat, NEW m, DevOK(m, t)
    PROVE  /\ PitPoll(m.pit, t).dev \in PitSet /\ PitPoll(m.pit, t).in \in Nat
           /\ PtimerPoll(m.ptimer, t).dev \in PtimerSet /\ PtimerPoll(m.ptimer, t).in \in Nat
           /\ PcrtcPoll(m.pcrtc, t).dev \in PcrtcSet /\ PcrtcPoll(m.pcrtc, t).in \in Nat
           /\ UsbPoll(m.usb, t).dev \in UsbSet /\ UsbPoll(m.usb, t).in \in Nat
<1>1. PitPoll(m.pit, t).dev \in PitSet /\ PitPoll(m.pit, t).in \in Nat
  <2>1. m.pit \in PitSet /\ [m.pit EXCEPT !.last = @ + m.pit.counter] \in PitSet
    BY DEF DevOK, PitSet
  <2> QED BY <2>1, NeverIsNumber DEF PitPoll, Answer, Polled, PitSet
<1>2. PtimerPoll(m.ptimer, t).dev \in PtimerSet /\ PtimerPoll(m.ptimer, t).in \in Nat
  <2>1. m.ptimer \in PtimerSet /\ PtimerNext(m.ptimer) \in Nat /\ m.ptimer.period \in Nat
    BY TimersAssumption, NeverIsNumber DEF DevOK, PtimerSet, PtimerNext
  <2>2. [m.ptimer EXCEPT !.last = PtimerNext(m.ptimer), !.later = 0, !.sooner = 0] \in PtimerSet
    BY <2>1 DEF PtimerSet
  <2> QED BY <2>1, <2>2, NeverIsNumber DEF PtimerPoll, Answer, Polled
<1>3. PcrtcPoll(m.pcrtc, t).dev \in PcrtcSet /\ PcrtcPoll(m.pcrtc, t).in \in Nat
  <2>1. m.pcrtc \in PcrtcSet /\ [m.pcrtc EXCEPT !.last = @ + Vblank] \in PcrtcSet
    BY TimersAssumption DEF DevOK, PcrtcSet
  <2> QED BY <2>1, TimersAssumption, NeverIsNumber DEF PcrtcPoll, Answer, Polled, PcrtcSet
<1>4. UsbPoll(m.usb, t).dev \in UsbSet /\ UsbPoll(m.usb, t).in \in Nat
  <2>1. m.usb \in UsbSet /\ [m.usb EXCEPT !.sof = @ + Frame] \in UsbSet /\ m.usb.sof \in Nat
    BY OhciAssumption DEF DevOK, UsbSet
  <2> QED BY <2>1, OhciAssumption, NeverIsNumber DEF UsbPoll, Answer, Polled
<1> QED BY <1>1, <1>2, <1>3, <1>4

LEMMA UpdateClockTyped ==
    ASSUME NEW c \in CmosSet, NEW elapsed \in Nat
    PROVE  /\ UpdateClock(c, elapsed) \in CmosSet
           /\ UpdateClock(c, elapsed) = [c EXCEPT !.sys = @ + (c.lostUs + elapsed) \div Second, !.lostUs = (c.lostUs + elapsed) % Second]
<1> DEFINE i == c.sys + (c.lostUs + elapsed) \div Second
           j == (c.lostUs + elapsed) % Second
<1>1. c.lostUs + elapsed \in Nat /\ c.sys \in Nat
  BY DEF CmosSet
<1>2. i \in Nat /\ j \in Nat
  BY <1>1, CmosAssumption
<1>3. UpdateClock(c, elapsed) = [c EXCEPT !.sys = i, !.lostUs = j]
  BY DEF UpdateClock
<1> HIDE DEF i, j
<1>4. UpdateClock(c, elapsed) \in CmosSet
  BY <1>2, <1>3 DEF CmosSet
<1> QED BY <1>4 DEF UpdateClock

\* The clock's poll: a clock that stands still, one that is not due, an interrupt
\* and a second.
LEMMA CmosIdle ==
    ASSUME NEW t \in Nat, NEW c, CmosOK(c, t), ~CmosRunning(c), NEW r, r = CmosPoll(c, t)
    PROVE  r.dev = c /\ r.event = FALSE /\ r.in = Never
<1>1. r = Polled(c, Never, FALSE)
  BY DEF CmosRunning, CmosPoll
<1> QED BY <1>1 DEF Polled

EarlyAnswer(r, c, t) == r = Polled(c, CmosDue(c) - t, FALSE) /\ CmosDue(c) - t \in Nat
StillQuiet(r, c) == r.dev = c /\ r.event = FALSE /\ r.in \in Nat

LEMMA CmosAnswersEarly ==
    ASSUME NEW t \in Nat, NEW c, CmosOK(c, t), CmosRunning(c), t < CmosDue(c)
    PROVE  EarlyAnswer(CmosPoll(c, t), c, t)
<1>1. /\ c.int \in BOOLEAN /\ c.clock \in BOOLEAN /\ c.lastInt \in Nat /\ c.lastClock \in Nat /\ c.period \in Nat
      /\ c.lastInt + c.period = c.period + c.lastInt /\ c.lastClock + Second = Second + c.lastClock
  BY CmosAssumption DEF CmosOK, CmosSet
<1>2. CmosPoll(c, t) = Polled(c, CmosDue(c) - t, FALSE)
  <2>1. CASE c.int
    BY <1>1, <2>1 DEF CmosDue, CmosPeriod, CmosPoll, PeriodicPoll
  <2>2. CASE ~c.int
    BY <1>1, <2>2 DEF CmosRunning, CmosDue, CmosPeriod, CmosPoll, ClockPoll
  <2> QED BY <2>1, <2>2
<1>3. CmosDue(c) \in Nat
  BY <1>1, CmosAssumption DEF CmosDue, CmosPeriod
<1>4. CmosDue(c) - t \in Nat
  BY <1>3
<1> QED BY <1>2, <1>4 DEF EarlyAnswer

LEMMA CmosEarly ==
    ASSUME NEW t \in Nat, NEW c, CmosOK(c, t), CmosRunning(c), t < CmosDue(c), NEW r, r = CmosPoll(c, t)
    PROVE  r.dev = c /\ r.event = FALSE /\ r.in = CmosDue(c) - t /\ r.in \in Nat
<1>1. EarlyAnswer(r, c, t)
  BY CmosAnswersEarly, Zenon
<1> QED BY <1>1 DEF EarlyAnswer, Polled

LEMMA CmosNotDue ==
    ASSUME NEW t \in Nat, NEW c, CmosOK(c, t), CmosRunning(c), t < CmosDue(c)
    PROVE  StillQuiet(CmosPoll(c, t), c)
<1>1. EarlyAnswer(CmosPoll(c, t), c, t)
  BY CmosAnswersEarly, Zenon
<1> QED BY <1>1 DEF EarlyAnswer, StillQuiet, Polled

\* what no poll of the clock touches
SameClock(c, d) ==
    /\ d.int = c.int /\ d.clock = c.clock /\ d.period = c.period /\ d.max = c.max
    /\ d.hour = c.hour /\ d.binary = c.binary /\ d.h24 = c.h24 /\ d.b = c.b

LEMMA CmosInterrupt ==
    ASSUME NEW t \in Nat, NEW c, CmosOK(c, t), c.int, t >= c.lastInt + c.period, NEW r, r = CmosPoll(c, t)
    PROVE  /\ r.event = TRUE /\ r.in = c.period /\ CmosOK(r.dev, t) /\ SameClock(c, r.dev)
           /\ r.dev.lostTicks = (c.lostTicks + t - c.lastInt) % c.period
           /\ (c.lostTicks + t - c.lastInt) \div c.period # c.max =>
                r.dev.lastInt = c.lastInt + c.period /\ r.dev.lastClock = c.lastClock /\ r.dev.sys = c.sys /\ r.dev.lostUs = c.lostUs
<1> DEFINE next == c.lastInt + c.period
           passed == c.lostTicks + t - c.lastInt
           why == {"PF"} \cup (IF "AIE" \in c.b /\ AlarmMatches(c) THEN {"AF"} ELSE {}) \cup (c.b \cap {"UIE"})
           reasons == {IF w = "UIE" THEN "UF" ELSE w : w \in why}
           rest == passed % c.period
           ticked == [c EXCEPT !.lostTicks = rest]
           counted == UpdateClock(ticked, t - c.lastClock)
<1>1. c \in CmosSet /\ c.int \in BOOLEAN /\ c.lastInt \in Nat /\ c.lastClock \in Nat /\ c.period \in Nat /\ c.lostTicks \in Nat
  BY DEF CmosOK, CmosSet
<1>2. reasons \in SUBSET CFlags /\ {"PF"} \in SUBSET CFlags
  BY <1>1 DEF CFlags, BFlags, CmosSet
<1>3. passed \in Nat /\ c.period > 0 /\ next \in Nat /\ next <= t /\ t - c.lastClock \in Nat
  BY <1>1 DEF CmosOK
<1>4. rest \in Nat
  BY <1>1, <1>3
<1>5. r = IF passed \div c.period # c.max
          THEN Polled([ticked EXCEPT !.lastInt = next, !.flags = {"PF"}], c.period, TRUE)
          ELSE Polled([counted EXCEPT !.lastClock = next, !.flags = reasons], c.period, TRUE)
  <2>1. CmosPoll(c, t) = PeriodicPoll(c, t)
    BY DEF CmosPoll
  <2>2. ~(t < next)
    BY <1>1, <1>3
  <2> QED BY <2>1, <2>2 DEF PeriodicPoll
<1> HIDE DEF rest, reasons, next
<1>6. ticked \in CmosSet
  BY <1>1, <1>4 DEF CmosSet
<1>7. counted \in CmosSet /\ counted = [ticked EXCEPT !.sys = @ + (ticked.lostUs + (t - c.lastClock)) \div Second,
                                                      !.lostUs = (ticked.lostUs + (t - c.lastClock)) % Second]
  BY <1>3, <1>6, UpdateClockTyped
<1>8. CASE passed \div c.period # c.max
  <2> DEFINE d == [ticked EXCEPT !.lastInt = next, !.flags = {"PF"}]
  <2>1. d \in CmosSet
    BY <1>2, <1>3, <1>6 DEF CmosSet
  <2>2. SameClock(c, d) /\ d.lastInt = next /\ d.lastClock = c.lastClock /\ d.lostTicks = rest /\ d.sys = c.sys /\ d.lostUs = c.lostUs
    BY <1>1 DEF CmosSet, SameClock
  <2>3. r.dev = d /\ r.event = TRUE /\ r.in = c.period
    BY <1>5, <1>8 DEF Polled
  <2> HIDE DEF d
  <2>4. CmosOK(r.dev, t)
    BY <1>3, <2>1, <2>2, <2>3 DEF CmosOK, SameClock
  <2> QED BY <2>2, <2>3, <2>4 DEF rest, next
<1>9. CASE passed \div c.period = c.max
  <2> DEFINE d == [counted EXCEPT !.lastClock = next, !.flags = reasons]
  <2>1. d \in CmosSet
    BY <1>2, <1>3, <1>7 DEF CmosSet
  <2>2. SameClock(c, d) /\ d.lastInt = c.lastInt /\ d.lastClock = next /\ d.lostTicks = rest
    BY <1>1, <1>6, <1>7 DEF CmosSet, SameClock
  <2>3. r.dev = d /\ r.event = TRUE /\ r.in = c.period
    BY <1>5, <1>9 DEF Polled
  <2> HIDE DEF d
  <2>4. CmosOK(r.dev, t)
    BY <1>3, <2>1, <2>2, <2>3 DEF CmosOK, SameClock
  <2> QED BY <1>9, <2>2, <2>3, <2>4 DEF rest
<1> QED BY <1>8, <1>9

LEMMA CmosSecond ==
    ASSUME NEW t \in Nat, NEW c, CmosOK(c, t), ~c.int, c.clock, t >= c.lastClock + Second
    PROVE  /\ CmosPoll(c, t).event = TRUE /\ CmosPoll(c, t).in = Second
           /\ CmosOK(CmosPoll(c, t).dev, t) /\ SameClock(c, CmosPoll(c, t).dev)
           /\ CmosPoll(c, t).dev.lastClock = c.lastClock + Second
           /\ CmosPoll(c, t).dev.lostTicks = c.lostTicks
           /\ CmosPoll(c, t).dev.sys = c.sys + (c.lostUs + (t - c.lastClock)) \div Second
           /\ CmosPoll(c, t).dev.lostUs = (c.lostUs + (t - c.lastClock)) % Second
<1> SUFFICES ASSUME NEW r, r = CmosPoll(c, t)
             PROVE  /\ r.event = TRUE /\ r.in = Second /\ CmosOK(r.dev, t) /\ SameClock(c, r.dev)
                    /\ r.dev.lastClock = c.lastClock + Second /\ r.dev.lostTicks = c.lostTicks
                    /\ r.dev.sys = c.sys + (c.lostUs + (t - c.lastClock)) \div Second
                    /\ r.dev.lostUs = (c.lostUs + (t - c.lastClock)) % Second
  OBVIOUS
<1> DEFINE counted == UpdateClock(c, t - c.lastClock)
           d == [counted EXCEPT !.lastClock = c.lastClock + Second]
<1>1. c \in CmosSet /\ c.lastInt \in Nat /\ c.lastClock \in Nat /\ c.lostUs \in Nat /\ c.lastInt <= t /\ Second \in Nat
  BY CmosAssumption DEF CmosOK, CmosSet
<1>2. t - c.lastClock \in Nat /\ c.lastClock + Second \in Nat /\ ~(t < c.lastClock + Second)
  BY <1>1 DEF CmosOK
<1>3. counted \in CmosSet /\ counted = [c EXCEPT !.sys = @ + (c.lostUs + (t - c.lastClock)) \div Second,
                                                 !.lostUs = (c.lostUs + (t - c.lastClock)) % Second]
  BY <1>1, <1>2, UpdateClockTyped
<1>4. d \in CmosSet
  BY <1>2, <1>3 DEF CmosSet
<1>5. /\ SameClock(c, d)
      /\ d.lastInt = c.lastInt /\ d.lastClock = c.lastClock + Second /\ d.lostTicks = c.lostTicks
      /\ d.sys = c.sys + (c.lostUs + (t - c.lastClock)) \div Second
      /\ d.lostUs = (c.lostUs + (t - c.lastClock)) % Second
  BY <1>1, <1>3 DEF CmosSet, SameClock
<1>6. r = Polled(d, Second, TRUE)
  BY <1>2 DEF CmosPoll, ClockPoll
<1> HIDE DEF d
<1>7. r.dev = d /\ r.event = TRUE /\ r.in = Second
  BY <1>6 DEF Polled
<1>8. CmosOK(r.dev, t)
  BY <1>1, <1>2, <1>4, <1>5, <1>7 DEF CmosOK, SameClock
<1> QED BY <1>5, <1>7, <1>8

LEMMA CmosPollTyped ==
    ASSUME NEW t \in Nat, NEW c, CmosOK(c, t)
    PROVE  CmosOK(CmosPoll(c, t).dev, t) /\ CmosPoll(c, t).in \in Nat /\ CmosPoll(c, t).event \in BOOLEAN
<1>1. c.int \in BOOLEAN /\ c.clock \in BOOLEAN /\ c.lastInt \in Nat /\ c.lastClock \in Nat /\ c.period \in Nat /\ Second \in Nat
  BY CmosAssumption DEF CmosOK, CmosSet
<1>2. CASE ~CmosRunning(c)
  <2>1. CmosPoll(c, t).dev = c /\ CmosPoll(c, t).event = FALSE /\ CmosPoll(c, t).in = Never
    BY <1>2, CmosIdle
  <2> QED BY <2>1, NeverIsNumber
<1>3. CASE CmosRunning(c) /\ t < CmosDue(c)
  <2>1. StillQuiet(CmosPoll(c, t), c)
    BY <1>3, CmosNotDue, Zenon
  <2> QED BY <2>1 DEF StillQuiet
<1>4. CASE CmosRunning(c) /\ c.int /\ ~(t < CmosDue(c))
  <2>1. t >= c.lastInt + c.period
    BY <1>1, <1>4 DEF CmosDue, CmosPeriod
  <2> QED BY <1>1, <1>4, <2>1, CmosInterrupt, ZenonT(40)
<1>5. CASE CmosRunning(c) /\ ~c.int /\ ~(t < CmosDue(c))
  <2>1. c.clock /\ t >= c.lastClock + Second
    BY <1>1, <1>5 DEF CmosRunning, CmosDue, CmosPeriod
  <2> QED BY <1>1, <1>5, <2>1, CmosSecond
<1> QED BY <1>2, <1>3, <1>4, <1>5

\* The soonest of five numbers.
LEMMA SoonestOfFive ==
    ASSUME NEW a \in Nat, NEW b \in Nat, NEW c \in Nat, NEW d \in Nat, NEW e \in Nat
    PROVE  /\ Soonest({a, b, c, d, e}) \in {a, b, c, d, e}
           /\ \A s \in {a, b, c, d, e} : Soonest({a, b, c, d, e}) <= s
<1>1. \E t \in {a, b, c, d, e} : \A s \in {a, b, c, d, e} : t <= s
  <2>1. \E t \in {a, b} : t <= a /\ t <= b
    OBVIOUS
  <2>2. PICK x \in {a, b} : x <= a /\ x <= b
    BY <2>1
  <2>3. \E t \in {x, c} : t <= x /\ t <= c
    BY <2>2
  <2>4. PICK y \in {x, c} : y <= x /\ y <= c
    BY <2>3
  <2>5. \E t \in {y, d} : t <= y /\ t <= d
    BY <2>2, <2>4
  <2>6. PICK z \in {y, d} : z <= y /\ z <= d
    BY <2>5
  <2>7. \E t \in {z, e} : t <= z /\ t <= e
    BY <2>2, <2>4, <2>6
  <2>8. PICK w \in {z, e} : w <= z /\ w <= e
    BY <2>7
  <2>9. w \in {a, b, c, d, e} /\ \A s \in {a, b, c, d, e} : w <= s
    BY <2>2, <2>4, <2>6, <2>8
  <2> QED BY <2>9
<1> QED BY <1>1 DEF Soonest

\* The soonest of any numbers, for the constants.
LEMMA SoonestIsOne ==
    ASSUME NEW S, S \subseteq Nat, S # {}
    PROVE  Soonest(S) \in S
<1>1. \E n \in S : \A k \in S : <<k, n>> \notin OpToRel(<, Nat)
  BY NatLessThanWellFounded, WFMin, Zenon
<1>2. PICK n \in S : \A k \in S : <<k, n>> \notin OpToRel(<, Nat)
  BY <1>1
<1>3. ASSUME NEW k \in S
      PROVE  n <= k
  <2>1. ~(k < n)
    BY <1>2 DEF OpToRel
  <2> QED BY <2>1
<1> QED BY <1>2, <1>3 DEF Soonest

\* What a poll of all devices leaves of each, and how far it lets the CPU run.
LEMMA PollEach ==
    ASSUME now \in Nat, NEW m, DevOK(m, now), NEW count \in [Devices -> Nat], Poll(m, count)
    PROVE  /\ DevOK(dev', now) /\ raised' \in [Devices -> Nat] /\ deadline' \in Nat
           /\ dev'.pit = PitPoll(m.pit, now).dev /\ dev'.cmos = CmosPoll(m.cmos, now).dev
           /\ dev'.ptimer = PtimerPoll(m.ptimer, now).dev /\ dev'.pcrtc = PcrtcPoll(m.pcrtc, now).dev
           /\ dev'.usb = UsbPoll(m.usb, now).dev
           /\ deadline' <= now + PitPoll(m.pit, now).in /\ deadline' <= now + CmosPoll(m.cmos, now).in
           /\ deadline' <= now + PtimerPoll(m.ptimer, now).in /\ deadline' <= now + PcrtcPoll(m.pcrtc, now).in
           /\ deadline' <= now + UsbPoll(m.usb, now).in
           /\ raised'["pit"] = IF PitPoll(m.pit, now).event THEN count["pit"] + 1 ELSE count["pit"]
           /\ raised'["cmos"] = IF CmosPoll(m.cmos, now).event THEN count["cmos"] + 1 ELSE count["cmos"]
           /\ raised'["ptimer"] = IF PtimerPoll(m.ptimer, now).event THEN count["ptimer"] + 1 ELSE count["ptimer"]
           /\ raised'["pcrtc"] = IF PcrtcPoll(m.pcrtc, now).event THEN count["pcrtc"] + 1 ELSE count["pcrtc"]
           /\ raised'["usb"] = IF UsbPoll(m.usb, now).event THEN count["usb"] + 1 ELSE count["usb"]
<1> DEFINE answer == [pit |-> PitPoll(m.pit, now), cmos |-> CmosPoll(m.cmos, now), ptimer |-> PtimerPoll(m.ptimer, now),
                      pcrtc |-> PcrtcPoll(m.pcrtc, now), usb |-> UsbPoll(m.usb, now)]
           in == Soonest({answer[d].in : d \in Devices})
<1>1. /\ dev' = [d \in Devices |-> answer[d].dev]
      /\ deadline' = IF in = Never THEN Never ELSE now + in
      /\ raised' = [d \in Devices |-> IF answer[d].event THEN count[d] + 1 ELSE count[d]]
  BY DEF Poll
<1>2. /\ answer["pit"] = PitPoll(m.pit, now) /\ answer["cmos"] = CmosPoll(m.cmos, now) /\ answer["ptimer"] = PtimerPoll(m.ptimer, now)
      /\ answer["pcrtc"] = PcrtcPoll(m.pcrtc, now) /\ answer["usb"] = UsbPoll(m.usb, now)
  OBVIOUS
<1> HIDE DEF answer
<1>3. {answer[d].in : d \in Devices} = {answer["pit"].in, answer["cmos"].in, answer["ptimer"].in, answer["pcrtc"].in, answer["usb"].in}
  BY DEF Devices
<1>4. /\ PitPoll(m.pit, now).in \in Nat /\ PtimerPoll(m.ptimer, now).in \in Nat
      /\ PcrtcPoll(m.pcrtc, now).in \in Nat /\ UsbPoll(m.usb, now).in \in Nat
      /\ PitPoll(m.pit, now).dev \in PitSet /\ PtimerPoll(m.ptimer, now).dev \in PtimerSet
      /\ PcrtcPoll(m.pcrtc, now).dev \in PcrtcSet /\ UsbPoll(m.usb, now).dev \in UsbSet
  BY PollsTyped
<1>5. CmosPoll(m.cmos, now).in \in Nat /\ CmosOK(CmosPoll(m.cmos, now).dev, now)
  BY CmosPollTyped DEF DevOK
<1>6. /\ in \in Nat /\ in <= PitPoll(m.pit, now).in /\ in <= CmosPoll(m.cmos, now).in /\ in <= PtimerPoll(m.ptimer, now).in
      /\ in <= PcrtcPoll(m.pcrtc, now).in /\ in <= UsbPoll(m.usb, now).in
  <2> DEFINE a == PitPoll(m.pit, now).in
             b == CmosPoll(m.cmos, now).in
             c == PtimerPoll(m.ptimer, now).in
             d == PcrtcPoll(m.pcrtc, now).in
             e == UsbPoll(m.usb, now).in
  <2>1. in = Soonest({a, b, c, d, e})
    BY <1>2, <1>3
  <2>2. a \in Nat /\ b \in Nat /\ c \in Nat /\ d \in Nat /\ e \in Nat
    BY <1>4, <1>5
  <2> HIDE DEF a, b, c, d, e, in
  <2>3. Soonest({a, b, c, d, e}) \in {a, b, c, d, e} /\ \A s \in {a, b, c, d, e} : Soonest({a, b, c, d, e}) <= s
    BY <2>2, SoonestOfFive
  <2>4. in \in Nat /\ in <= a /\ in <= b /\ in <= c /\ in <= d /\ in <= e
    BY <2>1, <2>2, <2>3
  <2> QED BY <2>4 DEF a, b, c, d, e
<1> HIDE DEF in
<1>7. /\ dev'.pit = PitPoll(m.pit, now).dev /\ dev'.cmos = CmosPoll(m.cmos, now).dev
      /\ dev'.ptimer = PtimerPoll(m.ptimer, now).dev /\ dev'.pcrtc = PcrtcPoll(m.pcrtc, now).dev
      /\ dev'.usb = UsbPoll(m.usb, now).dev /\ DOMAIN dev' = Devices
  BY <1>1, <1>2 DEF Devices
<1>8. DevOK(dev', now)
  BY <1>4, <1>5, <1>7 DEF DevOK
<1>9. raised' \in [Devices -> Nat]
  BY <1>1
<1>10. /\ raised'["pit"] = IF PitPoll(m.pit, now).event THEN count["pit"] + 1 ELSE count["pit"]
       /\ raised'["cmos"] = IF CmosPoll(m.cmos, now).event THEN count["cmos"] + 1 ELSE count["cmos"]
       /\ raised'["ptimer"] = IF PtimerPoll(m.ptimer, now).event THEN count["ptimer"] + 1 ELSE count["ptimer"]
       /\ raised'["pcrtc"] = IF PcrtcPoll(m.pcrtc, now).event THEN count["pcrtc"] + 1 ELSE count["pcrtc"]
       /\ raised'["usb"] = IF UsbPoll(m.usb, now).event THEN count["usb"] + 1 ELSE count["usb"]
  BY <1>1, <1>2 DEF Devices
<1>11. deadline' \in Nat /\ deadline' <= now + in
  BY <1>1, <1>6, NeverIsNumber
<1> QED BY <1>4, <1>5, <1>6, <1>7, <1>8, <1>9, <1>10, <1>11

\* The members and the histories of the timers.
TimersOK ==
    /\ now \in Nat /\ deadline \in Nat /\ DevOK(dev, now)
    /\ raised \in [Devices -> Nat] /\ begun \in [Devices \cup {"seconds", "hour"} -> Nat]

\* A write to the clock's registers A and B at time t: what it starts and what it
\* keeps.
Controlled(c, d, b, freq, t) ==
    /\ CmosOK(d, t)
    /\ d.int = (freq # 0 /\ "PIE" \in b) /\ d.clock = ("SET" \notin b)
    /\ IF d.int /\ ~c.int THEN d.lastInt = t ELSE d.lastInt = c.lastInt /\ d.period = c.period /\ d.max = c.max
    /\ d.lastClock = IF ~c.clock /\ d.clock THEN t ELSE c.lastClock
    /\ d.sys = c.sys /\ d.lostUs = c.lostUs /\ d.lostTicks = c.lostTicks
    /\ d.hour = c.hour /\ d.binary = c.binary /\ d.h24 = c.h24

LEMMA ControlClock ==
    ASSUME now \in Nat, NEW c, CmosOK(c, now), NEW b \in SUBSET BFlags, NEW freq \in Freqs \cup {0},
           NEW d, d = UpdateTimer([c EXCEPT !.b = b, !.freq = freq], now)
    PROVE  Controlled(c, d, b, freq, now)
<1> DEFINE e == [c EXCEPT !.b = b, !.freq = freq]
           int == freq # 0 /\ "PIE" \in b
           started == IF ~int \/ e.int THEN e ELSE [e EXCEPT !.period = Second \div freq, !.max = freq, !.lastInt = now]
<1>1. /\ c \in CmosSet /\ c.int \in BOOLEAN /\ c.clock \in BOOLEAN /\ c.lastInt \in Nat /\ c.lastClock \in Nat /\ c.period \in Nat /\ c.max \in Nat
      /\ c.lastInt <= now /\ c.lastClock <= now
  BY DEF CmosOK, CmosSet
<1>2. e \in CmosSet /\ e.b = b /\ e.freq = freq /\ e.int = c.int /\ e.clock = c.clock /\ e.lastClock = c.lastClock
  BY <1>1 DEF CmosSet
<1>3. d = [started EXCEPT !.int = int, !.clock = "SET" \notin b, !.lastClock = IF ~e.clock /\ "SET" \notin b THEN now ELSE @]
  BY <1>2 DEF UpdateTimer
<1>4. ASSUME int PROVE Second \div freq \in Nat /\ Second \div freq > 0 /\ freq \in Nat /\ freq > 1
  <2>1. freq \in 2 .. Second /\ Second \in Nat
    BY <1>4, CmosAssumption
  <2> QED BY <2>1
<1> HIDE DEF e
<1>5. CASE int /\ ~c.int
  <2> DEFINE p == Second \div freq
  <2>1. p \in Nat /\ p > 0 /\ freq \in Nat /\ freq > 1
    BY <1>4, <1>5
  <2>2. started = [e EXCEPT !.period = p, !.max = freq, !.lastInt = now]
    BY <1>2, <1>5
  <2> HIDE DEF p, started
  <2>3. started \in CmosSet
    BY <1>2, <2>1, <2>2 DEF CmosSet
  <2>4. d \in CmosSet
    BY <1>1, <1>2, <1>3, <2>3 DEF CmosSet
  <2>5. /\ d.int = int /\ d.clock = ("SET" \notin b) /\ d.period = p /\ d.max = freq /\ d.lastInt = now
        /\ d.lastClock = IF ~c.clock /\ "SET" \notin b THEN now ELSE c.lastClock
    BY <1>2, <1>3, <2>2, <2>3 DEF CmosSet
  <2>6. /\ d.sys = c.sys /\ d.lostUs = c.lostUs /\ d.lostTicks = c.lostTicks
        /\ d.hour = c.hour /\ d.binary = c.binary /\ d.h24 = c.h24
    BY <1>1, <1>3, <2>2, <2>3 DEF CmosSet, e
  <2>7. d.int /\ ~c.int
    BY <1>5, <2>5
  <2>8. CmosOK(d, now)
    BY <1>1, <2>1, <2>4, <2>5, <2>7 DEF CmosOK
  <2>9. d.lastClock = IF ~c.clock /\ d.clock THEN now ELSE c.lastClock
    BY <2>5
  <2> QED BY <2>5, <2>6, <2>7, <2>8, <2>9 DEF Controlled
<1>6. CASE ~(int /\ ~c.int)
  <2>1. started = e
    BY <1>2, <1>6
  <2> HIDE DEF started
  <2>2. d \in CmosSet
    BY <1>1, <1>2, <1>3, <2>1 DEF CmosSet
  <2>3. /\ d.int = int /\ d.clock = ("SET" \notin b) /\ d.period = c.period /\ d.max = c.max /\ d.lastInt = c.lastInt
        /\ d.lastClock = IF ~c.clock /\ "SET" \notin b THEN now ELSE c.lastClock
    BY <1>1, <1>2, <1>3, <2>1 DEF CmosSet, e
  <2>4. /\ d.sys = c.sys /\ d.lostUs = c.lostUs /\ d.lostTicks = c.lostTicks
        /\ d.hour = c.hour /\ d.binary = c.binary /\ d.h24 = c.h24
    BY <1>1, <1>3, <2>1 DEF CmosSet, e
  <2>5. ~(d.int /\ ~c.int) /\ (d.int => c.int)
    BY <1>6, <2>3
  <2>6. CmosOK(d, now)
    <3>1. c.int => c.period > 0 /\ c.max > 1
      BY DEF CmosOK
    <3>2. d.int => d.period > 0 /\ d.max > 1
      BY <2>3, <2>5, <3>1
    <3>3. d.lastInt <= now /\ d.lastClock <= now
      BY <1>1, <2>3
    <3> QED BY <2>2, <3>2, <3>3 DEF CmosOK
  <2>7. d.lastClock = IF ~c.clock /\ d.clock THEN now ELSE c.lastClock
    BY <2>3
  <2> QED BY <2>3, <2>4, <2>5, <2>6, <2>7 DEF Controlled
<1> QED BY <1>5, <1>6

-----------------------------------------------------------------------------
(***************************************************************************)
(* The timers: the rhythm of each device                                   *)
(*                                                                         *)
(* n is the number of events since the rhythm began, b the time when it    *)
(* did, T what trails, use what the title does.                            *)
(***************************************************************************)

\* the next event of a device is no earlier than t
PitAhead(p, t) == p.running /\ ~p.lsb => t <= p.last + p.counter
CmosAhead(c, t) == CmosRunning(c) => t <= CmosDue(c)
PtimerAhead(a, t) == a.enabled /\ a.active => t <= PtimerNext(a)
PcrtcAhead(v, t) == v.enabled => t <= v.last + Vblank
UsbAhead(u, t) == u.running => t <= u.sof + Frame

\* the next event, due, is the one after n of period p since b
Beats(due, n, p, b, t) == due = b + (n + 1) * p /\ n * p <= t - b

\* a device whose polls are never late
Prompt(d, T, use) == "late" \notin use /\ d \notin T

PitSound(p, n, b, T, use, t) ==
    /\ p.running /\ ~p.lsb => Beats(p.last + p.counter, n, p.counter, b, t)
    /\ Prompt("pit", T, use) => PitAhead(p, t)

PtimerSound(a, n, b, T, use, t) ==
    /\ "alarm" \notin T => a.later = a.sooner
    /\ "alarm" \notin T /\ a.active => Beats(a.last + a.period, n, a.period, b, t)
    /\ Prompt("ptimer", T, use) => PtimerAhead(a, t)

PcrtcSound(v, n, b, T, use, t) ==
    /\ v.enabled => Beats(v.last + Vblank, n, Vblank, b, t)
    /\ Prompt("pcrtc", T, use) => PcrtcAhead(v, t)

UsbSound(u, n, b, T, use, t) ==
    /\ u.running => Beats(u.sof + Frame, n, Frame, b, t)
    /\ "line" \notin T => u.line = (u.mie /\ u.st \cap u.en # {})
    /\ Prompt("usb", T, use) => UsbAhead(u, t)

\* s, h: the seconds when the rhythm began, and the hour that is meant
CmosSound(c, n, b, s, h, T, use, t) ==
    /\ c.int => "cmos" \notin T
    /\ "cmos" \notin T /\ ~(c.int /\ "late" \in use) /\ CmosRunning(c) => Beats(CmosDue(c), n, CmosPeriod(c), b, t)
    /\ "late" \notin use => c.lostTicks = 0
    /\ "late" \notin use /\ "cmos" \notin T => CmosAhead(c, t)
    /\ "periodic" \notin use =>
        /\ ~c.int /\ "cmos" \notin T
        /\ c.clock => c.sys >= s + n
        /\ "late" \notin use => c.lostUs = 0 /\ (c.clock => c.sys = s + n)
    /\ "decimal" \notin use => h \in 0 .. 23 /\ c.hour = h

LEMMA PitPollSound ==
    ASSUME NEW t \in Nat, NEW p \in PitSet, NEW n \in Nat, NEW b \in Nat, NEW T, NEW use, PitSound(p, n, b, T, use, t)
    PROVE  LET r == PitPoll(p, t) IN
           /\ PitSound(r.dev, IF r.event THEN n + 1 ELSE n, b, T, use, t)
           /\ Prompt("pit", T, use) => PitAhead(r.dev, t + r.in)
<1>1. p.running \in BOOLEAN /\ p.lsb \in BOOLEAN /\ p.counter \in Nat /\ p.last \in Nat
  BY DEF PitSet
<1>2. CASE ~p.running
  BY <1>2 DEF PitPoll, Answer, Polled, PitSound, PitAhead
<1>3. CASE p.running /\ t < p.last + p.counter
  <2>1. ~(t >= p.last + p.counter)
    BY <1>1, <1>3
  <2>2. PitPoll(p, t) = Polled(p, (p.last + p.counter) - t, FALSE)
    BY <1>3, <2>1 DEF PitPoll, Answer
  <2> QED BY <1>1, <1>3, <2>2 DEF Polled, PitSound, PitAhead
<1>4. CASE p.running /\ t >= p.last + p.counter
  <2> DEFINE q == [p EXCEPT !.last = @ + p.counter]
  <2>1. PitPoll(p, t) = Polled(q, p.counter, TRUE)
    BY <1>1, <1>4 DEF PitPoll, Answer
  <2>2. q.running /\ q.lsb = p.lsb /\ q.counter = p.counter /\ q.last = p.last + p.counter
    BY <1>1, <1>4 DEF PitSet
  <2> HIDE DEF q
  <2>3. CASE p.lsb
    <3>1. PitSound(q, n + 1, b, T, use, t) /\ PitAhead(q, t + p.counter)
      BY <2>2, <2>3 DEF PitSound, PitAhead
    <3> QED BY <2>1, <3>1 DEF Polled
  <2>4. CASE ~p.lsb
    <3>1. Beats(p.last + p.counter, n, p.counter, b, t) /\ (Prompt("pit", T, use) => t = p.last + p.counter)
      BY <1>1, <1>4, <2>4 DEF PitSound, PitAhead
    <3>2. Beats(q.last + q.counter, n + 1, q.counter, b, t)
      BY <1>1, <1>4, <2>2, <3>1 DEF Beats
    <3>3. Prompt("pit", T, use) => PitAhead(q, t) /\ PitAhead(q, t + p.counter)
      BY <1>1, <2>2, <3>1 DEF PitAhead
    <3> QED BY <2>1, <3>2, <3>3 DEF Polled, PitSound
  <2> QED BY <1>1, <2>3, <2>4
<1> QED BY <1>1, <1>2, <1>3, <1>4

LEMMA PcrtcPollSound ==
    ASSUME NEW t \in Nat, NEW v \in PcrtcSet, NEW n \in Nat, NEW b \in Nat, NEW T, NEW use, PcrtcSound(v, n, b, T, use, t)
    PROVE  LET r == PcrtcPoll(v, t) IN
           /\ PcrtcSound(r.dev, IF r.event THEN n + 1 ELSE n, b, T, use, t)
           /\ Prompt("pcrtc", T, use) => PcrtcAhead(r.dev, t + r.in)
<1>1. v.enabled \in BOOLEAN /\ v.last \in Nat /\ Vblank \in Nat
  BY TimersAssumption DEF PcrtcSet
<1>2. CASE ~v.enabled
  BY <1>2 DEF PcrtcPoll, Answer, Polled, PcrtcSound, PcrtcAhead
<1>3. CASE v.enabled /\ t < v.last + Vblank
  <2>1. ~(t >= v.last + Vblank)
    BY <1>1, <1>3
  <2>2. PcrtcPoll(v, t) = Polled(v, (v.last + Vblank) - t, FALSE)
    BY <1>3, <2>1 DEF PcrtcPoll, Answer
  <2> QED BY <1>1, <1>3, <2>2 DEF Polled, PcrtcSound, PcrtcAhead
<1>4. CASE v.enabled /\ t >= v.last + Vblank
  <2> DEFINE q == [v EXCEPT !.last = @ + Vblank]
  <2>1. PcrtcPoll(v, t) = Polled(q, Vblank, TRUE)
    BY <1>1, <1>4 DEF PcrtcPoll, Answer
  <2>2. q.enabled /\ q.last = v.last + Vblank
    BY <1>1, <1>4 DEF PcrtcSet
  <2> HIDE DEF q
  <2>3. Beats(v.last + Vblank, n, Vblank, b, t) /\ (Prompt("pcrtc", T, use) => t = v.last + Vblank)
    BY <1>1, <1>4 DEF PcrtcSound, PcrtcAhead
  <2>4. Beats(q.last + Vblank, n + 1, Vblank, b, t)
    BY <1>1, <1>4, <2>2, <2>3 DEF Beats
  <2>5. Prompt("pcrtc", T, use) => PcrtcAhead(q, t) /\ PcrtcAhead(q, t + Vblank)
    BY <1>1, <2>2, <2>3 DEF PcrtcAhead
  <2> QED BY <2>1, <2>4, <2>5 DEF Polled, PcrtcSound
<1> QED BY <1>1, <1>2, <1>3, <1>4

LEMMA UsbPollSound ==
    ASSUME NEW t \in Nat, NEW u \in UsbSet, NEW n \in Nat, NEW b \in Nat, NEW T, NEW use,
           UsbSound(u, n, b, T, use, t)
    PROVE  LET r == UsbPoll(u, t) IN
           /\ UsbSound(r.dev, IF r.event THEN n + 1 ELSE n, b, T, use, t)
           /\ Prompt("usb", T, use) => UsbAhead(r.dev, t + r.in)
<1>1. u.running \in BOOLEAN /\ u.sof \in Nat /\ Frame \in Nat
  BY OhciAssumption DEF UsbSet
<1>2. CASE ~u.running
  BY <1>2 DEF UsbPoll, Answer, Polled, UsbSound, UsbAhead
<1>3. CASE u.running /\ t < u.sof + Frame
  <2>1. ~(t >= u.sof + Frame)
    BY <1>1, <1>3
  <2>2. UsbPoll(u, t) = Polled(u, (u.sof + Frame) - t, FALSE)
    BY <1>3, <2>1 DEF UsbPoll, Answer
  <2> QED BY <1>1, <1>3, <2>2 DEF Polled, UsbSound, UsbAhead
<1>4. CASE u.running /\ t >= u.sof + Frame
  <2> DEFINE q == [u EXCEPT !.sof = @ + Frame]
  <2>1. UsbPoll(u, t) = Polled(q, Frame, TRUE)
    BY <1>1, <1>4 DEF UsbPoll, Answer
  <2>2. q.running /\ q.sof = u.sof + Frame /\ q.line = u.line /\ q.mie = u.mie /\ q.st = u.st /\ q.en = u.en
    BY <1>1, <1>4 DEF UsbSet
  <2> HIDE DEF q
  <2>3. Beats(u.sof + Frame, n, Frame, b, t) /\ (Prompt("usb", T, use) => t = u.sof + Frame)
    BY <1>1, <1>4 DEF UsbSound, UsbAhead
  <2>4. Beats(q.sof + Frame, n + 1, Frame, b, t)
    BY <1>1, <1>4, <2>2, <2>3 DEF Beats
  <2>5. Prompt("usb", T, use) => UsbAhead(q, t) /\ UsbAhead(q, t + Frame)
    BY <1>1, <2>2, <2>3 DEF UsbAhead
  <2>6. "line" \notin T => q.line = (q.mie /\ q.st \cap q.en # {})
    BY <2>2 DEF UsbSound
  <2> QED BY <2>1, <2>4, <2>5, <2>6 DEF Polled, UsbSound
<1> QED BY <1>1, <1>2, <1>3, <1>4

\* An alarm that was not moved comes a period after the last one.
LEMMA PtimerNextIs ==
    ASSUME NEW a \in PtimerSet
    PROVE  PtimerNext(a) \in Nat /\ (a.later = a.sooner => PtimerNext(a) = a.last + a.period)
<1>1. a.last \in Nat /\ a.later \in Nat /\ a.sooner \in Nat /\ a.period \in Nat
  BY TimersAssumption DEF PtimerSet
<1> QED BY <1>1, NeverIsNumber, Z3 DEF PtimerNext

LEMMA PtimerPollSound ==
    ASSUME NEW t \in Nat, NEW a \in PtimerSet, NEW n \in Nat, NEW b \in Nat, NEW T, NEW use,
           PtimerSound(a, n, b, T, use, t)
    PROVE  LET r == PtimerPoll(a, t) IN
           /\ PtimerSound(r.dev, IF r.event THEN n + 1 ELSE n, b, T, use, t)
           /\ Prompt("ptimer", T, use) => PtimerAhead(r.dev, t + r.in)
<1>1. /\ a.enabled \in BOOLEAN /\ a.active \in BOOLEAN /\ a.last \in Nat /\ a.later \in Nat /\ a.sooner \in Nat
      /\ a.period \in Nat /\ PtimerNext(a) \in Nat
  BY PtimerNextIs, TimersAssumption DEF PtimerSet
<1>2. CASE ~(a.enabled /\ a.active)
  BY <1>2 DEF PtimerPoll, Answer, Polled, PtimerSound, PtimerAhead
<1>3. CASE a.enabled /\ a.active /\ t < PtimerNext(a)
  <2>1. ~(t >= PtimerNext(a))
    BY <1>1, <1>3
  <2>2. PtimerPoll(a, t) = Polled(a, PtimerNext(a) - t, FALSE)
    BY <1>3, <2>1 DEF PtimerPoll, Answer
  <2> QED BY <1>1, <1>3, <2>2 DEF Polled, PtimerSound, PtimerAhead
<1>4. CASE a.enabled /\ a.active /\ t >= PtimerNext(a)
  <2> DEFINE q == [a EXCEPT !.last = PtimerNext(a), !.later = 0, !.sooner = 0]
  <2>1. PtimerPoll(a, t) = Polled(q, a.period, TRUE)
    BY <1>1, <1>4 DEF PtimerPoll, Answer
  <2>2. q.enabled /\ q.active /\ q.last = PtimerNext(a) /\ q.period = a.period /\ q.later = 0 /\ q.sooner = 0
    BY <1>1, <1>4 DEF PtimerSet
  <2> HIDE DEF q
  <2>3. PtimerNext(q) = PtimerNext(a) + a.period
    BY <1>1, <2>2, Z3 DEF PtimerNext
  <2>4. "alarm" \notin T => q.later = q.sooner /\ Beats(q.last + q.period, n + 1, q.period, b, t)
    <3>1. SUFFICES ASSUME "alarm" \notin T PROVE Beats(q.last + q.period, n + 1, q.period, b, t)
      BY <2>2
    <3>2. PtimerNext(a) = a.last + a.period /\ Beats(a.last + a.period, n, a.period, b, t)
      BY <1>4, <3>1, PtimerNextIs DEF PtimerSound
    <3>3. t >= a.last + a.period /\ a.last + a.period = b + (n + 1) * a.period
      BY <1>4, <3>2 DEF Beats
    <3>4. a.last + a.period + a.period = b + (n + 1 + 1) * a.period /\ (n + 1) * a.period <= t - b
      BY <1>1, <3>3
    <3> QED BY <2>2, <3>2, <3>4 DEF Beats
  <2>5. Prompt("ptimer", T, use) => PtimerAhead(q, t) /\ PtimerAhead(q, t + a.period)
    BY <1>1, <1>4, <2>3 DEF PtimerSound, PtimerAhead
  <2> QED BY <2>1, <2>2, <2>4, <2>5 DEF Polled, PtimerSound
<1> QED BY <1>1, <1>2, <1>3, <1>4

\* The answers of the clock, by what it is.
LEMMA CmosAnswers ==
    ASSUME NEW t \in Nat, NEW c, CmosOK(c, t)
    PROVE  LET r == CmosPoll(c, t) IN
           /\ ~CmosRunning(c) => r.dev = c /\ r.event = FALSE
           /\ CmosRunning(c) /\ t < CmosDue(c) => r.dev = c /\ r.event = FALSE /\ r.in = CmosDue(c) - t /\ r.in \in Nat
           /\ c.int /\ t >= c.lastInt + c.period =>
                /\ r.event = TRUE /\ r.in = c.period /\ SameClock(c, r.dev)
                /\ r.dev.lostTicks = (c.lostTicks + t - c.lastInt) % c.period
                /\ (c.lostTicks + t - c.lastInt) \div c.period # c.max => r.dev.lastInt = c.lastInt + c.period
           /\ ~c.int /\ c.clock /\ t >= c.lastClock + Second =>
                /\ r.event = TRUE /\ r.in = Second /\ SameClock(c, r.dev)
                /\ r.dev.lastClock = c.lastClock + Second /\ r.dev.lostTicks = c.lostTicks
                /\ r.dev.sys = c.sys + (c.lostUs + (t - c.lastClock)) \div Second
                /\ r.dev.lostUs = (c.lostUs + (t - c.lastClock)) % Second
<1> DEFINE r == CmosPoll(c, t)
<1>1. ASSUME ~CmosRunning(c) PROVE r.dev = c /\ r.event = FALSE
  BY <1>1, CmosIdle
<1>2. ASSUME CmosRunning(c), t < CmosDue(c) PROVE r.dev = c /\ r.event = FALSE /\ r.in = CmosDue(c) - t /\ r.in \in Nat
  BY <1>2, CmosEarly
<1>3. ASSUME c.int, t >= c.lastInt + c.period
      PROVE  /\ r.event = TRUE /\ r.in = c.period /\ SameClock(c, r.dev)
             /\ r.dev.lostTicks = (c.lostTicks + t - c.lastInt) % c.period
             /\ (c.lostTicks + t - c.lastInt) \div c.period # c.max => r.dev.lastInt = c.lastInt + c.period
  BY <1>3, CmosInterrupt
<1>4. ASSUME ~c.int, c.clock, t >= c.lastClock + Second
      PROVE  /\ r.event = TRUE /\ r.in = Second /\ SameClock(c, r.dev)
             /\ r.dev.lastClock = c.lastClock + Second /\ r.dev.lostTicks = c.lostTicks
             /\ r.dev.sys = c.sys + (c.lostUs + (t - c.lastClock)) \div Second
             /\ r.dev.lostUs = (c.lostUs + (t - c.lastClock)) % Second
  BY <1>4, CmosSecond
<1> HIDE DEF r
<1> QED BY <1>1, <1>2, <1>3, <1>4 DEF r

LEMMA CmosPollSound ==
    ASSUME NEW t \in Nat, NEW c, CmosOK(c, t), NEW n \in Nat, NEW b \in Nat, NEW s \in Nat, NEW h, NEW T, NEW use,
           NEW r, r = CmosPoll(c, t)
    PROVE  CmosSound(c, n, b, s, h, T, use, t) =>
           /\ CmosSound(r.dev, IF r.event THEN n + 1 ELSE n, b, s, h, T, use, t)
           /\ "late" \notin use /\ "cmos" \notin T => CmosAhead(r.dev, t + r.in)
<1>1. /\ c.int \in BOOLEAN /\ c.clock \in BOOLEAN /\ c.lastInt \in Nat /\ c.lastClock \in Nat /\ c.period \in Nat
      /\ c.lostTicks \in Nat /\ c.lostUs \in Nat /\ c.sys \in Nat /\ c.max \in Nat /\ Second \in Nat /\ Second > 0
  BY CmosAssumption DEF CmosOK, CmosSet
<1> DEFINE passed == c.lostTicks + t - c.lastInt
           elapsed == c.lostUs + (t - c.lastClock)
<1>7. /\ ~CmosRunning(c) => r.dev = c /\ r.event = FALSE
      /\ CmosRunning(c) /\ t < CmosDue(c) => r.dev = c /\ r.event = FALSE /\ r.in = CmosDue(c) - t /\ r.in \in Nat
  BY CmosAnswers, Zenon
<1>9. c.int /\ t >= c.lastInt + c.period =>
        /\ r.event = TRUE /\ r.in = c.period /\ SameClock(c, r.dev)
        /\ r.dev.lostTicks = passed % c.period
        /\ passed \div c.period # c.max => r.dev.lastInt = c.lastInt + c.period
  BY CmosAnswers, Zenon
<1>10. ~c.int /\ c.clock /\ t >= c.lastClock + Second =>
        /\ r.event = TRUE /\ r.in = Second /\ SameClock(c, r.dev)
        /\ r.dev.lastClock = c.lastClock + Second /\ r.dev.lostTicks = c.lostTicks
        /\ r.dev.sys = c.sys + elapsed \div Second /\ r.dev.lostUs = elapsed % Second
  BY CmosAnswers, Zenon
<1> SUFFICES ASSUME CmosSound(c, n, b, s, h, T, use, t)
             PROVE  /\ CmosSound(r.dev, IF r.event THEN n + 1 ELSE n, b, s, h, T, use, t)
                    /\ "late" \notin use /\ "cmos" \notin T => CmosAhead(r.dev, t + r.in)
  OBVIOUS
<1>2. CASE ~CmosRunning(c)
  <2>1. r.dev = c /\ r.event = FALSE
    BY <1>2, <1>7
  <2> QED BY <1>2, <2>1 DEF CmosAhead
<1>3. CASE CmosRunning(c) /\ t < CmosDue(c)
  <2>1. r.dev = c /\ r.event = FALSE /\ r.in = CmosDue(c) - t /\ r.in \in Nat
    BY <1>3, <1>7
  <2>2. CmosDue(c) \in Nat
    BY <1>1 DEF CmosDue, CmosPeriod
  <2>3. CmosAhead(c, t + r.in)
    BY <2>1, <2>2 DEF CmosAhead
  <2> QED BY <2>1, <2>3
<1>4. CASE c.int /\ t >= CmosDue(c)
  <2>1. t >= c.lastInt + c.period /\ CmosDue(c) = c.lastInt + c.period /\ CmosPeriod(c) = c.period /\ CmosRunning(c)
    BY <1>1, <1>4 DEF CmosDue, CmosPeriod, CmosRunning
  <2>2. /\ r.event = TRUE /\ r.in = c.period /\ SameClock(c, r.dev)
        /\ r.dev.lostTicks = passed % c.period
        /\ passed \div c.period # c.max => r.dev.lastInt = c.lastInt + c.period
    BY <1>4, <1>9, <2>1
  <2>3. c.period > 0 /\ c.max > 1 /\ "cmos" \notin T /\ "periodic" \in use
    BY <1>4 DEF CmosOK, CmosSound
  <2>4. "decimal" \notin use => h \in 0 .. 23 /\ r.dev.hour = h
    BY <2>2 DEF CmosSound, SameClock
  <2>5. CASE "late" \in use
    <3>1. r.dev.int
      BY <1>4, <2>2 DEF SameClock
    <3>2. CmosSound(r.dev, n + 1, b, s, h, T, use, t)
      BY <2>3, <2>4, <2>5, <3>1 DEF CmosSound
    <3> QED BY <2>2, <2>5, <3>2
  <2>6. CASE "late" \notin use
    <3>1. c.lostTicks = 0 /\ t = c.lastInt + c.period /\ Beats(c.lastInt + c.period, n, c.period, b, t)
      BY <1>1, <1>4, <2>1, <2>3, <2>6 DEF CmosSound, CmosAhead
    <3>2. passed = c.period
      BY <1>1, <3>1
    <3>3. c.period \div c.period = 1 /\ c.period % c.period = 0
      BY <1>1, <2>3
    <3>4. r.dev.lostTicks = 0 /\ r.dev.lastInt = c.lastInt + c.period /\ r.dev.int /\ r.dev.period = c.period
      BY <1>1, <1>4, <2>2, <2>3, <3>2, <3>3 DEF SameClock
    <3>5. CmosDue(r.dev) = t + c.period /\ CmosPeriod(r.dev) = c.period
      BY <1>1, <3>1, <3>4 DEF CmosDue, CmosPeriod
    <3>6. Beats(CmosDue(r.dev), n + 1, CmosPeriod(r.dev), b, t)
      <4>1. c.lastInt + c.period = b + (n + 1) * c.period /\ t = c.lastInt + c.period
        BY <3>1 DEF Beats
      <4>2. t + c.period = b + (n + 1 + 1) * c.period /\ (n + 1) * c.period <= t - b
        BY <1>1, <4>1
      <4> QED BY <3>5, <4>2 DEF Beats
    <3>7. CmosAhead(r.dev, t) /\ CmosAhead(r.dev, t + c.period)
      BY <1>1, <3>5 DEF CmosAhead
    <3>8. CmosSound(r.dev, n + 1, b, s, h, T, use, t)
      BY <2>3, <2>4, <3>4, <3>6, <3>7 DEF CmosSound
    <3> QED BY <2>2, <3>7, <3>8
  <2> QED BY <2>5, <2>6
<1>5. CASE CmosRunning(c) /\ ~c.int /\ t >= CmosDue(c)
  <2>1. /\ c.clock /\ t >= c.lastClock + Second /\ CmosDue(c) = c.lastClock + Second /\ CmosPeriod(c) = Second
    BY <1>1, <1>5 DEF CmosDue, CmosPeriod, CmosRunning
  <2>2. /\ r.event = TRUE /\ r.in = Second /\ SameClock(c, r.dev)
        /\ r.dev.lastClock = c.lastClock + Second /\ r.dev.lostTicks = c.lostTicks
        /\ r.dev.sys = c.sys + elapsed \div Second /\ r.dev.lostUs = elapsed % Second
    BY <1>5, <1>10, <2>1
  <2>3. elapsed \in Nat /\ elapsed >= Second
    BY <1>1, <2>1
  <2>4. elapsed \div Second >= 1 /\ elapsed \div Second \in Nat
    <3> HIDE DEF elapsed
    <3> QED BY <1>1, <2>3, Z3
  <2>5. ~r.dev.int /\ r.dev.clock /\ CmosDue(r.dev) = c.lastClock + Second + Second /\ CmosPeriod(r.dev) = Second
    BY <1>1, <1>5, <2>1, <2>2 DEF SameClock, CmosDue, CmosPeriod
  <2>6. "cmos" \notin T => Beats(CmosDue(r.dev), n + 1, CmosPeriod(r.dev), b, t)
    <3>1. SUFFICES ASSUME "cmos" \notin T PROVE Beats(CmosDue(r.dev), n + 1, Second, b, t)
      BY <2>5
    <3>2. Beats(c.lastClock + Second, n, Second, b, t)
      BY <1>5, <2>1, <3>1 DEF CmosSound
    <3> QED BY <1>1, <2>1, <2>5, <3>2 DEF Beats
  <2>7. "late" \notin use /\ "cmos" \notin T => t = c.lastClock + Second
    BY <1>1, <1>5, <2>1 DEF CmosSound, CmosAhead
  <2>8. "late" \notin use /\ "cmos" \notin T => CmosAhead(r.dev, t) /\ CmosAhead(r.dev, t + Second)
    BY <1>1, <2>5, <2>7 DEF CmosAhead
  <2>9. "periodic" \notin use => /\ "cmos" \notin T /\ c.sys >= s + n
                                 /\ "late" \notin use => c.lostUs = 0 /\ c.sys = s + n
    BY <2>1 DEF CmosSound
  <2>10. "periodic" \notin use => r.dev.sys >= s + (n + 1)
    <3> DEFINE k == elapsed \div Second
    <3>1. k \in Nat /\ k >= 1 /\ r.dev.sys = c.sys + k
      BY <2>2, <2>4
    <3> HIDE DEF k
    <3> QED BY <1>1, <2>9, <3>1
  <2>11. "periodic" \notin use /\ "late" \notin use => r.dev.lostUs = 0 /\ r.dev.sys = s + (n + 1)
    <3>1. SUFFICES ASSUME "periodic" \notin use, "late" \notin use PROVE r.dev.lostUs = 0 /\ r.dev.sys = s + (n + 1)
      OBVIOUS
    <3>2. t = c.lastClock + Second /\ c.lostUs = 0 /\ c.sys = s + n
      BY <2>7, <2>9, <3>1
    <3>3. elapsed = Second
      BY <1>1, <3>2
    <3>4. Second \div Second = 1 /\ Second % Second = 0
      BY <1>1
    <3> HIDE DEF elapsed
    <3>5. r.dev.sys = c.sys + 1 /\ r.dev.lostUs = 0
      BY <2>2, <3>3, <3>4
    <3> QED BY <1>1, <3>2, <3>5
  <2>12. "late" \notin use => r.dev.lostTicks = 0
    BY <2>2 DEF CmosSound
  <2>13. "decimal" \notin use => h \in 0 .. 23 /\ r.dev.hour = h
    BY <2>2 DEF CmosSound, SameClock
  <2>14. CmosSound(r.dev, n + 1, b, s, h, T, use, t)
    BY <2>5, <2>6, <2>8, <2>9, <2>10, <2>11, <2>12, <2>13 DEF CmosSound
  <2> QED BY <2>2, <2>8, <2>14
<1>6. CmosDue(c) \in Nat
  BY <1>1 DEF CmosDue, CmosPeriod
<1> QED BY <1>1, <1>2, <1>3, <1>4, <1>5, <1>6

\* All of them, for devices m, counts n, beginnings b at time t.
Sound(m, n, b, T, use, t) ==
    /\ PitSound(m.pit, n["pit"], b["pit"], T, use, t)
    /\ CmosSound(m.cmos, n["cmos"], b["cmos"], b["seconds"], b["hour"], T, use, t)
    /\ PtimerSound(m.ptimer, n["ptimer"], b["ptimer"], T, use, t)
    /\ PcrtcSound(m.pcrtc, n["pcrtc"], b["pcrtc"], T, use, t)
    /\ UsbSound(m.usb, n["usb"], b["usb"], T, use, t)

AllAhead(m, T, use, t) ==
    /\ Prompt("pit", T, use) => PitAhead(m.pit, t)
    /\ Prompt("cmos", T, use) => CmosAhead(m.cmos, t)
    /\ Prompt("ptimer", T, use) => PtimerAhead(m.ptimer, t)
    /\ Prompt("pcrtc", T, use) => PcrtcAhead(m.pcrtc, t)
    /\ Prompt("usb", T, use) => UsbAhead(m.usb, t)

BegunSet == [Devices \cup {"seconds", "hour"} -> Nat]

\* The inductive invariant of the timers.
TimersInv ==
    /\ TimersOK
    /\ Sound(dev, raised, begun, trailing, doing, now)
    /\ AllAhead(dev, trailing, doing, deadline)

\* A poll keeps them, and lets the CPU run no further than the next event.
LEMMA PollKeeps ==
    ASSUME now \in Nat, NEW m, DevOK(m, now), NEW n \in [Devices -> Nat], NEW b \in BegunSet, NEW T, NEW use,
           Poll(m, n), Sound(m, n, b, T, use, now)
    PROVE  /\ DevOK(dev', now) /\ raised' \in [Devices -> Nat] /\ deadline' \in Nat
           /\ Sound(dev', raised', b, T, use, now)
           /\ AllAhead(dev', T, use, deadline')
<1>1. /\ DevOK(dev', now) /\ raised' \in [Devices -> Nat] /\ deadline' \in Nat
      /\ dev'.pit = PitPoll(m.pit, now).dev /\ dev'.cmos = CmosPoll(m.cmos, now).dev
      /\ dev'.ptimer = PtimerPoll(m.ptimer, now).dev /\ dev'.pcrtc = PcrtcPoll(m.pcrtc, now).dev
      /\ dev'.usb = UsbPoll(m.usb, now).dev
      /\ deadline' <= now + PitPoll(m.pit, now).in /\ deadline' <= now + CmosPoll(m.cmos, now).in
      /\ deadline' <= now + PtimerPoll(m.ptimer, now).in /\ deadline' <= now + PcrtcPoll(m.pcrtc, now).in
      /\ deadline' <= now + UsbPoll(m.usb, now).in
      /\ raised'["pit"] = IF PitPoll(m.pit, now).event THEN n["pit"] + 1 ELSE n["pit"]
      /\ raised'["cmos"] = IF CmosPoll(m.cmos, now).event THEN n["cmos"] + 1 ELSE n["cmos"]
      /\ raised'["ptimer"] = IF PtimerPoll(m.ptimer, now).event THEN n["ptimer"] + 1 ELSE n["ptimer"]
      /\ raised'["pcrtc"] = IF PcrtcPoll(m.pcrtc, now).event THEN n["pcrtc"] + 1 ELSE n["pcrtc"]
      /\ raised'["usb"] = IF UsbPoll(m.usb, now).event THEN n["usb"] + 1 ELSE n["usb"]
  BY PollEach, Zenon
<1>2. /\ n["pit"] \in Nat /\ n["cmos"] \in Nat /\ n["ptimer"] \in Nat /\ n["pcrtc"] \in Nat /\ n["usb"] \in Nat
      /\ b["pit"] \in Nat /\ b["cmos"] \in Nat /\ b["ptimer"] \in Nat /\ b["pcrtc"] \in Nat /\ b["usb"] \in Nat
      /\ b["seconds"] \in Nat
  BY DEF Devices, BegunSet
<1>3. m.pit \in PitSet /\ CmosOK(m.cmos, now) /\ m.ptimer \in PtimerSet /\ m.pcrtc \in PcrtcSet /\ m.usb \in UsbSet
  BY DEF DevOK
<1>4. /\ PitSound(m.pit, n["pit"], b["pit"], T, use, now)
      /\ CmosSound(m.cmos, n["cmos"], b["cmos"], b["seconds"], b["hour"], T, use, now)
      /\ PtimerSound(m.ptimer, n["ptimer"], b["ptimer"], T, use, now)
      /\ PcrtcSound(m.pcrtc, n["pcrtc"], b["pcrtc"], T, use, now)
      /\ UsbSound(m.usb, n["usb"], b["usb"], T, use, now)
  BY DEF Sound
<1>5. /\ PitSound(dev'.pit, raised'["pit"], b["pit"], T, use, now)
      /\ Prompt("pit", T, use) => PitAhead(dev'.pit, now + PitPoll(m.pit, now).in)
  <2>1. PICK r : r = PitPoll(m.pit, now)
    OBVIOUS
  <2>2. /\ PitSound(r.dev, IF r.event THEN n["pit"] + 1 ELSE n["pit"], b["pit"], T, use, now)
        /\ Prompt("pit", T, use) => PitAhead(r.dev, now + r.in)
    BY <1>2, <1>3, <1>4, <2>1, PitPollSound, Zenon
  <2> QED BY <1>1, <2>1, <2>2, Zenon
<1>6. /\ CmosSound(dev'.cmos, raised'["cmos"], b["cmos"], b["seconds"], b["hour"], T, use, now)
      /\ "late" \notin use /\ "cmos" \notin T => CmosAhead(dev'.cmos, now + CmosPoll(m.cmos, now).in)
  <2>1. PICK r : r = CmosPoll(m.cmos, now)
    OBVIOUS
  <2>2. /\ CmosSound(r.dev, IF r.event THEN n["cmos"] + 1 ELSE n["cmos"], b["cmos"], b["seconds"], b["hour"], T, use, now)
        /\ "late" \notin use /\ "cmos" \notin T => CmosAhead(r.dev, now + r.in)
    BY <1>2, <1>3, <1>4, <2>1, CmosPollSound, Zenon
  <2> QED BY <1>1, <2>1, <2>2, Zenon
<1>7. /\ PtimerSound(dev'.ptimer, raised'["ptimer"], b["ptimer"], T, use, now)
      /\ Prompt("ptimer", T, use) => PtimerAhead(dev'.ptimer, now + PtimerPoll(m.ptimer, now).in)
  BY <1>1, <1>2, <1>3, <1>4, PtimerPollSound, ZenonT(40)
<1>8. /\ PcrtcSound(dev'.pcrtc, raised'["pcrtc"], b["pcrtc"], T, use, now)
      /\ Prompt("pcrtc", T, use) => PcrtcAhead(dev'.pcrtc, now + PcrtcPoll(m.pcrtc, now).in)
  BY <1>1, <1>2, <1>3, <1>4, PcrtcPollSound, ZenonT(40)
<1>9. /\ UsbSound(dev'.usb, raised'["usb"], b["usb"], T, use, now)
      /\ Prompt("usb", T, use) => UsbAhead(dev'.usb, now + UsbPoll(m.usb, now).in)
  BY <1>1, <1>2, <1>3, <1>4, UsbPollSound, ZenonT(40)
<1>10. Sound(dev', raised', b, T, use, now)
  BY <1>5, <1>6, <1>7, <1>8, <1>9 DEF Sound
<1>11. AllAhead(dev', T, use, deadline')
  <2>1. /\ PitPoll(m.pit, now).in \in Nat /\ PtimerPoll(m.ptimer, now).in \in Nat
        /\ PcrtcPoll(m.pcrtc, now).in \in Nat /\ UsbPoll(m.usb, now).in \in Nat /\ CmosPoll(m.cmos, now).in \in Nat
    BY <1>3, PollsTyped, CmosPollTyped
  <2>2. Prompt("pit", T, use) => PitAhead(dev'.pit, deadline')
    <3>1. dev'.pit.last + dev'.pit.counter \in Nat
      BY <1>1 DEF DevOK, PitSet
    <3> QED BY <1>1, <1>5, <2>1, <3>1 DEF PitAhead
  <2>3. Prompt("cmos", T, use) => CmosAhead(dev'.cmos, deadline')
    <3>1. CmosDue(dev'.cmos) \in Nat
      BY <1>1, CmosAssumption DEF DevOK, CmosOK, CmosSet, CmosDue, CmosPeriod
    <3> QED BY <1>1, <1>6, <2>1, <3>1 DEF CmosAhead, Prompt
  <2>4. Prompt("ptimer", T, use) => PtimerAhead(dev'.ptimer, deadline')
    <3>1. PtimerNext(dev'.ptimer) \in Nat
      BY <1>1, PtimerNextIs DEF DevOK
    <3> QED BY <1>1, <1>7, <2>1, <3>1 DEF PtimerAhead
  <2>5. Prompt("pcrtc", T, use) => PcrtcAhead(dev'.pcrtc, deadline')
    <3>1. dev'.pcrtc.last + Vblank \in Nat
      BY <1>1, TimersAssumption DEF DevOK, PcrtcSet
    <3> QED BY <1>1, <1>8, <2>1, <3>1 DEF PcrtcAhead
  <2>6. Prompt("usb", T, use) => UsbAhead(dev'.usb, deadline')
    <3>1. dev'.usb.sof + Frame \in Nat
      BY <1>1, OhciAssumption DEF DevOK, UsbSet
    <3> QED BY <1>1, <1>9, <2>1, <3>1 DEF UsbAhead
  <2> QED BY <2>2, <2>3, <2>4, <2>5, <2>6 DEF AllAhead
<1> QED BY <1>1, <1>10, <1>11

-----------------------------------------------------------------------------
(***************************************************************************)
(* The timers: every step keeps the invariant                              *)
(***************************************************************************)

\* a step that polls devices m
LEMMA ByPoll ==
    ASSUME TimersInv, NEW m, DevOK(m, now), NEW n \in [Devices -> Nat], Poll(m, n), now' = now, doing' = doing,
           begun' \in BegunSet, Sound(m, n, begun', trailing', doing, now)
    PROVE  TimersInv'
<1>1. PICK b, T : b = begun' /\ T = trailing'
  OBVIOUS
<1>2. b \in BegunSet /\ Sound(m, n, b, T, doing, now) /\ now \in Nat
  BY <1>1 DEF TimersInv, TimersOK
<1>3. /\ DevOK(dev', now) /\ raised' \in [Devices -> Nat] /\ deadline' \in Nat
      /\ Sound(dev', raised', b, T, doing, now) /\ AllAhead(dev', T, doing, deadline')
  BY <1>2, PollKeeps
<1> QED BY <1>1, <1>2, <1>3 DEF TimersInv, TimersOK, BegunSet

\* a step that does not poll
LEMMA ByHand ==
    ASSUME TimersInv, NEW m, dev' = m, DevOK(m, now), NEW n \in [Devices -> Nat], raised' = n, now' = now, doing' = doing,
           deadline' = deadline, begun' \in BegunSet, Sound(m, n, begun', trailing', doing, now),
           AllAhead(m, trailing', doing, deadline)
    PROVE  TimersInv'
BY DEF TimersInv, TimersOK, BegunSet

\* what a step leaves alone stays as it was
LEMMA Alone ==
    ASSUME TimersInv, NEW m, NEW n, NEW b, NEW T
    PROVE  /\ m.pit = dev.pit /\ n["pit"] = raised["pit"] /\ b["pit"] = begun["pit"] /\ ("pit" \in trailing => "pit" \in T) =>
                /\ PitSound(m.pit, n["pit"], b["pit"], T, doing, now)
                /\ Prompt("pit", T, doing) => PitAhead(m.pit, deadline)
           /\ m.cmos = dev.cmos /\ n["cmos"] = raised["cmos"] /\ ("cmos" \in T <=> "cmos" \in trailing)
                /\ b["cmos"] = begun["cmos"] /\ b["seconds"] = begun["seconds"] /\ b["hour"] = begun["hour"] =>
                /\ CmosSound(m.cmos, n["cmos"], b["cmos"], b["seconds"], b["hour"], T, doing, now)
                /\ Prompt("cmos", T, doing) => CmosAhead(m.cmos, deadline)
           /\ m.ptimer = dev.ptimer /\ n["ptimer"] = raised["ptimer"] /\ b["ptimer"] = begun["ptimer"]
                /\ {"ptimer", "alarm"} \cap trailing \subseteq T =>
                /\ PtimerSound(m.ptimer, n["ptimer"], b["ptimer"], T, doing, now)
                /\ Prompt("ptimer", T, doing) => PtimerAhead(m.ptimer, deadline)
           /\ m.pcrtc = dev.pcrtc /\ n["pcrtc"] = raised["pcrtc"] /\ b["pcrtc"] = begun["pcrtc"] /\ ("pcrtc" \in trailing => "pcrtc" \in T) =>
                /\ PcrtcSound(m.pcrtc, n["pcrtc"], b["pcrtc"], T, doing, now)
                /\ Prompt("pcrtc", T, doing) => PcrtcAhead(m.pcrtc, deadline)
           /\ m.usb = dev.usb /\ n["usb"] = raised["usb"] /\ b["usb"] = begun["usb"] /\ {"usb", "line"} \cap trailing \subseteq T =>
                /\ UsbSound(m.usb, n["usb"], b["usb"], T, doing, now)
                /\ Prompt("usb", T, doing) => UsbAhead(m.usb, deadline)
<1>1. /\ PitSound(dev.pit, raised["pit"], begun["pit"], trailing, doing, now)
      /\ CmosSound(dev.cmos, raised["cmos"], begun["cmos"], begun["seconds"], begun["hour"], trailing, doing, now)
      /\ PtimerSound(dev.ptimer, raised["ptimer"], begun["ptimer"], trailing, doing, now)
      /\ PcrtcSound(dev.pcrtc, raised["pcrtc"], begun["pcrtc"], trailing, doing, now)
      /\ UsbSound(dev.usb, raised["usb"], begun["usb"], trailing, doing, now)
  BY DEF TimersInv, Sound
<1>2. AllAhead(dev, trailing, doing, deadline)
  BY DEF TimersInv
<1>3. m.pit = dev.pit /\ n["pit"] = raised["pit"] /\ b["pit"] = begun["pit"] /\ ("pit" \in trailing => "pit" \in T) =>
        /\ PitSound(m.pit, n["pit"], b["pit"], T, doing, now)
        /\ Prompt("pit", T, doing) => PitAhead(m.pit, deadline)
  BY <1>1, <1>2 DEF PitSound, AllAhead, Prompt
<1>4. m.cmos = dev.cmos /\ n["cmos"] = raised["cmos"] /\ ("cmos" \in T <=> "cmos" \in trailing)
        /\ b["cmos"] = begun["cmos"] /\ b["seconds"] = begun["seconds"] /\ b["hour"] = begun["hour"] =>
        /\ CmosSound(m.cmos, n["cmos"], b["cmos"], b["seconds"], b["hour"], T, doing, now)
        /\ Prompt("cmos", T, doing) => CmosAhead(m.cmos, deadline)
  <2> SUFFICES ASSUME m.cmos = dev.cmos, n["cmos"] = raised["cmos"], "cmos" \in T <=> "cmos" \in trailing,
                      b["cmos"] = begun["cmos"], b["seconds"] = begun["seconds"], b["hour"] = begun["hour"]
               PROVE  /\ CmosSound(dev.cmos, raised["cmos"], begun["cmos"], begun["seconds"], begun["hour"], T, doing, now)
                      /\ Prompt("cmos", T, doing) => CmosAhead(dev.cmos, deadline)
    OBVIOUS
  <2>1. CmosSound(dev.cmos, raised["cmos"], begun["cmos"], begun["seconds"], begun["hour"], T, doing, now)
    BY <1>1 DEF CmosSound
  <2>2. Prompt("cmos", T, doing) => CmosAhead(dev.cmos, deadline)
    BY <1>2 DEF AllAhead, Prompt
  <2> QED BY <2>1, <2>2
<1>5. m.ptimer = dev.ptimer /\ n["ptimer"] = raised["ptimer"] /\ b["ptimer"] = begun["ptimer"]
        /\ {"ptimer", "alarm"} \cap trailing \subseteq T =>
        /\ PtimerSound(m.ptimer, n["ptimer"], b["ptimer"], T, doing, now)
        /\ Prompt("ptimer", T, doing) => PtimerAhead(m.ptimer, deadline)
  <2> SUFFICES ASSUME m.ptimer = dev.ptimer, n["ptimer"] = raised["ptimer"], b["ptimer"] = begun["ptimer"],
                      {"ptimer", "alarm"} \cap trailing \subseteq T
               PROVE  /\ PtimerSound(dev.ptimer, raised["ptimer"], begun["ptimer"], T, doing, now)
                      /\ Prompt("ptimer", T, doing) => PtimerAhead(dev.ptimer, deadline)
    OBVIOUS
  <2>1. PtimerSound(dev.ptimer, raised["ptimer"], begun["ptimer"], T, doing, now)
    BY <1>1 DEF PtimerSound, Prompt
  <2>2. Prompt("ptimer", T, doing) => PtimerAhead(dev.ptimer, deadline)
    BY <1>2 DEF AllAhead, Prompt
  <2> QED BY <2>1, <2>2
<1>6. m.pcrtc = dev.pcrtc /\ n["pcrtc"] = raised["pcrtc"] /\ b["pcrtc"] = begun["pcrtc"] /\ ("pcrtc" \in trailing => "pcrtc" \in T) =>
        /\ PcrtcSound(m.pcrtc, n["pcrtc"], b["pcrtc"], T, doing, now)
        /\ Prompt("pcrtc", T, doing) => PcrtcAhead(m.pcrtc, deadline)
  BY <1>1, <1>2 DEF PcrtcSound, AllAhead, Prompt
<1>7. m.usb = dev.usb /\ n["usb"] = raised["usb"] /\ b["usb"] = begun["usb"] /\ {"usb", "line"} \cap trailing \subseteq T =>
        /\ UsbSound(m.usb, n["usb"], b["usb"], T, doing, now)
        /\ Prompt("usb", T, doing) => UsbAhead(m.usb, deadline)
  BY <1>1, <1>2 DEF UsbSound, AllAhead, Prompt
<1> QED BY <1>3, <1>4, <1>5, <1>6, <1>7

\* The time passes.
LEMMA RunKeeps == ASSUME TimersInv, Run PROVE TimersInv'
<1>1. /\ now' = now + 1 /\ UNCHANGED <<deadline, dev, raised, begun, trailing, doing>>
      /\ now \in Nat /\ deadline \in Nat /\ MaxLate \in Nat
      /\ "late" \notin doing => now + 1 <= deadline
  BY TimersAssumption DEF Run, TimersInv, TimersOK
<1>2. DevOK(dev, now) /\ raised \in [Devices -> Nat] /\ begun \in BegunSet
  BY DEF TimersInv, TimersOK, BegunSet
<1>3. DevOK(dev, now')
  <2>1. dev.cmos.lastInt \in Nat /\ dev.cmos.lastClock \in Nat
    BY <1>2 DEF DevOK, CmosOK, CmosSet
  <2>2. CmosOK(dev.cmos, now')
    BY <1>1, <1>2, <2>1 DEF DevOK, CmosOK
  <2> QED BY <1>2, <2>2 DEF DevOK
<1>4. /\ raised["pit"] \in Nat /\ raised["cmos"] \in Nat /\ raised["ptimer"] \in Nat /\ raised["pcrtc"] \in Nat /\ raised["usb"] \in Nat
      /\ begun["pit"] \in Nat /\ begun["cmos"] \in Nat /\ begun["ptimer"] \in Nat /\ begun["pcrtc"] \in Nat /\ begun["usb"] \in Nat
  BY <1>2 DEF Devices, BegunSet
<1>5. ASSUME NEW x, NEW n \in Nat, NEW p \in Nat, NEW b \in Nat, Beats(x, n, p, b, now)
      PROVE  Beats(x, n, p, b, now')
  <2>1. n * p \in Nat
    BY <1>5
  <2> QED BY <1>1, <1>5, <2>1 DEF Beats
<1>6. /\ PitSound(dev.pit, raised["pit"], begun["pit"], trailing, doing, now)
      /\ CmosSound(dev.cmos, raised["cmos"], begun["cmos"], begun["seconds"], begun["hour"], trailing, doing, now)
      /\ PtimerSound(dev.ptimer, raised["ptimer"], begun["ptimer"], trailing, doing, now)
      /\ PcrtcSound(dev.pcrtc, raised["pcrtc"], begun["pcrtc"], trailing, doing, now)
      /\ UsbSound(dev.usb, raised["usb"], begun["usb"], trailing, doing, now)
      /\ AllAhead(dev, trailing, doing, deadline)
  BY DEF TimersInv, Sound
<1>7. PitSound(dev.pit, raised["pit"], begun["pit"], trailing, doing, now')
  <2>1. dev.pit.last \in Nat /\ dev.pit.counter \in Nat
    BY <1>2 DEF DevOK, PitSet
  <2>2. Prompt("pit", trailing, doing) => PitAhead(dev.pit, now')
    BY <1>1, <1>6, <2>1 DEF AllAhead, Prompt, PitAhead
  <2> QED BY <1>4, <1>5, <1>6, <2>1, <2>2 DEF PitSound
<1>8. CmosSound(dev.cmos, raised["cmos"], begun["cmos"], begun["seconds"], begun["hour"], trailing, doing, now')
  <2>1. CmosDue(dev.cmos) \in Nat /\ CmosPeriod(dev.cmos) \in Nat
    BY <1>2, CmosAssumption DEF DevOK, CmosOK, CmosSet, CmosDue, CmosPeriod
  <2>2. "late" \notin doing /\ "cmos" \notin trailing => CmosAhead(dev.cmos, now')
    BY <1>1, <1>6, <2>1 DEF AllAhead, Prompt, CmosAhead
  <2>3. "cmos" \notin trailing /\ ~(dev.cmos.int /\ "late" \in doing) /\ CmosRunning(dev.cmos) =>
            Beats(CmosDue(dev.cmos), raised["cmos"], CmosPeriod(dev.cmos), begun["cmos"], now')
    BY <1>4, <1>5, <1>6, <2>1 DEF CmosSound
  <2> QED BY <1>6, <2>2, <2>3 DEF CmosSound
<1>9. PtimerSound(dev.ptimer, raised["ptimer"], begun["ptimer"], trailing, doing, now')
  <2>1. PtimerNext(dev.ptimer) \in Nat /\ dev.ptimer.period \in Nat
    BY <1>2, PtimerNextIs, TimersAssumption DEF DevOK, PtimerSet
  <2>2. Prompt("ptimer", trailing, doing) => PtimerAhead(dev.ptimer, now')
    BY <1>1, <1>6, <2>1 DEF AllAhead, Prompt, PtimerAhead
  <2> QED BY <1>4, <1>5, <1>6, <2>1, <2>2 DEF PtimerSound
<1>10. PcrtcSound(dev.pcrtc, raised["pcrtc"], begun["pcrtc"], trailing, doing, now')
  <2>1. dev.pcrtc.last + Vblank \in Nat /\ Vblank \in Nat
    BY <1>2, TimersAssumption DEF DevOK, PcrtcSet
  <2>2. Prompt("pcrtc", trailing, doing) => PcrtcAhead(dev.pcrtc, now')
    BY <1>1, <1>6, <2>1 DEF AllAhead, Prompt, PcrtcAhead
  <2> QED BY <1>4, <1>5, <1>6, <2>1, <2>2 DEF PcrtcSound
<1>11. UsbSound(dev.usb, raised["usb"], begun["usb"], trailing, doing, now')
  <2>1. dev.usb.sof + Frame \in Nat /\ Frame \in Nat
    BY <1>2, OhciAssumption DEF DevOK, UsbSet
  <2>2. Prompt("usb", trailing, doing) => UsbAhead(dev.usb, now')
    BY <1>1, <1>6, <2>1 DEF AllAhead, Prompt, UsbAhead
  <2> QED BY <1>4, <1>5, <1>6, <2>1, <2>2 DEF UsbSound
<1>12. Sound(dev, raised, begun, trailing, doing, now')
  BY <1>7, <1>8, <1>9, <1>10, <1>11 DEF Sound
<1>13. now' \in Nat
  BY <1>1
<1> QED BY <1>1, <1>2, <1>3, <1>6, <1>12, <1>13 DEF TimersInv, TimersOK, BegunSet

\* the members of the invariant, by name
LEMMA Parts ==
    ASSUME TimersInv
    PROVE  /\ now \in Nat /\ deadline \in Nat /\ DevOK(dev, now) /\ raised \in [Devices -> Nat] /\ begun \in BegunSet
           /\ DOMAIN dev = Devices /\ dev.pit \in PitSet /\ CmosOK(dev.cmos, now) /\ dev.cmos \in CmosSet
           /\ dev.ptimer \in PtimerSet /\ dev.pcrtc \in PcrtcSet /\ dev.usb \in UsbSet
           /\ \A d \in Devices : raised[d] \in Nat /\ begun[d] \in Nat /\ Restarted(d) \in [Devices -> Nat]
           /\ \A d \in Devices : Restarted(d)[d] = 0 /\ \A e \in Devices \ {d} : Restarted(d)[e] = raised[e]
           /\ Sound(dev, raised, begun, trailing, doing, now) /\ AllAhead(dev, trailing, doing, deadline)
BY DEF TimersInv, TimersOK, DevOK, CmosOK, BegunSet, Restarted

\* where a rhythm begins
LEMMA Beginning ==
    ASSUME TimersInv, NEW d \in Devices, Begins(d)
    PROVE  /\ begun' \in BegunSet /\ begun'[d] = now /\ begun'["hour"] = begun["hour"]
           /\ \A e \in Devices \ {d} : begun'[e] = begun[e]
           /\ begun'["seconds"] = IF d = "cmos" THEN dev.cmos.sys ELSE begun["seconds"]
<1>1. begun \in BegunSet /\ now \in Nat /\ dev.cmos.sys \in Nat
  BY Parts DEF CmosSet
<1> QED BY <1>1 DEF Begins, BegunSet, Devices

\* a step that concerns device d leaves the others alone
Others(d, m, n, b, T) ==
    /\ d # "pit" => m.pit = dev.pit /\ n["pit"] = raised["pit"] /\ b["pit"] = begun["pit"] /\ ("pit" \in trailing => "pit" \in T)
    /\ d # "cmos" => m.cmos = dev.cmos /\ n["cmos"] = raised["cmos"] /\ b["cmos"] = begun["cmos"] /\ ("cmos" \in T <=> "cmos" \in trailing)
    /\ d # "ptimer" => m.ptimer = dev.ptimer /\ n["ptimer"] = raised["ptimer"] /\ b["ptimer"] = begun["ptimer"] /\ {"ptimer", "alarm"} \cap trailing \subseteq T
    /\ d # "pcrtc" => m.pcrtc = dev.pcrtc /\ n["pcrtc"] = raised["pcrtc"] /\ b["pcrtc"] = begun["pcrtc"] /\ ("pcrtc" \in trailing => "pcrtc" \in T)
    /\ d # "usb" => m.usb = dev.usb /\ n["usb"] = raised["usb"] /\ b["usb"] = begun["usb"] /\ {"usb", "line"} \cap trailing \subseteq T
    /\ d # "cmos" => b["seconds"] = begun["seconds"] /\ b["hour"] = begun["hour"]

OwnSound(d, m, n, b, T) ==
    /\ d = "pit" => PitSound(m.pit, n["pit"], b["pit"], T, doing, now)
    /\ d = "cmos" => CmosSound(m.cmos, n["cmos"], b["cmos"], b["seconds"], b["hour"], T, doing, now)
    /\ d = "ptimer" => PtimerSound(m.ptimer, n["ptimer"], b["ptimer"], T, doing, now)
    /\ d = "pcrtc" => PcrtcSound(m.pcrtc, n["pcrtc"], b["pcrtc"], T, doing, now)
    /\ d = "usb" => UsbSound(m.usb, n["usb"], b["usb"], T, doing, now)

OwnAhead(d, m, T) ==
    /\ d = "pit" /\ Prompt("pit", T, doing) => PitAhead(m.pit, deadline)
    /\ d = "cmos" /\ Prompt("cmos", T, doing) => CmosAhead(m.cmos, deadline)
    /\ d = "ptimer" /\ Prompt("ptimer", T, doing) => PtimerAhead(m.ptimer, deadline)
    /\ d = "pcrtc" /\ Prompt("pcrtc", T, doing) => PcrtcAhead(m.pcrtc, deadline)
    /\ d = "usb" /\ Prompt("usb", T, doing) => UsbAhead(m.usb, deadline)

LEMMA OneStep ==
    ASSUME TimersInv, NEW d \in Devices, NEW m, DevOK(m, now), NEW n \in [Devices -> Nat], begun' \in BegunSet,
           now' = now, doing' = doing, Others(d, m, n, begun', trailing'), OwnSound(d, m, n, begun', trailing'),
           \/ Poll(m, n)
           \/ dev' = m /\ raised' = n /\ deadline' = deadline /\ OwnAhead(d, m, trailing')
    PROVE  TimersInv'
<1>1. PICK b, T : b = begun' /\ T = trailing'
  OBVIOUS
<1>2. Others(d, m, n, b, T) /\ OwnSound(d, m, n, b, T) /\ (OwnAhead(d, m, T) <=> OwnAhead(d, m, trailing'))
  BY <1>1
<1>3. PitSound(m.pit, n["pit"], b["pit"], T, doing, now) /\ (OwnAhead(d, m, T) /\ Prompt("pit", T, doing) => PitAhead(m.pit, deadline))
  <2>1. CASE d = "pit"
    BY <1>2, <2>1 DEF OwnSound, OwnAhead
  <2>2. CASE d # "pit"
    BY <1>2, <2>2, Alone DEF Others
  <2> QED BY <2>1, <2>2
<1>4. CmosSound(m.cmos, n["cmos"], b["cmos"], b["seconds"], b["hour"], T, doing, now) /\ (OwnAhead(d, m, T) /\ Prompt("cmos", T, doing) => CmosAhead(m.cmos, deadline))
  <2>1. CASE d = "cmos"
    BY <1>2, <2>1 DEF OwnSound, OwnAhead
  <2>2. CASE d # "cmos"
    BY <1>2, <2>2, Alone DEF Others
  <2> QED BY <2>1, <2>2
<1>5. PtimerSound(m.ptimer, n["ptimer"], b["ptimer"], T, doing, now) /\ (OwnAhead(d, m, T) /\ Prompt("ptimer", T, doing) => PtimerAhead(m.ptimer, deadline))
  <2>1. CASE d = "ptimer"
    BY <1>2, <2>1 DEF OwnSound, OwnAhead
  <2>2. CASE d # "ptimer"
    BY <1>2, <2>2, Alone DEF Others
  <2> QED BY <2>1, <2>2
<1>6. PcrtcSound(m.pcrtc, n["pcrtc"], b["pcrtc"], T, doing, now) /\ (OwnAhead(d, m, T) /\ Prompt("pcrtc", T, doing) => PcrtcAhead(m.pcrtc, deadline))
  <2>1. CASE d = "pcrtc"
    BY <1>2, <2>1 DEF OwnSound, OwnAhead
  <2>2. CASE d # "pcrtc"
    BY <1>2, <2>2, Alone DEF Others
  <2> QED BY <2>1, <2>2
<1>7. UsbSound(m.usb, n["usb"], b["usb"], T, doing, now) /\ (OwnAhead(d, m, T) /\ Prompt("usb", T, doing) => UsbAhead(m.usb, deadline))
  <2>1. CASE d = "usb"
    BY <1>2, <2>1 DEF OwnSound, OwnAhead
  <2>2. CASE d # "usb"
    BY <1>2, <2>2, Alone DEF Others
  <2> QED BY <2>1, <2>2
<1>8. Sound(m, n, b, T, doing, now)
  BY <1>3, <1>4, <1>5, <1>6, <1>7 DEF Sound
<1>9. CASE Poll(m, n)
  BY <1>1, <1>8, <1>9, ByPoll
<1>10. CASE dev' = m /\ raised' = n /\ deadline' = deadline /\ OwnAhead(d, m, trailing')
  <2>1. AllAhead(m, T, doing, deadline)
    BY <1>2, <1>3, <1>4, <1>5, <1>6, <1>7, <1>10 DEF AllAhead
  <2> QED BY <1>1, <1>8, <1>10, <2>1, ByHand
<1> QED BY <1>9, <1>10

\* cpu_run_until has returned; the other channels of the PIT
LEMMA TimeoutKeeps == ASSUME TimersInv, Timeout \/ PitOther PROVE TimersInv'
<1>1. Poll(dev, raised) /\ now' = now /\ doing' = doing /\ begun' = begun /\ trailing' = trailing
  BY DEF Timeout, PitOther
<1>2. /\ DevOK(dev, now) /\ raised \in [Devices -> Nat] /\ begun' \in BegunSet
      /\ Sound(dev, raised, begun', trailing', doing, now)
  BY <1>1, Parts
<1> QED BY <1>1, <1>2, ByPoll

LEMMA PitHighKeeps == ASSUME TimersInv, NEW high \in Highs, PitHigh(high) PROVE TimersInv'
<1>1. PICK m : m = [dev EXCEPT !.pit.counter = @ + high, !.pit.lsb = FALSE, !.pit.running = TRUE, !.pit.last = now]
  OBVIOUS
<1>2. Poll(m, Restarted("pit")) /\ Begins("pit") /\ now' = now /\ doing' = doing /\ trailing' = trailing
  BY <1>1 DEF PitHigh, StartTimer
<1>3. DevOK(dev, now) /\ now \in Nat /\ high \in Nat /\ dev.pit \in PitSet /\ Restarted("pit") \in [Devices -> Nat]
  BY Parts, TimersAssumption DEF Devices
<1>4. /\ m.cmos = dev.cmos /\ m.ptimer = dev.ptimer /\ m.pcrtc = dev.pcrtc /\ m.usb = dev.usb /\ DOMAIN m = Devices
      /\ m.pit \in PitSet /\ m.pit.last = now
  <2>1. DOMAIN dev = Devices /\ "pit" \in Devices
    BY <1>3 DEF DevOK, Devices
  <2>2. m.cmos = dev.cmos /\ m.ptimer = dev.ptimer /\ m.pcrtc = dev.pcrtc /\ m.usb = dev.usb /\ DOMAIN m = Devices
    BY <1>1, <2>1 DEF Devices
  <2>3. m.pit = [dev.pit EXCEPT !.counter = @ + high, !.lsb = FALSE, !.running = TRUE, !.last = now]
    BY <1>1, <2>1
  <2>4. m.pit \in PitSet /\ m.pit.last = now
    <3>1. PICK k \in Nat : k = dev.pit.counter + high
      BY <1>3 DEF PitSet
    <3>2. m.pit = [dev.pit EXCEPT !.counter = k, !.lsb = FALSE, !.running = TRUE, !.last = now]
      BY <2>3, <3>1
    <3> QED BY <1>3, <3>2 DEF PitSet
  <2> QED BY <2>2, <2>4
<1>5. DevOK(m, now)
  BY <1>3, <1>4 DEF DevOK
<1>6. begun' \in BegunSet /\ Others("pit", m, Restarted("pit"), begun', trailing')
  BY <1>2, <1>4, Beginning, Parts DEF Devices, Others
<1>7. OwnSound("pit", m, Restarted("pit"), begun', trailing')
  <2>1. m.pit.counter \in Nat /\ begun'["pit"] = now /\ Restarted("pit")["pit"] = 0
    BY <1>2, <1>4, Beginning, Parts DEF PitSet, Devices
  <2>2. Beats(m.pit.last + m.pit.counter, 0, m.pit.counter, now, now) /\ PitAhead(m.pit, now)
    BY <1>3, <1>4, <2>1 DEF Beats, PitAhead
  <2>3. PitSound(m.pit, 0, now, trailing', doing, now)
    BY <2>2 DEF PitSound
  <2> QED BY <2>1, <2>3 DEF OwnSound
<1> QED BY <1>2, <1>3, <1>5, <1>6, <1>7, OneStep DEF Devices

\* writes of the PIT that do not poll
LEMMA PitCommandKeeps == ASSUME TimersInv, PitCommand PROVE TimersInv'
<1>1. PICK m : m = [dev EXCEPT !.pit.ready = TRUE]
  OBVIOUS
<1>2. dev' = m /\ UNCHANGED <<now, deadline, raised, begun, trailing, doing>>
  BY <1>1 DEF PitCommand, Quietly
<1>3. DOMAIN dev = Devices /\ "pit" \in Devices /\ dev.pit \in PitSet /\ DevOK(dev, now)
  BY Parts DEF Devices
<1>4. m.cmos = dev.cmos /\ m.ptimer = dev.ptimer /\ m.pcrtc = dev.pcrtc /\ m.usb = dev.usb /\ DOMAIN m = Devices
  BY <1>1, <1>3 DEF Devices
<1>5. m.pit = [dev.pit EXCEPT !.ready = TRUE]
  BY <1>1, <1>3
<1>6. /\ m.pit \in PitSet /\ m.pit.running = dev.pit.running /\ m.pit.lsb = dev.pit.lsb
      /\ m.pit.counter = dev.pit.counter /\ m.pit.last = dev.pit.last
  BY <1>3, <1>5 DEF PitSet
<1>7. DevOK(m, now)
  BY <1>3, <1>4, <1>6 DEF DevOK
<1>8. Others("pit", m, raised, begun', trailing')
  BY <1>2, <1>4 DEF Others
<1>9. OwnSound("pit", m, raised, begun', trailing') /\ OwnAhead("pit", m, trailing')
  <2>1. PitSound(dev.pit, raised["pit"], begun["pit"], trailing, doing, now) /\ (Prompt("pit", trailing, doing) => PitAhead(dev.pit, deadline))
    BY Parts DEF Sound, AllAhead
  <2> QED BY <1>2, <1>6, <2>1 DEF PitSound, PitAhead, OwnSound, OwnAhead
<1> QED BY <1>2, <1>3, <1>7, <1>8, <1>9, Parts, OneStep

LEMMA PitLowKeeps == ASSUME TimersInv, NEW low \in Lows, PitLow(low) PROVE TimersInv'
<1>1. PICK m : m = [dev EXCEPT !.pit.counter = low, !.pit.lsb = TRUE]
  OBVIOUS
<1>2. dev' = m /\ UNCHANGED <<now, deadline, raised, begun, trailing, doing>> /\ low \in Nat
  BY <1>1, TimersAssumption DEF PitLow, Quietly
<1>3. DOMAIN dev = Devices /\ "pit" \in Devices /\ dev.pit \in PitSet /\ DevOK(dev, now)
  BY Parts DEF Devices
<1>4. m.cmos = dev.cmos /\ m.ptimer = dev.ptimer /\ m.pcrtc = dev.pcrtc /\ m.usb = dev.usb /\ DOMAIN m = Devices
  BY <1>1, <1>3 DEF Devices
<1>5. m.pit = [dev.pit EXCEPT !.counter = low, !.lsb = TRUE]
  BY <1>1, <1>3
<1>6. m.pit \in PitSet /\ m.pit.lsb
  BY <1>2, <1>3, <1>5 DEF PitSet
<1>7. DevOK(m, now)
  BY <1>3, <1>4, <1>6 DEF DevOK
<1>8. Others("pit", m, raised, begun', trailing')
  BY <1>2, <1>4 DEF Others
<1>9. OwnSound("pit", m, raised, begun', trailing') /\ OwnAhead("pit", m, trailing')
  BY <1>6 DEF PitSound, PitAhead, OwnSound, OwnAhead
<1> QED BY <1>2, <1>3, <1>7, <1>8, <1>9, Parts, OneStep

\* what a write to registers A and B starts
Starts(c, d) == (d.int /\ ~c.int) \/ (d.clock /\ ~c.clock /\ ~d.int)

LEMMA ControlSound ==
    ASSUME NEW c, NEW d, NEW n, NEW b0, NEW s, NEW h, NEW T, NEW use, NEW t \in Nat, CmosOK(c, t), CmosOK(d, t),
           CmosSound(c, n, b0, s, h, T, use, t), d.int => "periodic" \in use,
           IF d.int /\ ~c.int THEN d.lastInt = t ELSE d.lastInt = c.lastInt /\ d.period = c.period /\ d.max = c.max,
           d.lastClock = IF ~c.clock /\ d.clock THEN t ELSE c.lastClock,
           d.sys = c.sys /\ d.lostUs = c.lostUs /\ d.lostTicks = c.lostTicks /\ d.hour = c.hour
    PROVE  /\ Starts(c, d) => CmosSound(d, 0, t, c.sys, h, T \ {"cmos"}, use, t)
           /\ ~Starts(c, d) =>
                CmosSound(d, n, b0, s, h, IF c.int /\ ~d.int THEN T \cup {"cmos"} ELSE T, use, t)
           /\ ~Starts(c, d) /\ ~(c.int /\ ~d.int) /\ CmosRunning(d) => CmosRunning(c) /\ CmosDue(d) = CmosDue(c)
<1>1. /\ c.int \in BOOLEAN /\ c.clock \in BOOLEAN /\ d.int \in BOOLEAN /\ d.clock \in BOOLEAN
      /\ d.period \in Nat /\ d.sys \in Nat /\ Second \in Nat
  BY CmosAssumption DEF CmosOK, CmosSet
<1>2. ASSUME Starts(c, d) PROVE CmosSound(d, 0, t, c.sys, h, T \ {"cmos"}, use, t)
  <2>1. CmosDue(d) = CmosPeriod(d) + t /\ CmosPeriod(d) \in Nat
    BY <1>1, <1>2 DEF Starts, CmosDue, CmosPeriod
  <2>2. Beats(CmosDue(d), 0, CmosPeriod(d), t, t) /\ CmosAhead(d, t)
    BY <2>1 DEF Beats, CmosAhead
  <2>3. "cmos" \notin T \ {"cmos"}
    OBVIOUS
  <2>4. "late" \notin use => d.lostTicks = 0
    BY DEF CmosSound
  <2>5. "periodic" \notin use => ~d.int /\ d.sys >= c.sys + 0 /\ d.sys = c.sys + 0 /\ ("late" \notin use => d.lostUs = 0)
    BY <1>1 DEF CmosSound
  <2>6. "decimal" \notin use => h \in 0 .. 23 /\ d.hour = h
    BY DEF CmosSound
  <2> QED BY <2>2, <2>3, <2>4, <2>5, <2>6 DEF CmosSound
<1>3. ASSUME ~Starts(c, d), ~(c.int /\ ~d.int)
      PROVE  /\ d.int = c.int
             /\ CmosRunning(d) => CmosRunning(c) /\ CmosDue(d) = CmosDue(c) /\ CmosPeriod(d) = CmosPeriod(c)
             /\ d.clock /\ ~d.int => c.clock
  BY <1>1, <1>3 DEF Starts, CmosRunning, CmosDue, CmosPeriod
<1>4. ASSUME ~Starts(c, d), ~(c.int /\ ~d.int) PROVE CmosSound(d, n, b0, s, h, T, use, t)
  BY <1>1, <1>3, <1>4 DEF CmosSound, CmosAhead
<1>5. ASSUME c.int, ~d.int PROVE CmosSound(d, n, b0, s, h, T \cup {"cmos"}, use, t)
  BY <1>1, <1>5 DEF CmosSound
<1> QED BY <1>1, <1>2, <1>3, <1>4, <1>5

LEMMA CmosControlKeeps ==
    ASSUME TimersInv, NEW b \in SUBSET BFlags, NEW freq \in Freqs \cup {0}, CmosControl(b, freq)
    PROVE  TimersInv'
<1>1. PICK d : d = UpdateTimer([dev.cmos EXCEPT !.b = b, !.freq = freq], now)
  OBVIOUS
<1> DEFINE c == dev.cmos
           starts == (d.int /\ ~c.int) \/ (d.clock /\ ~c.clock /\ ~d.int)
           m == [dev EXCEPT !.cmos = d]
           n == IF starts THEN Restarted("cmos") ELSE raised
<1>2. /\ now \in Nat /\ CmosOK(c, now) /\ DevOK(dev, now) /\ DOMAIN dev = Devices /\ "cmos" \in Devices
      /\ raised \in [Devices -> Nat] /\ begun \in BegunSet /\ Restarted("cmos") \in [Devices -> Nat]
      /\ Restarted("cmos")["cmos"] = 0 /\ \A e \in Devices \ {"cmos"} : Restarted("cmos")[e] = raised[e]
      /\ CmosSound(c, raised["cmos"], begun["cmos"], begun["seconds"], begun["hour"], trailing, doing, now)
      /\ Prompt("cmos", trailing, doing) => CmosAhead(c, deadline)
  BY Parts DEF Devices, Sound, AllAhead
<1>3. /\ CmosOK(d, now)
      /\ d.int = (freq # 0 /\ "PIE" \in b) /\ d.clock = ("SET" \notin b)
      /\ IF d.int /\ ~c.int THEN d.lastInt = now ELSE d.lastInt = c.lastInt /\ d.period = c.period /\ d.max = c.max
      /\ d.lastClock = IF ~c.clock /\ d.clock THEN now ELSE c.lastClock
      /\ d.sys = c.sys /\ d.lostUs = c.lostUs /\ d.lostTicks = c.lostTicks /\ d.hour = c.hour
  <2>1. Controlled(dev.cmos, d, b, freq, now)
    BY <1>1, <1>2, ControlClock, Zenon
  <2> HIDE DEF c
  <2>2. Controlled(c, d, b, freq, now)
    BY <2>1 DEF c
  <2> QED BY <2>2 DEF Controlled
<1>4. /\ "PIE" \in b => "periodic" \in doing
      /\ IF starts THEN Begins("cmos") ELSE UNCHANGED begun
      /\ trailing' = IF starts THEN trailing \ {"cmos"} ELSE IF c.int /\ ~d.int THEN trailing \cup {"cmos"} ELSE trailing
      /\ IF TimerChanged(c, d) THEN Poll(m, n) /\ UNCHANGED <<now, doing>> ELSE Quietly(m)
  BY <1>1 DEF CmosControl
<1>5. starts <=> Starts(c, d)
  BY DEF Starts
<1>6. /\ starts => CmosSound(d, 0, now, c.sys, begun["hour"], trailing \ {"cmos"}, doing, now)
      /\ ~starts => CmosSound(d, raised["cmos"], begun["cmos"], begun["seconds"], begun["hour"],
                              IF c.int /\ ~d.int THEN trailing \cup {"cmos"} ELSE trailing, doing, now)
      /\ ~starts /\ ~(c.int /\ ~d.int) /\ CmosRunning(d) => CmosRunning(c) /\ CmosDue(d) = CmosDue(c)
  <2>1. d.int => "periodic" \in doing
    BY <1>3, <1>4
  <2> HIDE DEF c, starts
  <2> QED BY <1>2, <1>3, <1>5, <2>1, ControlSound
<1>7. m.pit = dev.pit /\ m.ptimer = dev.ptimer /\ m.pcrtc = dev.pcrtc /\ m.usb = dev.usb /\ m.cmos = d /\ DevOK(m, now)
  BY <1>2, <1>3, DevExcept DEF Devices
<1>8. starts => /\ begun' \in BegunSet /\ begun'["cmos"] = now /\ begun'["hour"] = begun["hour"] /\ begun'["seconds"] = c.sys
                /\ \A e \in Devices \ {"cmos"} : begun'[e] = begun[e]
  BY <1>2, <1>4, Beginning
<1> HIDE DEF c, starts, m
<1>9. begun' \in BegunSet /\ n \in [Devices -> Nat] /\ now' = now /\ doing' = doing
  BY <1>2, <1>4, <1>8 DEF Quietly
<1>10. Others("cmos", m, n, begun', trailing')
  BY <1>2, <1>4, <1>7, <1>8 DEF Others, Devices
<1>11. OwnSound("cmos", m, n, begun', trailing')
  BY <1>2, <1>4, <1>6, <1>7, <1>8 DEF OwnSound
<1>12. Poll(m, n) \/ (dev' = m /\ raised' = n /\ deadline' = deadline /\ OwnAhead("cmos", m, trailing'))
  <2>1. CASE TimerChanged(c, d)
    BY <1>4, <2>1
  <2>2. CASE ~TimerChanged(c, d)
    <3>1. ~starts /\ ~(c.int /\ ~d.int)
      BY <2>2 DEF TimerChanged, starts
    <3>2. trailing' = trailing /\ dev' = m /\ raised' = raised /\ deadline' = deadline
      BY <1>4, <2>2, <3>1 DEF Quietly
    <3>3. Prompt("cmos", trailing, doing) => CmosAhead(d, deadline)
      BY <1>2, <1>6, <3>1 DEF CmosAhead, c
    <3> QED BY <1>7, <3>1, <3>2, <3>3 DEF OwnAhead
  <2> QED BY <2>1, <2>2
<1>13. DevOK(m, now) /\ "cmos" \in Devices
  BY <1>2, <1>7
<1> HIDE DEF n
<1> QED BY <1>9, <1>10, <1>11, <1>12, <1>13, OneStep

\* a step that concerns device d and does not poll: what has to be shown of it
LEMMA QuietStep ==
    ASSUME TimersInv, NEW d \in Devices, NEW m, dev' = m, UNCHANGED <<now, deadline, raised, doing>>, DevOK(m, now),
           begun' \in BegunSet, Others(d, m, raised, begun', trailing'), OwnSound(d, m, raised, begun', trailing'),
           OwnAhead(d, m, trailing')
    PROVE  TimersInv'
BY Parts, OneStep

\* a register of the clock that no poll looks at
LEMMA CmosQuiet ==
    ASSUME TimersInv, NEW c, CmosOK(c, now), NEW hour, c.int = dev.cmos.int, c.clock = dev.cmos.clock, c.period = dev.cmos.period,
           c.lastInt = dev.cmos.lastInt, c.lastClock = dev.cmos.lastClock, c.lostTicks = dev.cmos.lostTicks,
           c.lostUs = dev.cmos.lostUs, c.sys = dev.cmos.sys,
           "decimal" \notin doing => hour \in 0 .. 23 /\ c.hour = hour,
           Quietly([dev EXCEPT !.cmos = c]), begun' = [begun EXCEPT !["hour"] = hour], hour \in Nat, trailing' = trailing
    PROVE  TimersInv'
<1>1. PICK m : m = [dev EXCEPT !.cmos = c]
  OBVIOUS
<1>2. dev' = m /\ UNCHANGED <<now, deadline, raised, doing>>
  BY <1>1 DEF Quietly
<1>3. DevOK(dev, now) /\ DOMAIN dev = Devices /\ "cmos" \in Devices /\ begun \in BegunSet
  BY Parts DEF Devices
<1>4. m.pit = dev.pit /\ m.ptimer = dev.ptimer /\ m.pcrtc = dev.pcrtc /\ m.usb = dev.usb /\ m.cmos = c /\ DOMAIN m = Devices
  BY <1>1, <1>3 DEF Devices
<1>5. DevOK(m, now)
  BY <1>3, <1>4 DEF DevOK
<1>6. /\ begun' \in BegunSet /\ begun'["hour"] = hour /\ begun'["seconds"] = begun["seconds"]
      /\ \A e \in Devices : begun'[e] = begun[e]
  BY <1>3 DEF BegunSet, Devices
<1>7. Others("cmos", m, raised, begun', trailing')
  BY <1>4, <1>6 DEF Others, Devices
<1>8. /\ CmosRunning(c) = CmosRunning(dev.cmos) /\ CmosDue(c) = CmosDue(dev.cmos) /\ CmosPeriod(c) = CmosPeriod(dev.cmos)
  BY DEF CmosRunning, CmosDue, CmosPeriod
<1>9. /\ CmosSound(dev.cmos, raised["cmos"], begun["cmos"], begun["seconds"], begun["hour"], trailing, doing, now)
      /\ Prompt("cmos", trailing, doing) => CmosAhead(dev.cmos, deadline)
  BY Parts DEF Sound, AllAhead
<1>10. CmosSound(c, raised["cmos"], begun["cmos"], begun["seconds"], hour, trailing, doing, now)
  BY <1>8, <1>9 DEF CmosSound, CmosAhead
<1>11. OwnSound("cmos", m, raised, begun', trailing') /\ OwnAhead("cmos", m, trailing')
  BY <1>3, <1>4, <1>6, <1>8, <1>9, <1>10 DEF OwnSound, OwnAhead, CmosAhead
<1> QED BY <1>2, <1>3, <1>5, <1>6, <1>7, <1>11, QuietStep

\* begun, with the hour it has
LEMMA SameHour ==
    ASSUME TimersInv
    PROVE  /\ begun = [begun EXCEPT !["hour"] = begun["hour"]] /\ begun["hour"] \in Nat
           /\ "decimal" \notin doing => begun["hour"] \in 0 .. 23 /\ dev.cmos.hour = begun["hour"]
BY Parts DEF BegunSet, Sound, CmosSound

LEMMA CmosOtherKeeps == ASSUME TimersInv, CmosOther PROVE TimersInv'
<1>1. PICK c \in {[dev.cmos EXCEPT !.flags = {}]} \cup {[dev.cmos EXCEPT !.alarm = s] : s \in AlarmSecs} :
          Quietly([dev EXCEPT !.cmos = c])
  <2>1. DOMAIN dev = Devices /\ "cmos" \in Devices
    BY Parts DEF Devices
  <2>2. CASE Quietly([dev EXCEPT !.cmos.flags = {}])
    BY <2>1, <2>2 DEF Quietly
  <2>3. CASE \E s \in AlarmSecs : Quietly([dev EXCEPT !.cmos.alarm = s])
    BY <2>1, <2>3 DEF Quietly
  <2> QED BY <2>2, <2>3 DEF CmosOther
<1>2. CmosOK(dev.cmos, now) /\ dev.cmos \in CmosSet
  BY Parts
<1>3. /\ c \in CmosSet
      /\ c.int = dev.cmos.int /\ c.clock = dev.cmos.clock /\ c.period = dev.cmos.period /\ c.max = dev.cmos.max
      /\ c.lastInt = dev.cmos.lastInt /\ c.lastClock = dev.cmos.lastClock /\ c.lostTicks = dev.cmos.lostTicks
      /\ c.lostUs = dev.cmos.lostUs /\ c.sys = dev.cmos.sys /\ c.hour = dev.cmos.hour
  <2>1. CASE c = [dev.cmos EXCEPT !.flags = {}]
    BY <1>2, <2>1 DEF CmosSet
  <2>2. CASE c # [dev.cmos EXCEPT !.flags = {}]
    <3>1. PICK s \in AlarmSecs : c = [dev.cmos EXCEPT !.alarm = s]
      BY <1>1, <2>2
    <3> QED BY <1>2, <3>1 DEF CmosSet
  <2> QED BY <2>1, <2>2
<1>4. CmosOK(c, now)
  BY <1>2, <1>3 DEF CmosOK
<1>5. trailing' = trailing /\ begun' = begun
  BY DEF CmosOther
<1> QED BY <1>1, <1>3, <1>4, <1>5, SameHour, CmosQuiet

\* The hour that was written in a format of the clock.
LEMMA HourStored ==
    ASSUME NEW c, c.binary \in BOOLEAN, c.h24 \in BOOLEAN, NEW hour \in 0 .. 23
    PROVE  HourWritten(c, HourByte(c, hour)) \in Nat /\ (c.h24 \/ c.binary => HourWritten(c, HourByte(c, hour)) = hour)
<1> DEFINE x == IF hour % 12 = 0 THEN 12 ELSE hour % 12
<1>1. x \in 1 .. 12 /\ (hour >= 12 => (x < 12 => x + 12 = hour) /\ (x = 12 => hour = 12)) /\ (hour < 12 => (x < 12 => x = hour) /\ (x = 12 => hour = 0))
  OBVIOUS
<1>2. CASE c.h24 /\ c.binary
  BY <1>2 DEF HourWritten, HourByte, ToBcd, FromBcd
<1>3. CASE c.h24 /\ ~c.binary
  BY <1>3 DEF HourWritten, HourByte, ToBcd, FromBcd
<1>4. CASE ~c.h24 /\ c.binary
  <2>1. HourByte(c, hour) = (IF hour >= 12 THEN 128 ELSE 0) + x
    BY <1>4 DEF HourByte, ToBcd, PM
  <2> HIDE DEF x
  <2>2. HourByte(c, hour) % 128 = x /\ (HourByte(c, hour) >= 128 <=> hour >= 12)
    BY <1>1, <2>1
  <2> QED BY <1>1, <1>4, <2>2 DEF HourWritten, FromBcd, PM
<1>5. CASE ~c.h24 /\ ~c.binary
  <2>1. HourByte(c, hour) \in Nat
    BY <1>5 DEF HourByte, ToBcd, PM
  <2> QED BY <1>5, <2>1 DEF HourWritten, FromBcd, PM
<1> QED BY <1>2, <1>3, <1>4, <1>5

\* The hour that is read back.
LEMMA HourRead ==
    ASSUME NEW c, c.binary \in BOOLEAN, c.h24 \in BOOLEAN, c.hour \in 0 .. 23, c.h24 \/ c.hour \notin 1 .. 11
    PROVE  HourRegister(c) = HourByte(c, c.hour)
<1>1. CASE c.h24
  BY <1>1 DEF HourRegister, HourByte
<1>2. CASE ~c.h24 /\ c.hour = 0
  BY <1>2 DEF HourRegister, HourByte, ToBcd, PM
<1>3. CASE ~c.h24 /\ c.hour = 12
  BY <1>3 DEF HourRegister, HourByte, ToBcd, PM
<1>4. CASE ~c.h24 /\ c.hour > 12
  <2>1. c.hour % 12 = c.hour - 12 /\ c.hour % 12 # 0
    BY <1>4
  <2> QED BY <1>4, <2>1 DEF HourRegister, HourByte
<1> QED BY <1>1, <1>2, <1>3, <1>4

LEMMA CmosHourKeeps == ASSUME TimersInv, CmosHour PROVE TimersInv'
<1>1. /\ CmosOK(dev.cmos, now) /\ dev.cmos \in CmosSet /\ DOMAIN dev = Devices /\ "cmos" \in Devices
      /\ dev.cmos.binary \in BOOLEAN /\ dev.cmos.h24 \in BOOLEAN
  BY Parts DEF Devices, CmosSet
<1>2. trailing' = trailing
  BY DEF CmosHour
<1>3. CASE \E binary, h24 \in BOOLEAN : Quietly([dev EXCEPT !.cmos.binary = binary, !.cmos.h24 = h24]) /\ UNCHANGED begun
  <2>1. PICK binary \in BOOLEAN, h24 \in BOOLEAN : Quietly([dev EXCEPT !.cmos.binary = binary, !.cmos.h24 = h24]) /\ UNCHANGED begun
    BY <1>3
  <2>2. PICK c : c = [dev.cmos EXCEPT !.binary = binary, !.h24 = h24]
    OBVIOUS
  <2>3. /\ c \in CmosSet
        /\ c.int = dev.cmos.int /\ c.clock = dev.cmos.clock /\ c.period = dev.cmos.period /\ c.max = dev.cmos.max
        /\ c.lastInt = dev.cmos.lastInt /\ c.lastClock = dev.cmos.lastClock /\ c.lostTicks = dev.cmos.lostTicks
        /\ c.lostUs = dev.cmos.lostUs /\ c.sys = dev.cmos.sys /\ c.hour = dev.cmos.hour
    BY <1>1, <2>2 DEF CmosSet
  <2>4. CmosOK(c, now)
    BY <1>1, <2>3 DEF CmosOK
  <2>5. Quietly([dev EXCEPT !.cmos = c])
    BY <1>1, <2>1, <2>2 DEF Quietly
  <2> QED BY <1>2, <2>1, <2>3, <2>4, <2>5, SameHour, CmosQuiet
<1>4. ASSUME NEW hour \in 0 .. 23, dev.cmos.h24 \/ dev.cmos.binary \/ "decimal" \in doing,
             Quietly([dev EXCEPT !.cmos.hour = HourWritten(dev.cmos, HourByte(dev.cmos, hour))]),
             begun' = [begun EXCEPT !["hour"] = hour]
      PROVE  TimersInv'
  <2>1. PICK k : k = HourWritten(dev.cmos, HourByte(dev.cmos, hour))
    OBVIOUS
  <2>2. k \in Nat /\ (dev.cmos.h24 \/ dev.cmos.binary => k = hour)
    BY <1>1, <2>1, HourStored
  <2>3. PICK c : c = [dev.cmos EXCEPT !.hour = k]
    OBVIOUS
  <2>4. /\ c \in CmosSet
        /\ c.int = dev.cmos.int /\ c.clock = dev.cmos.clock /\ c.period = dev.cmos.period /\ c.max = dev.cmos.max
        /\ c.lastInt = dev.cmos.lastInt /\ c.lastClock = dev.cmos.lastClock /\ c.lostTicks = dev.cmos.lostTicks
        /\ c.lostUs = dev.cmos.lostUs /\ c.sys = dev.cmos.sys /\ c.hour = k
    BY <1>1, <2>2, <2>3 DEF CmosSet
  <2>5. CmosOK(c, now)
    BY <1>1, <2>4 DEF CmosOK
  <2>6. Quietly([dev EXCEPT !.cmos = c])
    BY <1>1, <1>4, <2>1, <2>3 DEF Quietly
  <2>7. hour \in Nat /\ ("decimal" \notin doing => c.hour = hour)
    BY <1>4, <2>2, <2>4
  <2> QED BY <1>2, <1>4, <2>4, <2>5, <2>6, <2>7, CmosQuiet
<1> QED BY <1>3, <1>4 DEF CmosHour

\* the devices, with one of them replaced
LEMMA Replaced ==
    ASSUME TimersInv, NEW m
    PROVE  /\ \A a \in PtimerSet : m = [dev EXCEPT !.ptimer = a] =>
                DevOK(m, now) /\ m.ptimer = a /\ m.pit = dev.pit /\ m.cmos = dev.cmos /\ m.pcrtc = dev.pcrtc /\ m.usb = dev.usb
           /\ \A v \in PcrtcSet : m = [dev EXCEPT !.pcrtc = v] =>
                DevOK(m, now) /\ m.pcrtc = v /\ m.pit = dev.pit /\ m.cmos = dev.cmos /\ m.ptimer = dev.ptimer /\ m.usb = dev.usb
           /\ \A u \in UsbSet : m = [dev EXCEPT !.usb = u] =>
                DevOK(m, now) /\ m.usb = u /\ m.pit = dev.pit /\ m.cmos = dev.cmos /\ m.ptimer = dev.ptimer /\ m.pcrtc = dev.pcrtc
<1>1. DevOK(dev, now) /\ DOMAIN dev = Devices
  BY Parts
<1> QED BY <1>1, DevExcept DEF Devices

\* An alarm that is out of step is either overdue, and known to be, or still to come.
LEMMA AlarmMoved ==
    ASSUME TimersInv, NEW m, m.ptimer \in PtimerSet, NEW T, OutOfStep(m) \subseteq T, NEW n, NEW b
    PROVE  PtimerSound(m.ptimer, n, b, T, doing, now)
<1>1. PtimerNext(m.ptimer) \in Nat /\ now \in Nat
  BY PtimerNextIs, Parts
<1>2. "alarm" \in T /\ (PtimerNext(m.ptimer) < now => "ptimer" \in T)
  BY DEF OutOfStep
<1> QED BY <1>1, <1>2 DEF PtimerSound, PtimerAhead, Prompt

LEMMA PtimerIntrKeeps == ASSUME TimersInv, NEW on \in BOOLEAN, PtimerIntr(on) PROVE TimersInv'
<1>1. PICK a : a = [dev.ptimer EXCEPT !.enabled = on]
  OBVIOUS
<1>2. PICK m : m = [dev EXCEPT !.ptimer = a]
  OBVIOUS
<1>3. dev.ptimer \in PtimerSet /\ DOMAIN dev = Devices /\ "ptimer" \in Devices
  BY Parts DEF Devices
<1>4. /\ a \in PtimerSet /\ a.enabled = on /\ a.active = dev.ptimer.active /\ a.last = dev.ptimer.last /\ a.period = dev.ptimer.period
      /\ a.later = dev.ptimer.later /\ a.sooner = dev.ptimer.sooner
  BY <1>1, <1>3 DEF PtimerSet
<1>5. DevOK(m, now) /\ m.ptimer = a /\ m.pit = dev.pit /\ m.cmos = dev.cmos /\ m.pcrtc = dev.pcrtc /\ m.usb = dev.usb
  BY <1>2, <1>4, Replaced
<1>6. /\ dev' = m /\ UNCHANGED <<now, deadline, raised, doing>> /\ begun' = begun
      /\ trailing' = IF on /\ ~dev.ptimer.enabled THEN trailing \cup {"ptimer"} ELSE trailing
  BY <1>1, <1>2, <1>3 DEF PtimerIntr, Quietly
<1>7. Others("ptimer", m, raised, begun', trailing')
  BY <1>5, <1>6 DEF Others
<1>8. /\ PtimerSound(dev.ptimer, raised["ptimer"], begun["ptimer"], trailing, doing, now)
      /\ Prompt("ptimer", trailing, doing) => PtimerAhead(dev.ptimer, deadline)
  BY Parts DEF Sound, AllAhead
<1>9. PtimerNext(a) = PtimerNext(dev.ptimer)
  BY <1>4 DEF PtimerNext
<1>10. ("alarm" \in trailing' <=> "alarm" \in trailing) /\ (Prompt("ptimer", trailing', doing) => Prompt("ptimer", trailing, doing) /\ (on => dev.ptimer.enabled))
  BY <1>6 DEF Prompt
<1>11. PtimerSound(a, raised["ptimer"], begun["ptimer"], trailing', doing, now) /\ (Prompt("ptimer", trailing', doing) => PtimerAhead(a, deadline))
  BY <1>4, <1>8, <1>9, <1>10 DEF PtimerSound, PtimerAhead
<1>12. OwnSound("ptimer", m, raised, begun', trailing') /\ OwnAhead("ptimer", m, trailing')
  BY <1>5, <1>6, <1>11 DEF OwnSound, OwnAhead
<1> QED BY <1>3, <1>5, <1>6, <1>7, <1>12, Parts, QuietStep

\* the ratio and the alarm: a poll when the counter runs
LEMMA AlarmWritten ==
    ASSUME TimersInv, NEW a \in PtimerSet, a.active = dev.ptimer.active, NEW m, m = [dev EXCEPT !.ptimer = a],
           IF dev.ptimer.active THEN Poll(m, Restarted("ptimer")) /\ UNCHANGED <<now, doing>> ELSE Quietly(m),
           trailing' = trailing \cup OutOfStep(m), begun' = begun
    PROVE  TimersInv'
<1>1. DevOK(m, now) /\ m.ptimer = a /\ m.pit = dev.pit /\ m.cmos = dev.cmos /\ m.pcrtc = dev.pcrtc /\ m.usb = dev.usb
  BY Replaced
<1>2. PICK n : n = IF dev.ptimer.active THEN Restarted("ptimer") ELSE raised
  OBVIOUS
<1>3. n \in [Devices -> Nat] /\ \A d \in Devices \ {"ptimer"} : n[d] = raised[d]
  BY <1>2, Parts DEF Restarted
<1>4. Others("ptimer", m, n, begun', trailing')
  BY <1>1, <1>3 DEF Others, OutOfStep, Devices
<1>5. PtimerSound(a, n["ptimer"], begun["ptimer"], trailing', doing, now)
  BY <1>1, AlarmMoved
<1>6. OwnSound("ptimer", m, n, begun', trailing')
  BY <1>1, <1>5 DEF OwnSound
<1>7. Poll(m, n) \/ (dev' = m /\ raised' = n /\ deadline' = deadline /\ OwnAhead("ptimer", m, trailing'))
  BY <1>1, <1>2 DEF Quietly, OwnAhead, PtimerAhead
<1>8. now' = now /\ doing' = doing /\ begun' \in BegunSet /\ "ptimer" \in Devices
  BY Parts DEF Quietly, Devices
<1> QED BY <1>1, <1>3, <1>4, <1>6, <1>7, <1>8, OneStep

LEMMA PtimerRatioKeeps == ASSUME TimersInv, NEW r \in AlarmPeriods, PtimerRatio(r) PROVE TimersInv'
<1>1. PICK a : a = [dev.ptimer EXCEPT !.ratio = r, !.period = IF dev.ptimer.active THEN r ELSE @]
  OBVIOUS
<1>2. PICK m : m = [dev EXCEPT !.ptimer = a]
  OBVIOUS
<1>3. dev.ptimer \in PtimerSet /\ DOMAIN dev = Devices /\ "ptimer" \in Devices
  BY Parts DEF Devices
<1>4. a \in PtimerSet /\ a.active = dev.ptimer.active
  BY <1>1, <1>3 DEF PtimerSet
<1>5. m = [dev EXCEPT !.ptimer.ratio = r, !.ptimer.period = IF dev.ptimer.active THEN r ELSE @]
  BY <1>1, <1>2, <1>3
<1>6. /\ IF dev.ptimer.active THEN Poll(m, Restarted("ptimer")) /\ UNCHANGED <<now, doing>> ELSE Quietly(m)
      /\ trailing' = trailing \cup OutOfStep(m) /\ begun' = begun
  BY <1>5 DEF PtimerRatio
<1> QED BY <1>2, <1>4, <1>6, AlarmWritten

LEMMA PtimerAlarmKeeps == ASSUME TimersInv, NEW alarm \in Alarms, PtimerAlarm(alarm) PROVE TimersInv'
<1>1. PICK later, sooner :
        /\ later = IF alarm > dev.ptimer.alarm THEN alarm - dev.ptimer.alarm ELSE 0
        /\ sooner = IF alarm < dev.ptimer.alarm THEN dev.ptimer.alarm - alarm ELSE 0
  OBVIOUS
<1>2. PICK a : a = [dev.ptimer EXCEPT !.alarm = alarm, !.later = later, !.sooner = sooner]
  OBVIOUS
<1>3. PICK m : m = [dev EXCEPT !.ptimer = a]
  OBVIOUS
<1>4. dev.ptimer \in PtimerSet /\ DOMAIN dev = Devices /\ "ptimer" \in Devices
  BY Parts DEF Devices
<1>5. later \in Nat /\ sooner \in Nat
  <2>1. dev.ptimer.alarm \in Nat /\ alarm \in Nat
    BY <1>4, TimersAssumption DEF PtimerSet
  <2> QED BY <1>1, <2>1
<1>6. a \in PtimerSet /\ a.active = dev.ptimer.active
  BY <1>2, <1>4, <1>5 DEF PtimerSet
<1>7. m = [dev EXCEPT !.ptimer.alarm = alarm, !.ptimer.later = later, !.ptimer.sooner = sooner]
  BY <1>2, <1>3, <1>4
<1>8. /\ IF dev.ptimer.active THEN Poll(m, Restarted("ptimer")) /\ UNCHANGED <<now, doing>> ELSE Quietly(m)
      /\ trailing' = trailing \cup OutOfStep(m) /\ begun' = begun
  BY <1>1, <1>7 DEF PtimerAlarm
<1> QED BY <1>3, <1>6, <1>8, AlarmWritten

LEMMA PtimerSwitchKeeps == ASSUME TimersInv, NEW on \in BOOLEAN, PtimerSwitch(on) PROVE TimersInv'
<1>1. PICK a : a = IF on THEN [dev.ptimer EXCEPT !.active = TRUE, !.period = dev.ptimer.ratio, !.last = now]
                   ELSE [dev.ptimer EXCEPT !.active = FALSE]
  OBVIOUS
<1>2. PICK m : m = [dev EXCEPT !.ptimer = a]
  OBVIOUS
<1>3. /\ dev.ptimer \in PtimerSet /\ "ptimer" \in Devices /\ now \in Nat
      /\ PtimerSound(dev.ptimer, raised["ptimer"], begun["ptimer"], trailing, doing, now)
  BY Parts DEF Devices, Sound
<1>4. /\ a \in PtimerSet /\ a.later = dev.ptimer.later /\ a.sooner = dev.ptimer.sooner /\ a.active = on
      /\ on => a.last = now
  BY <1>1, <1>3 DEF PtimerSet
<1>5. DevOK(m, now) /\ m.ptimer = a /\ m.pit = dev.pit /\ m.cmos = dev.cmos /\ m.pcrtc = dev.pcrtc /\ m.usb = dev.usb
  BY <1>2, <1>4, Replaced
<1>6. PICK n : n = IF on THEN Restarted("ptimer") ELSE raised
  OBVIOUS
<1>7. /\ Poll(m, n) /\ UNCHANGED <<now, doing>>
      /\ IF on THEN Begins("ptimer") ELSE UNCHANGED begun
      /\ trailing' = IF ~on THEN trailing ELSE IF a.later = a.sooner THEN trailing \ {"ptimer", "alarm"}
                     ELSE (trailing \ {"ptimer"}) \cup OutOfStep(m)
  BY <1>1, <1>2, <1>4, <1>6 DEF PtimerSwitch
<1>8. /\ begun' \in BegunSet /\ n \in [Devices -> Nat]
      /\ on => begun'["ptimer"] = now /\ n["ptimer"] = 0
      /\ \A e \in Devices \ {"ptimer"} : n[e] = raised[e] /\ begun'[e] = begun[e]
      /\ begun'["seconds"] = begun["seconds"] /\ begun'["hour"] = begun["hour"]
  BY <1>3, <1>6, <1>7, Parts, Beginning
<1>9. Others("ptimer", m, n, begun', trailing')
  BY <1>5, <1>7, <1>8 DEF Others, OutOfStep, Devices
<1>10. OwnSound("ptimer", m, n, begun', trailing')
  <2>1. CASE ~on
    <3>1. PtimerSound(a, raised["ptimer"], begun["ptimer"], trailing', doing, now)
      BY <1>3, <1>4, <1>7, <2>1 DEF PtimerSound, PtimerAhead
    <3>2. n = raised /\ begun' = begun
      BY <1>6, <1>7, <2>1
    <3> QED BY <1>5, <3>1, <3>2 DEF OwnSound
  <2>2. CASE on /\ a.later = a.sooner
    <3>1. PtimerNext(a) = now + a.period /\ a.period \in Nat
      BY <1>4, <2>2, PtimerNextIs, TimersAssumption DEF PtimerSet
    <3>2. Beats(a.last + a.period, 0, a.period, now, now) /\ PtimerAhead(a, now)
      BY <1>3, <1>4, <2>2, <3>1 DEF Beats, PtimerAhead
    <3>3. PtimerSound(a, 0, now, trailing', doing, now)
      BY <2>2, <3>2 DEF PtimerSound
    <3> QED BY <1>5, <1>8, <2>2, <3>3 DEF OwnSound
  <2>3. CASE on /\ a.later # a.sooner
    <3>1. OutOfStep(m) \subseteq trailing'
      BY <1>7, <2>3
    <3>2. PtimerSound(m.ptimer, n["ptimer"], begun'["ptimer"], trailing', doing, now)
      BY <1>4, <1>5, <3>1, AlarmMoved
    <3> QED BY <3>2 DEF OwnSound
  <2> QED BY <2>1, <2>2, <2>3
<1> QED BY <1>3, <1>5, <1>7, <1>8, <1>9, <1>10, OneStep

LEMMA VblankKeeps == ASSUME TimersInv, VblankStop \/ VblankStart PROVE TimersInv'
<1>1. /\ dev.pcrtc \in PcrtcSet /\ DOMAIN dev = Devices /\ "pcrtc" \in Devices /\ now \in Nat /\ Vblank \in Nat
      /\ Restarted("pcrtc") \in [Devices -> Nat] /\ Restarted("pcrtc")["pcrtc"] = 0
      /\ \A e \in Devices \ {"pcrtc"} : Restarted("pcrtc")[e] = raised[e]
  BY Parts, TimersAssumption DEF Devices
<1>2. CASE VblankStop
  <2>1. PICK v : v = [dev.pcrtc EXCEPT !.enabled = FALSE]
    OBVIOUS
  <2>2. PICK m : m = [dev EXCEPT !.pcrtc = v]
    OBVIOUS
  <2>3. v \in PcrtcSet /\ ~v.enabled
    BY <1>1, <2>1 DEF PcrtcSet
  <2>4. DevOK(m, now) /\ m.pcrtc = v /\ m.pit = dev.pit /\ m.cmos = dev.cmos /\ m.ptimer = dev.ptimer /\ m.usb = dev.usb
    BY <2>2, <2>3, Replaced
  <2>5. dev' = m /\ UNCHANGED <<now, deadline, raised, doing>> /\ begun' = begun /\ trailing' = trailing
    BY <1>1, <1>2, <2>1, <2>2 DEF VblankStop, Quietly
  <2>6. Others("pcrtc", m, raised, begun', trailing')
    BY <2>4, <2>5 DEF Others
  <2>7. OwnSound("pcrtc", m, raised, begun', trailing') /\ OwnAhead("pcrtc", m, trailing')
    BY <2>3, <2>4 DEF OwnSound, OwnAhead, PcrtcSound, PcrtcAhead
  <2> QED BY <1>1, <2>4, <2>5, <2>6, <2>7, Parts, QuietStep
<1>3. CASE VblankStart
  <2>1. PICK v : v = [dev.pcrtc EXCEPT !.enabled = TRUE, !.last = now]
    OBVIOUS
  <2>2. PICK m : m = [dev EXCEPT !.pcrtc = v]
    OBVIOUS
  <2>3. v \in PcrtcSet /\ v.last = now
    BY <1>1, <2>1 DEF PcrtcSet
  <2>4. DevOK(m, now) /\ m.pcrtc = v /\ m.pit = dev.pit /\ m.cmos = dev.cmos /\ m.ptimer = dev.ptimer /\ m.usb = dev.usb
    BY <2>2, <2>3, Replaced
  <2>5. /\ dev' = m /\ raised' = Restarted("pcrtc") /\ UNCHANGED <<now, deadline, doing>> /\ Begins("pcrtc")
        /\ trailing' = trailing \cup {"pcrtc"}
    BY <1>1, <1>3, <2>1, <2>2 DEF VblankStart
  <2>6. /\ begun' \in BegunSet /\ begun'["pcrtc"] = now /\ begun'["seconds"] = begun["seconds"] /\ begun'["hour"] = begun["hour"]
        /\ \A e \in Devices \ {"pcrtc"} : begun'[e] = begun[e]
    BY <1>1, <2>5, Beginning
  <2>7. Others("pcrtc", m, Restarted("pcrtc"), begun', trailing')
    BY <1>1, <2>4, <2>5, <2>6 DEF Others, Devices
  <2>8. PcrtcSound(v, 0, now, trailing', doing, now)
    BY <1>1, <2>3, <2>5 DEF PcrtcSound, PcrtcAhead, Prompt, Beats
  <2>9. OwnSound("pcrtc", m, Restarted("pcrtc"), begun', trailing')
    BY <1>1, <2>4, <2>6, <2>8 DEF OwnSound
  <2>10. OwnAhead("pcrtc", m, trailing')
    BY <2>5 DEF OwnAhead, Prompt
  <2> QED BY <1>1, <2>4, <2>5, <2>6, <2>7, <2>9, <2>10, OneStep
<1> QED BY <1>2, <1>3

\* The alarm and the vertical blank are both off after a reset.
LEMMA GpuResetKeeps == ASSUME TimersInv, GpuReset PROVE TimersInv'
<1>1. PICK a : a = [PtimerInit EXCEPT !.last = dev.ptimer.last]
  OBVIOUS
<1>2. PICK v : v = [PcrtcInit EXCEPT !.last = dev.pcrtc.last]
  OBVIOUS
<1>3. PICK m : m = [dev EXCEPT !.ptimer = a, !.pcrtc = v]
  OBVIOUS
<1>4. /\ DevOK(dev, now) /\ DOMAIN dev = Devices /\ dev.ptimer \in PtimerSet /\ dev.pcrtc \in PcrtcSet
      /\ raised \in [Devices -> Nat] /\ begun \in BegunSet
  BY Parts
<1>5. PtimerInit \in PtimerSet
  <2>1. Soonest(AlarmPeriods) \in AlarmPeriods
    BY SoonestIsOne, TimersAssumption
  <2>2. (CHOOSE top \in Alarms : \A x \in Alarms : x <= top) \in Alarms
    BY TimersAssumption
  <2> QED BY <2>1, <2>2 DEF PtimerInit, PtimerSet
<1>6. a \in PtimerSet /\ a.enabled = FALSE
  <2>1. dev.ptimer.last \in Nat
    BY <1>4 DEF PtimerSet
  <2>2. PtimerInit.enabled = FALSE
    BY DEF PtimerInit
  <2> QED BY <1>1, <1>5, <2>1, <2>2 DEF PtimerSet
<1>7. v \in PcrtcSet /\ v.enabled = FALSE
  BY <1>2, <1>4 DEF PcrtcInit, PcrtcSet
<1>8. m.ptimer = a /\ m.pcrtc = v /\ m.pit = dev.pit /\ m.cmos = dev.cmos /\ m.usb = dev.usb /\ DOMAIN m = Devices
  BY <1>3, <1>4 DEF Devices
<1>9. DevOK(m, now)
  BY <1>4, <1>6, <1>7, <1>8 DEF DevOK
<1>10. Poll(m, raised) /\ now' = now /\ doing' = doing /\ begun' = begun /\ trailing' = trailing \cup {"alarm"}
  BY <1>1, <1>2, <1>3 DEF GpuReset
<1>11. Sound(m, raised, begun', trailing', doing, now)
  <2>1. /\ PitSound(m.pit, raised["pit"], begun["pit"], trailing', doing, now)
        /\ CmosSound(m.cmos, raised["cmos"], begun["cmos"], begun["seconds"], begun["hour"], trailing', doing, now)
        /\ UsbSound(m.usb, raised["usb"], begun["usb"], trailing', doing, now)
    <3>1. /\ "pit" \in trailing => "pit" \in trailing'
          /\ "cmos" \in trailing' <=> "cmos" \in trailing
          /\ {"usb", "line"} \cap trailing \subseteq trailing'
      BY <1>10
    <3> QED BY <1>8, <3>1, Alone
  <2>2. PtimerSound(m.ptimer, raised["ptimer"], begun["ptimer"], trailing', doing, now)
    BY <1>6, <1>8, <1>10 DEF PtimerSound, PtimerAhead
  <2>3. PcrtcSound(m.pcrtc, raised["pcrtc"], begun["pcrtc"], trailing', doing, now)
    BY <1>7, <1>8 DEF PcrtcSound, PcrtcAhead
  <2> QED BY <1>10, <2>1, <2>2, <2>3 DEF Sound
<1> QED BY <1>4, <1>9, <1>10, <1>11, ByPoll

\* The interrupt line, as the registers of interrupts have it.
LineFollows(u) == u.line = (u.mie /\ u.st \cap u.en # {})

\* A write to the controller that does not start the frame timer.
LEMMA UsbStep ==
    ASSUME TimersInv, NEW u \in UsbSet, Quietly([dev EXCEPT !.usb = u]), begun' = begun,
           u.running = TRUE => dev.usb.running = TRUE /\ u.sof = dev.usb.sof,
           trailing \ {"line"} = trailing' \ {"line"}, "line" \notin trailing' => LineFollows(u)
    PROVE  TimersInv'
<1>1. PICK m : m = [dev EXCEPT !.usb = u]
  OBVIOUS
<1>2. DevOK(m, now) /\ m.usb = u /\ m.pit = dev.pit /\ m.cmos = dev.cmos /\ m.ptimer = dev.ptimer /\ m.pcrtc = dev.pcrtc
  BY <1>1, Replaced
<1>3. dev' = m /\ UNCHANGED <<now, deadline, raised, doing>>
  BY <1>1 DEF Quietly
<1>4. \A w : w # "line" => (w \in trailing' <=> w \in trailing)
  OBVIOUS
<1>5. Others("usb", m, raised, begun', trailing')
  BY <1>2, <1>4 DEF Others
<1>6. /\ UsbSound(dev.usb, raised["usb"], begun["usb"], trailing, doing, now)
      /\ Prompt("usb", trailing, doing) => UsbAhead(dev.usb, deadline)
  BY Parts DEF Sound, AllAhead
<1>7. u.running \in BOOLEAN /\ dev.usb.running \in BOOLEAN
  BY Parts DEF UsbSet
<1>8. u.running => dev.usb.running /\ u.sof = dev.usb.sof
  BY <1>7
<1>9. Prompt("usb", trailing', doing) => Prompt("usb", trailing, doing)
  BY <1>4 DEF Prompt
<1>10. UsbSound(u, raised["usb"], begun["usb"], trailing', doing, now)
  BY <1>6, <1>8, <1>9 DEF UsbSound, UsbAhead, LineFollows
<1>11. OwnSound("usb", m, raised, begun', trailing') /\ OwnAhead("usb", m, trailing')
  BY <1>2, <1>6, <1>8, <1>9, <1>10 DEF OwnSound, OwnAhead, UsbAhead
<1> QED BY <1>2, <1>3, <1>5, <1>11, Parts, QuietStep DEF Devices

\* What update_int and the resets leave in the registers.
LEMMA UsbRegisters ==
    ASSUME NEW u \in UsbSet
    PROVE  /\ UpdateInt(u) \in UsbSet /\ LineFollows(UpdateInt(u)) /\ UpdateInt(u).running = u.running /\ UpdateInt(u).sof = u.sof
           /\ SwReset(u) \in UsbSet /\ SwReset(u).running = FALSE
           /\ HwReset(u) \in UsbSet /\ HwReset(u).running = FALSE
<1>1. UpdateInt(u) \in UsbSet /\ LineFollows(UpdateInt(u)) /\ UpdateInt(u).running = u.running /\ UpdateInt(u).sof = u.sof
  <2>1. PICK v \in BOOLEAN : v = (u.mie /\ u.st \cap u.en # {})
    BY DEF UsbSet
  <2>2. PICK w : w = [u EXCEPT !.line = v]
    OBVIOUS
  <2>3. w = UpdateInt(u)
    BY <2>1, <2>2 DEF UpdateInt
  <2>4. /\ w \in UsbSet /\ w.line = v /\ w.mie = u.mie /\ w.st = u.st /\ w.en = u.en /\ w.running = u.running /\ w.sof = u.sof
    BY <2>2 DEF UsbSet
  <2> QED BY <2>1, <2>3, <2>4 DEF LineFollows
<1>2. SwReset(u) \in UsbSet /\ SwReset(u).running = FALSE
  BY DEF SwReset, UsbSet, UsbStates
<1>3. HwReset(u) \in UsbSet /\ HwReset(u).running = FALSE
  BY <1>2 DEF HwReset, UsbSet, UsbStates
<1> QED BY <1>1, <1>2, <1>3

LEMMA UsbSoftResetKeeps == ASSUME TimersInv, UsbSoftReset PROVE TimersInv'
<1>1. PICK u : u = SwReset(dev.usb)
  OBVIOUS
<1>2. u \in UsbSet /\ u.running = FALSE
  BY <1>1, Parts, UsbRegisters
<1>3. Quietly([dev EXCEPT !.usb = u]) /\ trailing' = trailing \cup {"line"} /\ begun' = begun
  BY <1>1 DEF UsbSoftReset
<1> QED BY <1>2, <1>3, UsbStep

LEMMA UsbInterruptsKeeps == ASSUME TimersInv, UsbInterrupts PROVE TimersInv'
<1>1. PICK causes \in SUBSET Causes, mie \in BOOLEAN :
          \/ Quietly([dev EXCEPT !.usb = AckInt(dev.usb, causes)])
          \/ Quietly([dev EXCEPT !.usb = EnableInt(dev.usb, causes, mie)])
          \/ Quietly([dev EXCEPT !.usb = DisableInt(dev.usb, causes, mie)])
  BY DEF UsbInterrupts
<1>2. dev.usb \in UsbSet
  BY Parts
<1>3. PICK v \in UsbSet : Quietly([dev EXCEPT !.usb = UpdateInt(v)]) /\ v.running = dev.usb.running /\ v.sof = dev.usb.sof
  <2>1. CASE Quietly([dev EXCEPT !.usb = AckInt(dev.usb, causes)])
    <3>1. PICK v : v = [dev.usb EXCEPT !.st = @ \ causes]
      OBVIOUS
    <3>2. v \in UsbSet /\ v.running = dev.usb.running /\ v.sof = dev.usb.sof
      BY <1>2, <3>1 DEF UsbSet
    <3> QED BY <2>1, <3>1, <3>2 DEF AckInt
  <2>2. CASE Quietly([dev EXCEPT !.usb = EnableInt(dev.usb, causes, mie)])
    <3>1. PICK v : v = [dev.usb EXCEPT !.en = @ \cup causes, !.mie = @ \/ mie]
      OBVIOUS
    <3>2. v \in UsbSet /\ v.running = dev.usb.running /\ v.sof = dev.usb.sof
      BY <1>2, <3>1 DEF UsbSet
    <3> QED BY <2>2, <3>1, <3>2 DEF EnableInt
  <2>3. CASE Quietly([dev EXCEPT !.usb = DisableInt(dev.usb, causes, mie)])
    <3>1. PICK v : v = [dev.usb EXCEPT !.en = @ \ causes, !.mie = @ /\ ~mie]
      OBVIOUS
    <3>2. v \in UsbSet /\ v.running = dev.usb.running /\ v.sof = dev.usb.sof
      BY <1>2, <3>1 DEF UsbSet
    <3> QED BY <2>3, <3>1, <3>2 DEF DisableInt
  <2> QED BY <1>1, <2>1, <2>2, <2>3
<1>4. PICK u : u = UpdateInt(v)
  OBVIOUS
<1>5. u \in UsbSet /\ LineFollows(u) /\ u.running = dev.usb.running /\ u.sof = dev.usb.sof
  BY <1>3, <1>4, UsbRegisters
<1>6. Quietly([dev EXCEPT !.usb = u]) /\ trailing' = trailing \ {"line"} /\ begun' = begun
  BY <1>3, <1>4 DEF UsbInterrupts
<1> QED BY <1>5, <1>6, UsbStep

\* The ports and their power have no part in the interrupts.
LEMMA UsbHubKeeps == ASSUME TimersInv, UsbHub PROVE TimersInv'
<1>1. dev.usb \in UsbSet /\ DOMAIN dev = Devices /\ "usb" \in Devices
  BY Parts DEF Devices
<1>2. PICK u \in UsbSet : /\ Quietly([dev EXCEPT !.usb = u])
                          /\ u.running = dev.usb.running /\ u.sof = dev.usb.sof
                          /\ u.line = dev.usb.line /\ u.mie = dev.usb.mie /\ u.st = dev.usb.st /\ u.en = dev.usb.en
  <2>1. CASE \E mode \in {"none", "global", "port"}, masked \in SUBSET Ports :
                 Quietly([dev EXCEPT !.usb.mode = mode, !.usb.masked = masked])
    <3>1. PICK mode \in {"none", "global", "port"}, masked \in SUBSET Ports :
              Quietly([dev EXCEPT !.usb.mode = mode, !.usb.masked = masked])
      BY <2>1
    <3>2. PICK u : u = [dev.usb EXCEPT !.mode = mode, !.masked = masked]
      OBVIOUS
    <3>3. /\ u \in UsbSet /\ u.running = dev.usb.running /\ u.sof = dev.usb.sof
          /\ u.line = dev.usb.line /\ u.mie = dev.usb.mie /\ u.st = dev.usb.st /\ u.en = dev.usb.en
      BY <1>1, <3>2 DEF UsbSet
    <3>4. Quietly([dev EXCEPT !.usb = u])
      BY <1>1, <3>1, <3>2 DEF Quietly
    <3> QED BY <3>3, <3>4
  <2>2. CASE \E off, on \in BOOLEAN : Quietly([dev EXCEPT !.usb = RootHub(dev.usb, off, on)])
    <3>1. PICK off \in BOOLEAN, on \in BOOLEAN : Quietly([dev EXCEPT !.usb = RootHub(dev.usb, off, on)])
      BY <2>2
    <3>2. Switched(dev.usb) \in SUBSET Ports
      BY DEF Switched
    <3>3. PICK power \in SUBSET Ports : RootHub(dev.usb, off, on) = [dev.usb EXCEPT !.powered = power]
      BY <1>1, <3>2 DEF RootHub, UsbSet
    <3>4. PICK u : u = [dev.usb EXCEPT !.powered = power]
      OBVIOUS
    <3>5. /\ u \in UsbSet /\ u.running = dev.usb.running /\ u.sof = dev.usb.sof
          /\ u.line = dev.usb.line /\ u.mie = dev.usb.mie /\ u.st = dev.usb.st /\ u.en = dev.usb.en
      BY <1>1, <3>3, <3>4 DEF UsbSet
    <3> QED BY <3>1, <3>3, <3>4, <3>5
  <2> QED BY <2>1, <2>2 DEF UsbHub
<1>3. trailing' = trailing /\ begun' = begun
  BY DEF UsbHub
<1>4. "line" \notin trailing' => LineFollows(u)
  BY <1>2, <1>3, Parts DEF Sound, UsbSound, LineFollows
<1> QED BY <1>2, <1>3, <1>4, UsbStep

LEMMA UsbControlKeeps == ASSUME TimersInv, NEW state \in UsbStates, UsbControl(state) PROVE TimersInv'
<1>1. /\ dev.usb \in UsbSet /\ DOMAIN dev = Devices /\ "usb" \in Devices /\ now \in Nat /\ Frame \in Nat
      /\ Restarted("usb") \in [Devices -> Nat] /\ Restarted("usb")["usb"] = 0
      /\ \A e \in Devices \ {"usb"} : Restarted("usb")[e] = raised[e]
      /\ UsbSound(dev.usb, raised["usb"], begun["usb"], trailing, doing, now)
  BY Parts, OhciAssumption DEF Devices, Sound
<1>2. PICK u : u = UpdateState(dev.usb, state, now)
  OBVIOUS
<1>3. PICK starts, resets :
        /\ starts = (state = "operational" /\ dev.usb.state # state)
        /\ resets = (state = "reset" /\ dev.usb.state # state)
  OBVIOUS
<1>4. dev' = [dev EXCEPT !.usb = u] /\ UNCHANGED <<now, deadline, doing>>
  BY <1>2 DEF UsbControl
<1>5. /\ IF state = "operational" /\ dev.usb.state # state THEN raised' = Restarted("usb") /\ Begins("usb") ELSE UNCHANGED <<raised, begun>>
      /\ trailing' = IF state = "operational" /\ dev.usb.state # state THEN (trailing \ {"line"}) \cup {"usb"}
                     ELSE IF state = "reset" /\ dev.usb.state # state THEN trailing \cup {"line"} ELSE trailing
  BY DEF UsbControl
<1>6. CASE state = dev.usb.state
  <2>1. u = dev.usb /\ Quietly([dev EXCEPT !.usb = u]) /\ trailing' = trailing /\ begun' = begun
    BY <1>2, <1>4, <1>5, <1>6 DEF UpdateState, Quietly
  <2>2. "line" \notin trailing' => LineFollows(u)
    BY <1>1, <2>1 DEF UsbSound, LineFollows
  <2> QED BY <1>1, <2>1, <2>2, UsbStep
<1>7. CASE state # dev.usb.state /\ state = "reset"
  <2>1. u = HwReset(dev.usb) /\ Quietly([dev EXCEPT !.usb = u]) /\ trailing' = trailing \cup {"line"} /\ begun' = begun
    BY <1>2, <1>4, <1>5, <1>7 DEF UpdateState, Quietly
  <2>2. u \in UsbSet /\ u.running = FALSE
    BY <1>1, <2>1, UsbRegisters
  <2> QED BY <2>1, <2>2, UsbStep
<1>8. CASE state # dev.usb.state /\ state = "operational"
  <2>1. PICK v : v = [dev.usb EXCEPT !.state = state, !.sof = now, !.running = TRUE, !.st = @ \cup {"SF"}]
    OBVIOUS
  <2>2. v \in UsbSet /\ v.running = TRUE /\ v.sof = now
    BY <1>1, <2>1, OhciAssumption DEF UsbSet
  <2>3. u = UpdateInt(v)
    BY <1>2, <1>8, <2>1 DEF UpdateState
  <2>4. u \in UsbSet /\ LineFollows(u) /\ u.sof = now
    BY <2>2, <2>3, UsbRegisters
  <2>5. raised' = Restarted("usb") /\ Begins("usb") /\ trailing' = (trailing \ {"line"}) \cup {"usb"}
    BY <1>5, <1>8
  <2>6. PICK m : m = [dev EXCEPT !.usb = u]
    OBVIOUS
  <2>7. DevOK(m, now) /\ m.usb = u /\ m.pit = dev.pit /\ m.cmos = dev.cmos /\ m.ptimer = dev.ptimer /\ m.pcrtc = dev.pcrtc
    BY <2>4, <2>6, Replaced
  <2>8. /\ begun' \in BegunSet /\ begun'["usb"] = now /\ begun'["seconds"] = begun["seconds"] /\ begun'["hour"] = begun["hour"]
        /\ \A e \in Devices \ {"usb"} : begun'[e] = begun[e]
    BY <1>1, <2>5, Beginning
  <2>9. Others("usb", m, Restarted("usb"), begun', trailing')
    BY <1>1, <2>5, <2>7, <2>8 DEF Others, Devices
  <2>10. UsbSound(u, 0, now, trailing', doing, now)
    BY <1>1, <2>4, <2>5 DEF UsbSound, UsbAhead, Prompt, Beats, LineFollows
  <2>11. OwnSound("usb", m, Restarted("usb"), begun', trailing') /\ OwnAhead("usb", m, trailing')
    BY <1>1, <2>5, <2>7, <2>8, <2>10 DEF OwnSound, OwnAhead, Prompt
  <2> QED BY <1>1, <1>4, <2>5, <2>6, <2>7, <2>8, <2>9, <2>11, OneStep
<1>9. CASE state # dev.usb.state /\ state \notin {"reset", "operational"}
  <2>1. /\ u = [dev.usb EXCEPT !.state = state, !.running = FALSE] /\ Quietly([dev EXCEPT !.usb = u])
        /\ trailing' = trailing /\ begun' = begun
    BY <1>2, <1>4, <1>5, <1>9 DEF UpdateState, Quietly
  <2>2. /\ u \in UsbSet /\ u.running = FALSE
        /\ u.line = dev.usb.line /\ u.mie = dev.usb.mie /\ u.st = dev.usb.st /\ u.en = dev.usb.en
    BY <1>1, <2>1 DEF UsbSet
  <2>3. "line" \notin trailing' => LineFollows(u)
    BY <1>1, <2>1, <2>2 DEF UsbSound, LineFollows
  <2> QED BY <2>1, <2>2, <2>3, UsbStep
<1> QED BY <1>6, <1>7, <1>8, <1>9

-----------------------------------------------------------------------------
(***************************************************************************)
(* The timers: theorems                                                    *)
(***************************************************************************)

LEMMA TimersStart == ASSUME TimersInit PROVE TimersInv
<1>1. CmosOK(CmosInit, 0) /\ CmosInit \in CmosSet
  BY CmosAssumption DEF CmosInit, CmosOK, CmosSet
<1>2. PtimerInit \in PtimerSet /\ PcrtcInit \in PcrtcSet /\ UsbInit \in UsbSet
  <2>1. Soonest(AlarmPeriods) \in AlarmPeriods
    BY SoonestIsOne, TimersAssumption
  <2>2. (CHOOSE top \in Alarms : \A x \in Alarms : x <= top) \in Alarms
    BY TimersAssumption
  <2> QED BY <2>1, <2>2 DEF PtimerInit, PtimerSet, PcrtcInit, PcrtcSet, UsbInit, UsbSet, UsbStates
<1>3. TimersOK
  BY <1>1, <1>2, CmosAssumption DEF TimersInit, TimersOK, DevOK, PitSet, Devices
<1>4. /\ dev.pit.running = FALSE /\ dev.cmos = CmosInit /\ dev.ptimer = PtimerInit /\ dev.pcrtc = PcrtcInit /\ dev.usb = UsbInit
      /\ now = 0 /\ deadline = Second /\ trailing = {} /\ Second \in Nat
      /\ raised["pit"] = 0 /\ raised["cmos"] = 0 /\ raised["ptimer"] = 0 /\ raised["pcrtc"] = 0 /\ raised["usb"] = 0
      /\ begun["cmos"] = 0 /\ begun["ptimer"] = 0 /\ begun["seconds"] = 0 /\ begun["hour"] = 0
  BY CmosAssumption DEF TimersInit, Devices
<1>5. CmosSound(dev.cmos, 0, 0, 0, 0, {}, doing, 0) /\ CmosAhead(dev.cmos, Second)
  <2>1. CmosDue(CmosInit) = Second /\ CmosPeriod(CmosInit) = Second /\ CmosInit.int = FALSE /\ CmosInit.lostTicks = 0
        /\ CmosInit.lostUs = 0 /\ CmosInit.sys = 0 /\ CmosInit.hour = 0
    BY CmosAssumption DEF CmosInit, CmosDue, CmosPeriod
  <2>2. Beats(Second, 0, Second, 0, 0) /\ 0 <= Second
    BY <1>4 DEF Beats
  <2> QED BY <1>4, <2>1, <2>2 DEF CmosSound, CmosAhead
<1>6. PtimerSound(dev.ptimer, 0, 0, {}, doing, 0) /\ PtimerAhead(dev.ptimer, deadline)
  <2>1. dev.ptimer.enabled = FALSE /\ dev.ptimer.later = dev.ptimer.sooner /\ dev.ptimer.last = 0 /\ dev.ptimer.period \in Nat
    <3>1. PtimerInit.enabled = FALSE /\ PtimerInit.later = 0 /\ PtimerInit.sooner = 0 /\ PtimerInit.last = 0
      BY DEF PtimerInit
    <3>2. PtimerInit.period \in Nat
      BY <1>2, TimersAssumption DEF PtimerSet
    <3> QED BY <1>4, <3>1, <3>2
  <2>2. Beats(dev.ptimer.last + dev.ptimer.period, 0, dev.ptimer.period, 0, 0)
    BY <2>1 DEF Beats
  <2> QED BY <2>1, <2>2 DEF PtimerSound, PtimerAhead
<1>7. /\ PitSound(dev.pit, 0, begun["pit"], {}, doing, 0) /\ PitAhead(dev.pit, deadline)
      /\ PcrtcSound(dev.pcrtc, 0, begun["pcrtc"], {}, doing, 0) /\ PcrtcAhead(dev.pcrtc, deadline)
      /\ UsbSound(dev.usb, 0, begun["usb"], {}, doing, 0) /\ UsbAhead(dev.usb, deadline)
  <2>1. PcrtcInit.enabled = FALSE
    BY DEF PcrtcInit
  <2>2. UsbInit.running = FALSE /\ UsbInit.line = FALSE /\ UsbInit.mie = FALSE
    BY DEF UsbInit
  <2>3. PitSound(dev.pit, 0, begun["pit"], {}, doing, 0) /\ PitAhead(dev.pit, deadline)
    BY <1>4 DEF PitSound, PitAhead
  <2>4. PcrtcSound(dev.pcrtc, 0, begun["pcrtc"], {}, doing, 0) /\ PcrtcAhead(dev.pcrtc, deadline)
    BY <1>4, <2>1 DEF PcrtcSound, PcrtcAhead
  <2>5. UsbSound(dev.usb, 0, begun["usb"], {}, doing, 0) /\ UsbAhead(dev.usb, deadline)
    BY <1>4, <2>2 DEF UsbSound, UsbAhead
  <2> QED BY <2>3, <2>4, <2>5
<1>8. Sound(dev, raised, begun, trailing, doing, now)
  BY <1>4, <1>5, <1>6, <1>7 DEF Sound
<1>9. AllAhead(dev, trailing, doing, deadline)
  BY <1>4, <1>5, <1>6, <1>7 DEF AllAhead
<1> QED BY <1>3, <1>8, <1>9 DEF TimersInv

LEMMA TimersStutter == ASSUME TimersInv, UNCHANGED tvars PROVE TimersInv'
BY DEF TimersInv, TimersOK, tvars

LEMMA TimersStep == ASSUME TimersInv, TimersNext PROVE TimersInv'
<1>1. CASE Run
  BY <1>1, RunKeeps
<1>2. CASE Timeout \/ PitOther
  BY <1>2, TimeoutKeeps
<1>3. CASE PitCommand
  BY <1>3, PitCommandKeeps
<1>4. CASE \E low \in Lows : PitLow(low)
  BY <1>4, PitLowKeeps
<1>5. CASE \E high \in Highs : PitHigh(high)
  BY <1>5, PitHighKeeps
<1>6. CASE \E b \in SUBSET BFlags, freq \in Freqs \cup {0} : CmosControl(b, freq)
  BY <1>6, CmosControlKeeps
<1>7. CASE CmosOther
  BY <1>7, CmosOtherKeeps
<1>8. CASE CmosHour
  BY <1>8, CmosHourKeeps
<1>9. CASE \E on \in BOOLEAN : PtimerIntr(on)
  BY <1>9, PtimerIntrKeeps
<1>10. CASE \E r \in AlarmPeriods : PtimerRatio(r)
  BY <1>10, PtimerRatioKeeps
<1>11. CASE \E on \in BOOLEAN : PtimerSwitch(on)
  BY <1>11, PtimerSwitchKeeps
<1>12. CASE \E alarm \in Alarms : PtimerAlarm(alarm)
  BY <1>12, PtimerAlarmKeeps
<1>13. CASE VblankStop \/ VblankStart
  BY <1>13, VblankKeeps
<1>14. CASE GpuReset
  BY <1>14, GpuResetKeeps
<1>15. CASE \E state \in UsbStates : UsbControl(state)
  BY <1>15, UsbControlKeeps
<1>16. CASE UsbSoftReset
  BY <1>16, UsbSoftResetKeeps
<1>17. CASE UsbInterrupts
  BY <1>17, UsbInterruptsKeeps
<1>18. CASE UsbHub
  BY <1>18, UsbHubKeeps
<1> QED BY <1>1, <1>2, <1>3, <1>4, <1>5, <1>6, <1>7, <1>8, <1>9, <1>10, <1>11, <1>12, <1>13, <1>14, <1>15, <1>16, <1>17, <1>18 DEF TimersNext

\* The histories, the members of the devices and the deadline agree in every state.
THEOREM TimersInvariant == Spec => []TimersInv
<1>1. Init => TimersInv
  BY TimersStart DEF Init
<1>2. TimersInv /\ [Next]_<<part, tvars, svars, vvars, wvars, xvars>> => TimersInv'
  <2> SUFFICES ASSUME TimersInv, [Next]_<<part, tvars, svars, vvars, wvars, xvars>> PROVE TimersInv'
    OBVIOUS
  <2>1. TimersNext \/ UNCHANGED tvars
    BY DEF Next
  <2> QED BY <2>1, TimersStep, TimersStutter
<1> QED BY <1>1, <1>2, PTL DEF Spec

\* The deadline of cpu_run_until is no later than the next event of any device that
\* the CPU knows of (cpu_set_timeout, checkPeriodicEvents).
THEOREM DeadlineHolds == Spec => []DeadlineCovers
<1>1. TimersInv => DeadlineCovers
  <2> SUFFICES ASSUME TimersInv, "late" \notin doing, NEW d \in Devices \ trailing, Running(d) PROVE deadline <= Due(d)
    BY DEF DeadlineCovers
  <2>1. AllAhead(dev, trailing, doing, deadline) /\ Prompt(d, trailing, doing)
    BY Parts DEF Prompt
  <2>2. CASE d = "pit"
    BY <2>1, <2>2 DEF AllAhead, PitAhead, Running, Due
  <2>3. CASE d = "cmos"
    BY <2>1, <2>3 DEF AllAhead, CmosAhead, Running, Due
  <2>4. CASE d = "ptimer"
    BY <2>1, <2>4 DEF AllAhead, PtimerAhead, Running, Due
  <2>5. CASE d = "pcrtc"
    BY <2>1, <2>5 DEF AllAhead, PcrtcAhead, Running, Due
  <2>6. CASE d = "usb"
    BY <2>1, <2>6 DEF AllAhead, UsbAhead, Running, Due
  <2> QED BY <2>2, <2>3, <2>4, <2>5, <2>6 DEF Devices
<1> QED BY <1>1, TimersInvariant, PTL

LEMMA RhythmHolds == ASSUME TimersInv PROVE Rhythm
<1> SUFFICES ASSUME NEW d \in Devices, Running(d), Steady(d)
             PROVE  Due(d) = begun[d] + (raised[d] + 1) * PeriodOf(d) /\ raised[d] * PeriodOf(d) <= now - begun[d]
  BY DEF Rhythm
<1>1. Sound(dev, raised, begun, trailing, doing, now)
  BY Parts
<1>2. CASE d = "pit"
  BY <1>1, <1>2 DEF Sound, PitSound, Beats, Running, Due, PeriodOf
<1>3. CASE d = "cmos"
  <2>1. /\ CmosSound(dev.cmos, raised["cmos"], begun["cmos"], begun["seconds"], begun["hour"], trailing, doing, now)
        /\ "cmos" \notin trailing /\ ~(dev.cmos.int /\ "late" \in doing) /\ CmosRunning(dev.cmos)
    BY <1>1, <1>3 DEF Sound, Steady, Running
  <2>2. Beats(CmosDue(dev.cmos), raised["cmos"], CmosPeriod(dev.cmos), begun["cmos"], now)
    BY <2>1 DEF CmosSound
  <2> QED BY <1>3, <2>2 DEF Beats, Due, PeriodOf
<1>4. CASE d = "ptimer"
  <2>1. /\ PtimerSound(dev.ptimer, raised["ptimer"], begun["ptimer"], trailing, doing, now)
        /\ "alarm" \notin trailing /\ dev.ptimer.active
    BY <1>1, <1>4 DEF Sound, Steady, Running
  <2>2. Beats(dev.ptimer.last + dev.ptimer.period, raised["ptimer"], dev.ptimer.period, begun["ptimer"], now)
        /\ PtimerNext(dev.ptimer) = dev.ptimer.last + dev.ptimer.period
    BY <2>1, Parts, PtimerNextIs DEF PtimerSound
  <2> QED BY <1>4, <2>2 DEF Beats, Due, PeriodOf
<1>5. CASE d = "pcrtc"
  BY <1>1, <1>5 DEF Sound, PcrtcSound, Beats, Running, Due, PeriodOf
<1>6. CASE d = "usb"
  BY <1>1, <1>6 DEF Sound, UsbSound, Beats, Running, Due, PeriodOf
<1> QED BY <1>2, <1>3, <1>4, <1>5, <1>6 DEF Devices

\* A quotient, by what it is between.
LEMMA Quotient ==
    ASSUME NEW k \in Nat \ {0}, NEW n \in Nat, NEW x \in Nat, n * k <= x, x < (n + 1) * k
    PROVE  x \div k = n
<1>1. PICK q, r : q = x \div k /\ r = x % k
  OBVIOUS
<1>2. q \in Nat /\ r \in Nat /\ r < k /\ x = q * k + r
  BY <1>1
<1>3. ~(q < n)
  <2> SUFFICES ASSUME q + 1 <= n PROVE FALSE
    BY <1>2
  <2>1. (q + 1) * k <= n * k
    BY <1>2
  <2> QED BY <1>2, <2>1
<1>4. ~(q > n)
  <2> SUFFICES ASSUME n + 1 <= q PROVE FALSE
    BY <1>2
  <2>1. (n + 1) * k <= q * k
    BY <1>2
  <2> QED BY <1>2, <2>1
<1> QED BY <1>1, <1>2, <1>3, <1>4

LEMMA ClockHolds == ASSUME TimersInv PROVE ClockKeepsTime
<1>1. PICK n, b, s, counted, passed :
        /\ n = raised["cmos"] /\ b = begun["cmos"] /\ s = begun["seconds"]
        /\ counted = dev.cmos.sys - begun["seconds"] /\ passed = now - begun["cmos"]
  OBVIOUS
<1>2. /\ n \in Nat /\ b \in Nat /\ s \in Nat /\ dev.cmos.sys \in Nat /\ now \in Nat /\ Second \in Nat \ {0}
      /\ dev.cmos.lastClock \in Nat /\ dev.cmos.int \in BOOLEAN
      /\ CmosSound(dev.cmos, n, b, s, begun["hour"], trailing, doing, now)
  BY <1>1, Parts, CmosAssumption DEF Devices, BegunSet, CmosSet, Sound
<1> SUFFICES ASSUME dev.cmos.clock, "periodic" \notin doing
             PROVE  /\ counted >= n
                    /\ "late" \notin doing => counted = passed \div Second \/ (counted + 1) * Second = passed
  BY <1>1 DEF ClockKeepsTime
<1>3. ~dev.cmos.int /\ "cmos" \notin trailing /\ dev.cmos.sys >= s + n /\ CmosRunning(dev.cmos)
  BY <1>2 DEF CmosSound, CmosRunning
<1>4. counted >= n
  BY <1>1, <1>2, <1>3
<1>5. ASSUME "late" \notin doing PROVE counted = passed \div Second \/ (counted + 1) * Second = passed
  <2>1. counted = n
    BY <1>1, <1>2, <1>3, <1>5 DEF CmosSound
  <2>2. PICK k \in Nat \ {0} : k = Second
    BY <1>2
  <2>3. CmosDue(dev.cmos) = k + dev.cmos.lastClock /\ CmosPeriod(dev.cmos) = k
    BY <1>3, <2>2 DEF CmosDue, CmosPeriod
  <2>4. Beats(CmosDue(dev.cmos), n, CmosPeriod(dev.cmos), b, now) /\ now <= CmosDue(dev.cmos)
    BY <1>2, <1>3, <1>5 DEF CmosSound, CmosAhead
  <2>5. n * k <= passed /\ now <= b + (n + 1) * k
    BY <1>1, <2>3, <2>4 DEF Beats
  <2>6. PICK y \in Nat : y = (n + 1) * k
    BY <1>2, <2>2
  <2>7. passed <= y /\ passed \in Int
    BY <1>1, <1>2, <2>5, <2>6
  <2>8. passed \in Nat
    <3>1. n * k \in Nat
      BY <1>2, <2>2
    <3> QED BY <2>5, <2>7, <3>1
  <2>9. CASE passed < y
    BY <1>2, <2>1, <2>2, <2>5, <2>6, <2>8, <2>9, Quotient
  <2>10. CASE passed = y
    BY <2>1, <2>2, <2>6, <2>10
  <2> QED BY <2>6, <2>7, <2>9, <2>10
<1> QED BY <1>4, <1>5

LEMMA HourHolds == ASSUME TimersInv PROVE HourReadsBack
<1> SUFFICES ASSUME "decimal" \notin doing, dev.cmos.h24 \/ begun["hour"] \notin 1 .. 11
             PROVE  HourRegister(dev.cmos) = HourByte(dev.cmos, begun["hour"])
  BY DEF HourReadsBack
<1>1. begun["hour"] \in 0 .. 23 /\ dev.cmos.hour = begun["hour"] /\ dev.cmos \in CmosSet
  BY Parts DEF Sound, CmosSound
<1>2. dev.cmos.binary \in BOOLEAN /\ dev.cmos.h24 \in BOOLEAN
  BY <1>1 DEF CmosSet
<1> QED BY <1>1, <1>2, HourRead

\* No event is skipped, counted twice or stretched, however late the polls are, the
\* seconds of the clock are those that passed, and the hour that is read is the one
\* that was written.
THEOREM TimeKept == Spec => []TimeIsKept
<1>1. TimersInv => TimeIsKept
  BY RhythmHolds, ClockHolds, HourHolds DEF TimeIsKept
<1> QED BY <1>1, TimersInvariant, PTL

-----------------------------------------------------------------------------
(***************************************************************************)
(* The SMBus                                                               *)
(***************************************************************************)

CellSet == [0 .. Cells - 1 -> Nat]
BusSet == [type : Nat, en : BOOLEAN, gs : SUBSET Statuses, target : Targets, read : BOOLEAN, command : Nat, data0 : Nat, data1 : Nat,
           block : [0 .. Ring - 1 -> Nat], off : 0 .. Ring - 1, line : BOOLEAN]
ChipSet == [eeprom : CellSet, conexant : CellSet, tray : Nat, file : CellSet,
            smc : [mode : Nat, speed : Nat, override : Nat, led : Nat, version : Nat]]

\* a command of a memory is one of its bytes
BusOK(b) == b \in BusSet /\ (b.target \in Memories => b.command < Cells)

\* the statuses of the cycles that were started, which interrupt the title until it
\* clears one of them
LineOK(b, use) ==
    "loose" \notin use => /\ b.gs # {} => b.en
                          /\ b.line => b.gs # {}
                          /\ "partial" \notin use => b.line = (b.gs # {})

\* the bytes the title wrote last are the last ones before the ring's offset
RingOK(b, s) ==
    /\ s \in Seq(Nat) /\ Len(s) <= Ring
    /\ \A k \in 1 .. Len(s) : b.block[Index(b.off + (Ring - Len(s)) + (k - 1))] = s[k]

\* the EEPROM and its file, and what they are meant to be
EepromOK == meant \in [cells : CellSet, file : CellSet] /\ EepromAsMeant

\* The inductive invariant of the SMBus.
SmbusInv == BusOK(bus) /\ chips \in ChipSet /\ LineOK(bus, wants) /\ RingOK(bus, sent) /\ EepromOK

\* What is left of a division, by what it is between.
LEMMA Remainder ==
    ASSUME NEW k \in Nat \ {0}, NEW n \in Nat, NEW r \in Nat, r < k
    PROVE  (n * k + r) % k = r
<1>1. PICK x \in Nat : x = n * k + r
  OBVIOUS
<1>2. n * k <= x /\ x < (n + 1) * k
  BY <1>1
<1>3. x \div k = n
  BY <1>2, Quotient
<1>4. x = (x \div k) * k + (x % k)
  BY <1>1
<1> QED BY <1>1, <1>3, <1>4

\* The ring's index, of a place at most one time around it.
LEMMA IndexIs ==
    ASSUME NEW i \in Nat, i < Ring + Ring
    PROVE  Index(i) = (IF i < Ring THEN i ELSE i - Ring) /\ Index(i) \in 0 .. Ring - 1
<1>1. Ring \in Nat \ {0}
  BY SmbusAssumption
<1>2. CASE i < Ring
  <2>1. (1 * Ring + i) % Ring = i
    BY <1>1, <1>2, Remainder
  <2>2. 1 * Ring + i = i + Ring
    BY <1>1
  <2> QED BY <1>1, <1>2, <2>1, <2>2 DEF Index
<1>3. CASE i >= Ring
  <2>1. PICK r \in Nat : r = i - Ring
    BY <1>1, <1>3
  <2>2. (2 * Ring + r) % Ring = r
    BY <1>1, <2>1, Remainder
  <2>3. 2 * Ring + r = i + Ring
    BY <1>1, <2>1
  <2> QED BY <1>1, <1>3, <2>1, <2>2, <2>3 DEF Index
<1> QED BY <1>1, <1>2, <1>3

\* Cycles leave a bus that is as it was but for the status and what was read.
Cycled(b) ==
    /\ BusOK(bus') /\ bus'.line = b.line /\ bus'.en = b.en /\ bus'.off = b.off
    /\ \E status \in Statuses : bus'.gs = b.gs \cup {status}

After(b, status, k, x, y) == [b EXCEPT !.gs = @ \cup {status}, !.block = k, !.data0 = x, !.data1 = y]

LEMMA CycledBus ==
    ASSUME NEW b, BusOK(b), NEW status \in Statuses, NEW k \in [0 .. Ring - 1 -> Nat], NEW x \in Nat, NEW y \in Nat,
           bus' = After(b, status, k, x, y)
    PROVE  Cycled(b) /\ bus'.block = k
<1>1. PICK c : c = After(b, status, k, x, y)
  OBVIOUS
<1>2. /\ BusOK(c) /\ c.gs = b.gs \cup {status} /\ c.line = b.line /\ c.en = b.en /\ c.off = b.off /\ c.block = k
  BY <1>1 DEF After, BusOK, BusSet
<1>3. bus' = c
  BY <1>1
<1> QED BY <1>2, <1>3 DEF Cycled

\* The same, of the bus with a status only.
LEMMA CycledBegun ==
    ASSUME NEW b, BusOK(b), NEW status \in Statuses, bus' = Begun(b, status)
    PROVE  Cycled(b) /\ bus'.block = b.block
<1>1. PICK k \in [0 .. Ring - 1 -> Nat], x \in Nat, y \in Nat : k = b.block /\ x = b.data0 /\ y = b.data1
  BY DEF BusOK, BusSet
<1>2. bus' = After(b, status, k, x, y)
  BY <1>1 DEF After, Begun, BusOK, BusSet
<1>3. Cycled(b) /\ bus'.block = k
  BY <1>2, CycledBus, Zenon
<1> QED BY <1>1, <1>3

LEMMA RingSame == ASSUME NEW b, NEW c, NEW s, RingOK(b, s), c.off = b.off, c.block = b.block PROVE RingOK(c, s)
BY DEF RingOK

LEMMA RingEmpty == ASSUME NEW c PROVE RingOK(c, <<>>)
<1>1. Len(<<>>) = 0 /\ <<>> \in Seq(Nat) /\ Ring \in Nat
  BY SmbusAssumption
<1> QED BY <1>1 DEF RingOK

\* the rest of what a cycle leaves
CycleKept(b) == Cycled(b) /\ chips' \in ChipSet /\ RingOK(bus', sent') /\ EepromOK'

LEMMA RefusedKeeps ==
    ASSUME NEW b, BusOK(b), chips \in ChipSet, RingOK(b, sent), EepromOK, Refused(b)
    PROVE  CycleKept(b)
<1>1. chips' = chips /\ meant' = meant
  BY DEF Refused
<1>2. CASE b.type = 5 /\ b.target # "none"
  <2>1. PICK k : k = [i \in 0 .. Ring - 1 |-> 0]
    OBVIOUS
  <2>2. k \in [0 .. Ring - 1 -> Nat]
    BY <2>1
  <2>3. PICK x \in Nat, y \in Nat : x = b.data0 /\ y = b.data1
    BY DEF BusOK, BusSet
  <2>4. bus' = After(b, "PRERR", k, x, y) /\ sent' = <<>>
    BY <1>2, <2>1, <2>3 DEF Refused, Begun, After, BusOK, BusSet
  <2>5. "PRERR" \in Statuses
    BY DEF Statuses
  <2>6. Cycled(b)
    BY <2>2, <2>4, <2>5, CycledBus, Zenon
  <2> QED BY <1>1, <2>4, <2>6, RingEmpty DEF CycleKept, EepromOK, EepromAsMeant
<1>3. CASE ~(b.type = 5 /\ b.target # "none")
  <2>1. bus' = Begun(b, "PRERR") /\ sent' = sent
    BY <1>3 DEF Refused, Begun, BusOK, BusSet
  <2>2. "PRERR" \in Statuses
    BY DEF Statuses
  <2>3. Cycled(b) /\ bus'.block = b.block
    BY <2>1, <2>2, CycledBegun, Zenon
  <2>4. RingOK(bus', sent)
    BY <2>3, RingSame DEF Cycled
  <2> QED BY <1>1, <2>1, <2>3, <2>4 DEF CycleKept, EepromOK, EepromAsMeant
<1> QED BY <1>2, <1>3

\* A cycle that only changes the first two data registers and the devices other than
\* the EEPROM.
LEMMA ShortCycle ==
    ASSUME NEW b, BusOK(b), RingOK(b, sent), EepromOK, NEW x \in Nat, NEW y \in Nat,
           bus' = After(b, "HCYC", b.block, x, y), sent' = sent, meant' = meant,
           chips' \in ChipSet, chips'.eeprom = chips.eeprom, chips'.file = chips.file
    PROVE  CycleKept(b)
<1>1. "HCYC" \in Statuses
  BY DEF Statuses
<1>2. PICK k \in [0 .. Ring - 1 -> Nat] : k = b.block
  BY DEF BusOK, BusSet
<1>3. bus' = After(b, "HCYC", k, x, y)
  BY <1>2
<1>4. Cycled(b) /\ bus'.block = k
  BY <1>1, <1>3, CycledBus, Zenon
<1>5. RingOK(bus', sent)
  BY <1>2, <1>4, RingSame DEF Cycled
<1> QED BY <1>4, <1>5 DEF CycleKept, EepromOK, EepromAsMeant

SmcSet == [mode : Nat, speed : Nat, override : Nat, led : Nat, version : Nat]

\* What the controller answers is a byte, and what is written to it leaves registers.
LEMMA SmcTypes ==
    ASSUME chips \in ChipSet
    PROVE  /\ \A command \in SmcReads : SmcByte(command) \in Nat
           /\ \A commands : SmcRead(chips.smc, commands) \in SmcSet
           /\ \A w : (\A c \in DOMAIN w : w[c] \in Nat) => SmcWritten(chips.smc, w) \in SmcSet
<1>1. chips.smc \in SmcSet /\ chips.tray \in Nat
  BY DEF ChipSet, SmcSet
<1>2. ASSUME NEW command \in SmcReads PROVE SmcByte(command) \in Nat
  <2>1. chips.smc.version \in Nat /\ chips.smc.speed \in Nat
    BY <1>1 DEF SmcSet
  <2> QED BY <1>1, <1>2, <2>1 DEF SmcReads, SmcByte, Temperature, VERSION_STR, TRAY_STATE, CPU_TEMPERATURE, MB_TEMPERATURE, READ_FAN_SPEED
<1>3. ASSUME NEW commands PROVE SmcRead(chips.smc, commands) \in SmcSet
  <2>1. PICK v \in Nat : v = IF VERSION_STR \in commands THEN 1 + (chips.smc.version % 3) ELSE chips.smc.version
    BY <1>1 DEF SmcSet
  <2>2. SmcRead(chips.smc, commands) = [chips.smc EXCEPT !.version = v]
    BY <1>1, <2>1 DEF SmcRead, SmcSet
  <2> QED BY <1>1, <2>2 DEF SmcSet
<1>4. ASSUME NEW w, \A c \in DOMAIN w : w[c] \in Nat
      PROVE  SmcWritten(chips.smc, w) \in SmcSet
  <2>1. PICK s \in SmcSet : s = chips.smc
    BY <1>1
  <2>2. \A c \in DOMAIN w : w[c] % 2 \in Nat
    BY <1>4
  <2>3. PICK m \in Nat : m = IF FAN_MODE \in DOMAIN w THEN w[FAN_MODE] % 2 ELSE s.mode
    BY <2>1, <2>2 DEF SmcSet
  <2>4. PICK p \in Nat : p = IF FAN_SPEED \in DOMAIN w /\ w[FAN_SPEED] <= MaxSpeed THEN w[FAN_SPEED] ELSE s.speed
    BY <1>4, <2>1 DEF SmcSet
  <2>5. PICK o \in Nat : o = IF LED_OVERRIDE \in DOMAIN w THEN w[LED_OVERRIDE] % 2 ELSE s.override
    BY <2>1, <2>2 DEF SmcSet
  <2>6. PICK l \in Nat : l = IF LED_STATES \in DOMAIN w THEN w[LED_STATES]
                             ELSE IF LED_OVERRIDE \in DOMAIN w /\ w[LED_OVERRIDE] % 2 = 0 THEN SolidGreen ELSE s.led
    BY <1>4, <2>1 DEF SmcSet, SolidGreen
  <2>7. PICK v \in Nat : v = IF VERSION_STR \in DOMAIN w /\ w[VERSION_STR] = 0 THEN 1 ELSE s.version
    BY <2>1 DEF SmcSet
  <2>8. SmcWritten(s, w) = [mode |-> m, speed |-> p, override |-> o, led |-> l, version |-> v]
    BY <2>3, <2>4, <2>5, <2>6, <2>7 DEF SmcWritten
  <2> QED BY <2>1, <2>8 DEF SmcSet
<1> QED BY <1>2, <1>3, <1>4

LEMMA SmcKeeps ==
    ASSUME NEW b, BusOK(b), chips \in ChipSet, RingOK(b, sent), EepromOK, SmcCycle(b),
           b.read => b.command \in SmcReads
    PROVE  CycleKept(b)
<1>1. /\ b.block \in [0 .. Ring - 1 -> Nat] /\ b.data0 \in Nat /\ b.data1 \in Nat /\ b.read \in BOOLEAN
  BY DEF BusOK, BusSet
<1>2. CASE b.read
  <2>1. PICK x \in Nat, s \in SmcSet : x = SmcByte(b.command) /\ s = SmcRead(chips.smc, {b.command})
    BY <1>2, SmcTypes
  <2>2. bus' = [Begun(b, "HCYC") EXCEPT !.data0 = x] /\ chips' = [chips EXCEPT !.smc = s] /\ sent' = sent /\ meant' = meant
    BY <1>2, <2>1 DEF SmcCycle, ChipSet
  <2>3. bus' = After(b, "HCYC", b.block, x, b.data1)
    BY <2>2 DEF After, Begun, BusOK, BusSet
  <2>4. chips' \in ChipSet /\ chips'.eeprom = chips.eeprom /\ chips'.file = chips.file
    BY <2>2 DEF ChipSet, SmcSet
  <2> QED BY <1>1, <2>2, <2>3, <2>4, ShortCycle
<1>3. CASE ~b.read
  <2>1. PICK w : w = [c \in {b.command} |-> b.data0]
    OBVIOUS
  <2>2. PICK s \in SmcSet : s = SmcWritten(chips.smc, w)
    BY <1>1, <2>1, SmcTypes
  <2>3. bus' = Begun(b, "HCYC") /\ chips' = [chips EXCEPT !.smc = s] /\ sent' = sent /\ meant' = meant
    BY <1>3, <2>1, <2>2 DEF SmcCycle, ChipSet
  <2>4. bus' = After(b, "HCYC", b.block, b.data0, b.data1)
    BY <2>3 DEF After, Begun, BusOK, BusSet
  <2>5. chips' \in ChipSet /\ chips'.eeprom = chips.eeprom /\ chips'.file = chips.file
    BY <2>3 DEF ChipSet, SmcSet
  <2> QED BY <1>1, <2>3, <2>4, <2>5, ShortCycle
<1> QED BY <1>2, <1>3

LEMMA MemoryKeeps ==
    ASSUME NEW b, BusOK(b), b.target \in Memories, b.type \in {2, 3}, b.type = 3 => b.command + 1 < Cells,
           b.command = bus.command,
           chips \in ChipSet, RingOK(b, sent), EepromOK, MemoryCycle(b)
    PROVE  CycleKept(b)
<1>1. /\ b.block \in [0 .. Ring - 1 -> Nat] /\ b.data0 \in Nat /\ b.data1 \in Nat /\ b.read \in BOOLEAN
      /\ b.command \in 0 .. Cells - 1 /\ Cells \in Nat
  BY SmbusAssumption DEF BusOK, BusSet
<1>2. PICK memory \in CellSet : memory = chips[b.target]
  BY DEF ChipSet, Memories
<1>3. PICK width \in {1, 2} : width = b.type - 1 /\ (width = 2 <=> b.type = 3)
  OBVIOUS
<1>4. b.command + width - 1 \in 0 .. Cells - 1 /\ (width = 2 => b.command + 1 \in 0 .. Cells - 1)
  BY <1>1, <1>3
<1>5. CASE b.read
  <2>1. PICK x \in Nat, y \in Nat : x = memory[b.command] /\ y = IF width = 2 THEN memory[b.command + 1] ELSE b.data1
    BY <1>1, <1>4 DEF CellSet
  <2>2. bus' = [Begun(b, "HCYC") EXCEPT !.data0 = x, !.data1 = y] /\ chips' = chips /\ sent' = sent /\ meant' = meant
    BY <1>2, <1>3, <1>5, <2>1 DEF MemoryCycle, Begun, BusOK, BusSet
  <2>3. bus' = After(b, "HCYC", b.block, x, y)
    BY <2>2 DEF After, Begun, BusOK, BusSet
  <2> QED BY <2>2, <2>3, ShortCycle
<1>6. CASE ~b.read
  <2>1. PICK written : written = [c \in 0 .. Cells - 1 |-> IF InBlock(c, width) THEN IF c = b.command THEN b.data0 ELSE b.data1 ELSE memory[c]]
    OBVIOUS
  <2>2. bus' = Begun(b, "HCYC") /\ sent' = sent /\ chips' = [chips EXCEPT ![b.target] = written]
    BY <1>2, <1>3, <1>6, <2>1 DEF MemoryCycle
  <2>3. bus' = After(b, "HCYC", b.block, b.data0, b.data1)
    BY <2>2 DEF After, Begun, BusOK, BusSet
  <2>4. written \in CellSet
    BY <1>1, <1>2, <2>1 DEF CellSet
  <2>5. CASE b.target = "conexant"
    <3>1. chips' \in ChipSet /\ chips'.eeprom = chips.eeprom /\ chips'.file = chips.file
      BY <2>2, <2>4, <2>5 DEF ChipSet
    <3>2. meant' = meant
      BY <1>6, <2>5 DEF MemoryCycle
    <3> QED BY <1>1, <2>2, <2>3, <3>1, <3>2, ShortCycle
  <2>6. CASE b.target = "eeprom"
    <3>1. chips' \in ChipSet /\ chips'.eeprom = written /\ chips'.file = chips.file
      BY <2>2, <2>4, <2>6 DEF ChipSet
    <3>2. meant' = [meant EXCEPT !.cells[b.command] = b.data0, !.cells[b.command + width - 1] = IF width = 2 THEN b.data1 ELSE b.data0]
      BY <1>3, <1>6, <2>6 DEF MemoryCycle
    <3>3. meant.cells = memory /\ meant.file = chips.file
      BY <1>2, <2>6 DEF EepromOK, EepromAsMeant
    <3>4. written = [[memory EXCEPT ![b.command] = b.data0] EXCEPT ![b.command + width - 1] = IF width = 2 THEN b.data1 ELSE b.data0]
      <4>1. PICK twice : twice = [[memory EXCEPT ![b.command] = b.data0] EXCEPT ![b.command + width - 1] = IF width = 2 THEN b.data1 ELSE b.data0]
        OBVIOUS
      <4>2. DOMAIN memory = 0 .. Cells - 1 /\ DOMAIN written = 0 .. Cells - 1 /\ DOMAIN twice = 0 .. Cells - 1
        BY <2>1, <4>1 DEF CellSet
      <4>3. ASSUME NEW c \in 0 .. Cells - 1 PROVE written[c] = twice[c]
        <5>1. c \in Nat /\ written[c] = IF InBlock(c, width) THEN IF c = b.command THEN b.data0 ELSE b.data1 ELSE memory[c]
          BY <2>1
        <5>2. CASE width = 1
          <6>1. InBlock(c, width) <=> c = b.command
            BY <1>1, <5>1, <5>2 DEF InBlock
          <6>2. b.command + width - 1 = b.command
            BY <1>1, <5>2
          <6> QED BY <1>1, <4>1, <4>2, <5>1, <5>2, <6>1, <6>2
        <5>3. CASE width = 2
          <6>1. InBlock(c, width) <=> c = b.command \/ c = b.command + 1
            BY <1>1, <5>1, <5>3 DEF InBlock
          <6>2. b.command + width - 1 = b.command + 1 /\ b.command + 1 # b.command
            BY <1>1, <5>3
          <6> QED BY <1>1, <1>4, <4>1, <4>2, <5>1, <5>3, <6>1, <6>2
        <5> QED BY <5>2, <5>3
      <4>4. written = twice
        <5>1. written = [c \in 0 .. Cells - 1 |-> written[c]] /\ twice = [c \in 0 .. Cells - 1 |-> twice[c]]
          BY <2>1, <4>1, <4>2 DEF CellSet
        <5> QED BY <4>3, <5>1
      <4> QED BY <4>1, <4>4
    <3>5. meant'.cells = written /\ meant'.file = meant.file /\ meant' \in [cells : CellSet, file : CellSet]
      <4>1. meant \in [cells : CellSet, file : CellSet]
        BY DEF EepromOK
      <4>2. meant' = [meant EXCEPT !.cells = [[memory EXCEPT ![b.command] = b.data0] EXCEPT ![b.command + width - 1] = IF width = 2 THEN b.data1 ELSE b.data0]]
        BY <3>2, <3>3, <4>1
      <4>3. meant' = [meant EXCEPT !.cells = written]
        BY <3>4, <4>2
      <4> QED BY <2>4, <4>1, <4>3
    <3>6. Cycled(b) /\ RingOK(bus', sent')
      <4>1. "HCYC" \in Statuses
        BY DEF Statuses
      <4>2. Cycled(b) /\ bus'.block = b.block
        BY <2>2, <4>1, CycledBegun, Zenon
      <4> QED BY <2>2, <4>2, RingSame DEF Cycled
    <3> QED BY <3>1, <3>3, <3>5, <3>6 DEF CycleKept, EepromOK, EepromAsMeant
  <2> QED BY <2>5, <2>6 DEF Memories
<1> QED BY <1>1, <1>5, <1>6

\* What a device answers to a command of a block is a byte.
LEMMA BlockAnswerIs ==
    ASSUME NEW b, BusOK(b), b.target # "none", chips \in ChipSet, NEW i \in Nat,
           b.target = "smc" => b.command + i \in SmcReads
    PROVE  BlockAnswer(b, i) \in Nat
<1>1. b.target \in Targets /\ b.command \in Nat /\ Cells \in Nat \ {0}
  BY SmbusAssumption DEF BusOK, BusSet
<1>2. CASE b.target \in Memories
  <2>1. PICK memory \in CellSet : memory = chips[b.target]
    BY <1>2 DEF ChipSet, Memories
  <2>2. PICK x \in Nat : x = b.command + i
    BY <1>1
  <2>3. x % Cells \in 0 .. Cells - 1
    BY <1>1, <2>2
  <2>4. memory[x % Cells] \in Nat
    BY <2>3 DEF CellSet
  <2>5. BlockAnswer(b, i) = chips[b.target][(b.command + i) % Cells]
    BY <1>2 DEF BlockAnswer, Memories
  <2> QED BY <2>1, <2>2, <2>4, <2>5
<1>3. CASE b.target = "smc"
  <2>1. SmcByte(b.command + i) \in Nat
    BY <1>3, SmcTypes
  <2> QED BY <1>3, <2>1 DEF BlockAnswer, Memories
<1>4. CASE b.target = "adm1032"
  BY <1>4 DEF BlockAnswer, Memories, Temperature
<1> QED BY <1>1, <1>2, <1>3, <1>4 DEF Targets, Memories

\* A block that is written to a memory: the bytes that were sent last are the ones
\* before the offset.
LEMMA BlockStored ==
    ASSUME NEW b, BusOK(b), b.target \in Memories, b.off = bus.off, b.block = bus.block, NEW n \in 0 .. Ring,
           chips \in ChipSet, RingOK(b, sent), EepromOK, BlockWritten(b, n)
    PROVE  CycleKept(b)
<1>1. /\ b.block \in [0 .. Ring - 1 -> Nat] /\ b.data0 \in Nat /\ b.data1 \in Nat /\ b.off \in 0 .. Ring - 1
      /\ b.command \in 0 .. Cells - 1 /\ Cells \in Nat \ {0} /\ Ring \in Nat \ {0} /\ "HCYC" \in Statuses
  BY SmbusAssumption DEF BusOK, BusSet, Statuses
<1>2. PICK memory \in CellSet : memory = chips[b.target]
  BY DEF ChipSet, Memories
<1>3. PICK written : written = [c \in 0 .. Cells - 1 |-> IF Part(b, c) < n THEN SentBefore(Part(b, c), n) ELSE memory[c]]
  OBVIOUS
<1>4. bus' = Begun(b, "HCYC") /\ sent' = sent /\ chips' = [chips EXCEPT ![b.target] = written]
  <2>1. chips' = [chips EXCEPT ![b.target] = [c \in 0 .. Cells - 1 |-> IF Part(b, c) < n THEN SentBefore(Part(b, c), n) ELSE @[c]]]
    BY DEF BlockWritten, Memories
  <2> QED BY <1>2, <1>3, <2>1 DEF BlockWritten
<1>5. Cycled(b) /\ bus'.block = b.block
  BY <1>1, <1>4, CycledBegun, Zenon
<1>6. RingOK(bus', sent')
  BY <1>4, <1>5, RingSame DEF Cycled
<1>7. \A c \in 0 .. Cells - 1 : Part(b, c) \in Nat
  BY <1>1 DEF Part
<1>8. written \in CellSet
  <2>1. ASSUME NEW c \in 0 .. Cells - 1, Part(b, c) < n
        PROVE  SentBefore(Part(b, c), n) \in Nat
    <3>1. Part(b, c) \in Nat
      BY <1>7
    <3>2. bus.off + Ring - n + Part(b, c) \in Nat /\ bus.off + Ring - n + Part(b, c) < Ring + Ring
      <4>1. PICK y \in Nat : y = Part(b, c) /\ y < n
        BY <2>1, <3>1
      <4>2. PICK o \in Nat : o = bus.off /\ o < Ring /\ Ring \in Nat
        BY <1>1
      <4> QED BY <4>1, <4>2
    <3>3. Index(bus.off + Ring - n + Part(b, c)) \in 0 .. Ring - 1
      BY <3>2, IndexIs
    <3> QED BY <1>1, <3>3 DEF SentBefore
  <2> QED BY <1>2, <1>3, <2>1 DEF CellSet
<1>9. CASE b.target = "conexant"
  <2>1. chips' \in ChipSet /\ chips'.eeprom = chips.eeprom /\ chips'.file = chips.file
    BY <1>4, <1>8, <1>9 DEF ChipSet
  <2>2. meant' = meant
    BY <1>9 DEF BlockWritten
  <2> QED BY <1>5, <1>6, <2>1, <2>2 DEF CycleKept, EepromOK, EepromAsMeant
<1>10. CASE b.target = "eeprom"
  <2>1. chips' \in ChipSet /\ chips'.eeprom = written /\ chips'.file = chips.file
    BY <1>4, <1>8, <1>10 DEF ChipSet
  <2>2. meant' = IF Len(sent) < n THEN [meant EXCEPT !.cells = chips'.eeprom]
                 ELSE [meant EXCEPT !.cells = [c \in 0 .. Cells - 1 |-> IF Part(b, c) < n THEN sent[Len(sent) - n + 1 + Part(b, c)] ELSE @[c]]]
    BY <1>10 DEF BlockWritten
  <2>3. meant \in [cells : CellSet, file : CellSet] /\ meant.cells = memory /\ meant.file = chips.file
    BY <1>2, <1>10 DEF EepromOK, EepromAsMeant
  <2>4. ASSUME Len(sent) >= n
        PROVE  written = [c \in 0 .. Cells - 1 |-> IF Part(b, c) < n THEN sent[Len(sent) - n + 1 + Part(b, c)] ELSE memory[c]]
    <3>1. ASSUME NEW c \in 0 .. Cells - 1, Part(b, c) < n
          PROVE  SentBefore(Part(b, c), n) = sent[Len(sent) - n + 1 + Part(b, c)]
      <4>1. Part(b, c) \in Nat /\ Len(sent) \in Nat /\ Len(sent) <= Ring
        BY <1>7 DEF RingOK
      <4>2. PICK i : i = Len(sent) - n + 1 + Part(b, c)
        OBVIOUS
      <4>3. i \in 1 .. Len(sent)
        BY <2>4, <3>1, <4>1, <4>2
      <4>4. b.block[Index(b.off + (Ring - Len(sent)) + (i - 1))] = sent[i]
        BY <4>3 DEF RingOK
      <4>5. b.off + (Ring - Len(sent)) + (i - 1) = bus.off + Ring - n + Part(b, c)
        <5>1. PICK a \in Nat, l \in Nat, o \in Nat : a = Part(b, c) /\ l = Len(sent) /\ o = b.off /\ o = bus.off
          BY <1>1, <4>1
        <5>2. i = (l - n) + 1 + a
          BY <4>2, <5>1
        <5>3. Ring \in Int /\ n \in Int
          BY <1>1
        <5>4. o + (Ring - l) + (i - 1) = o + (Ring - n) + a
          <6>1. i \in Int /\ o \in Int /\ l \in Int /\ a \in Int
            BY <5>1, <5>2, <5>3
          <6>2. i - 1 = (l - n) + a
            BY <5>1, <5>2, <5>3
          <6> QED BY <5>3, <6>1, <6>2
        <5> QED BY <5>1, <5>4
      <4> QED BY <4>2, <4>4, <4>5 DEF SentBefore
    <3> QED BY <1>3, <3>1
  <2>5. meant' = [meant EXCEPT !.cells = written]
    <3>1. CASE Len(sent) < n
      BY <2>1, <2>2, <3>1
    <3>2. CASE ~(Len(sent) < n)
      <4>1. Len(sent) >= n
        BY <3>2 DEF RingOK
      <4>2. meant' = [meant EXCEPT !.cells = [c \in 0 .. Cells - 1 |-> IF Part(b, c) < n THEN sent[Len(sent) - n + 1 + Part(b, c)] ELSE memory[c]]]
        BY <2>2, <2>3, <3>2
      <4> QED BY <2>4, <4>1, <4>2
    <3> QED BY <3>1, <3>2
  <2>6. meant' \in [cells : CellSet, file : CellSet] /\ meant'.cells = written /\ meant'.file = meant.file
    BY <1>8, <2>3, <2>5
  <2> QED BY <1>5, <1>6, <2>1, <2>3, <2>6 DEF CycleKept, EepromOK, EepromAsMeant
<1> QED BY <1>9, <1>10 DEF Memories


\* A block from or to any device.
LEMMA BlockKeeps ==
    ASSUME NEW b, BusOK(b), b.target # "none", b.off = bus.off, b.block = bus.block, b.command = bus.command,
           b.target = "smc" /\ b.read => \A i \in 0 .. Ring - 1 : i < b.data0 => b.command + i \in SmcReads,
           chips \in ChipSet, RingOK(b, sent), EepromOK, BlockCycle(b)
    PROVE  CycleKept(b)
<1>1. /\ b.block \in [0 .. Ring - 1 -> Nat] /\ b.data0 \in Nat /\ b.data1 \in Nat /\ b.off \in 0 .. Ring - 1
      /\ b.command \in Nat /\ Cells \in Nat \ {0} /\ Ring \in Nat \ {0} /\ "HCYC" \in Statuses /\ b.target \in Targets
  BY SmbusAssumption DEF BusOK, BusSet, Statuses
<1>3. PICK n \in 0 .. Ring : n = Bounded(b.data0) /\ n <= b.data0
  BY <1>1 DEF Bounded
<1>4. CASE b.read
  <2>0. BlockRead(b, n)
    BY <1>3, <1>4 DEF BlockCycle
  <2>1. PICK k : k = [i \in 0 .. Ring - 1 |-> IF Index(i + Ring - b.off) < n THEN BlockAnswer(b, Index(i + Ring - b.off)) ELSE b.block[i]]
    OBVIOUS
  <2>2. bus' = [Begun(b, "HCYC") EXCEPT !.block = k] /\ sent' = <<>> /\ meant' = meant
    BY <2>0, <2>1 DEF BlockRead, Begun, BusOK, BusSet
  <2>3. k \in [0 .. Ring - 1 -> Nat]
    <3>1. ASSUME NEW i \in 0 .. Ring - 1, Index(i + Ring - b.off) < n
          PROVE  BlockAnswer(b, Index(i + Ring - b.off)) \in Nat
      <4>1. PICK z \in Nat : z = i + Ring - b.off /\ z < Ring + Ring
        <5>1. i \in Nat /\ i < Ring /\ Ring - b.off \in Nat /\ Ring - b.off <= Ring /\ Ring \in Nat
          BY <1>1
        <5>2. PICK y \in Nat : y = Ring - b.off /\ y <= Ring
          BY <5>1
        <5> QED BY <5>1, <5>2
      <4>2. Index(z) \in 0 .. Ring - 1
        BY <4>1, IndexIs
      <4>3. PICK x \in 0 .. Ring - 1 : x = Index(i + Ring - b.off)
        BY <4>1, <4>2
      <4>4. x \in Nat /\ x < b.data0
        BY <1>1, <1>3, <3>1, <4>3
      <4>5. b.target = "smc" => b.command + x \in SmcReads
        BY <1>4, <4>3, <4>4
      <4>6. BlockAnswer(b, x) \in Nat
        BY <4>4, <4>5, BlockAnswerIs
      <4> QED BY <4>3, <4>6
    <3> QED BY <1>1, <2>1, <3>1
  <2>4. bus' = After(b, "HCYC", k, b.data0, b.data1)
    BY <2>2 DEF After, Begun, BusOK, BusSet
  <2>5. PICK x \in Nat, y \in Nat : x = b.data0 /\ y = b.data1
    BY <1>1
  <2>6. bus' = After(b, "HCYC", k, x, y)
    BY <2>4, <2>5
  <2>7. Cycled(b)
    BY <1>1, <2>3, <2>6, CycledBus, Zenon
  <2>8. chips' \in ChipSet /\ chips'.eeprom = chips.eeprom /\ chips'.file = chips.file
    <3>1. PICK s \in SmcSet : s = SmcRead(chips.smc, {c \in SmcReads : InBlock(c, n)})
      BY SmcTypes
    <3>2. chips' = IF b.target # "smc" THEN chips ELSE [chips EXCEPT !.smc = s]
      BY <2>0, <3>1 DEF BlockRead, ChipSet
    <3> QED BY <3>2 DEF ChipSet, SmcSet
  <2> QED BY <2>2, <2>7, <2>8, RingEmpty DEF CycleKept, EepromOK, EepromAsMeant
<1>5. CASE ~b.read
  <2> DEFINE at(c) == Part(b, c)
  <2>0. BlockWritten(b, n)
    BY <1>3, <1>5 DEF BlockCycle
  <2>2. bus' = Begun(b, "HCYC") /\ sent' = sent
    BY <2>0 DEF BlockWritten
  <2>3. Cycled(b) /\ bus'.block = b.block
    BY <1>1, <2>2, CycledBegun, Zenon
  <2>4. RingOK(bus', sent')
    BY <2>2, <2>3, RingSame DEF Cycled
  <2>5. ASSUME NEW i \in Nat, i < n
        PROVE  SentBefore(i, n) \in Nat
    <3>1. bus.off + Ring - n + i \in Nat /\ bus.off + Ring - n + i < Ring + Ring
      <4>1. PICK o \in Nat : o = bus.off /\ o < Ring /\ Ring \in Nat
        BY <1>1
      <4> QED BY <1>3, <2>5, <4>1
    <3>2. Index(bus.off + Ring - n + i) \in 0 .. Ring - 1
      BY <3>1, IndexIs
    <3> QED BY <1>1, <3>2 DEF SentBefore
  <2>10. CASE b.target = "smc"
    <3>1. PICK w : w = [c \in {x \in SmcWrites : InBlock(x, n)} |-> SentBefore(c - b.command, n)]
      OBVIOUS
    <3>2. chips' = [chips EXCEPT !.smc = SmcWritten(@, w)] /\ meant' = meant
      BY <2>0, <2>10, <3>1 DEF BlockWritten, Memories
    <3>3. \A c \in DOMAIN w : w[c] \in Nat
      <4>1. ASSUME NEW c \in SmcWrites, InBlock(c, n) PROVE SentBefore(c - b.command, n) \in Nat
        <5>1. c \in Nat
          BY DEF SmcWrites, VERSION_STR, FAN_MODE, FAN_SPEED, LED_OVERRIDE, LED_STATES
        <5>2. c >= b.command /\ c < b.command + n
          BY <4>1 DEF InBlock
        <5>3. PICK i \in Nat : i = c - b.command /\ i < n
          BY <1>1, <1>3, <5>1, <5>2
        <5>4. SentBefore(i, n) \in Nat
          BY <2>5, <5>3
        <5> QED BY <5>3, <5>4
      <4> QED BY <3>1, <4>1
    <3>4. PICK s \in SmcSet : s = SmcWritten(chips.smc, w)
      BY <3>3, SmcTypes
    <3>5. chips' \in ChipSet /\ chips'.eeprom = chips.eeprom /\ chips'.file = chips.file
      BY <3>2, <3>4 DEF ChipSet, SmcSet
    <3> QED BY <2>3, <2>4, <3>2, <3>5 DEF CycleKept, EepromOK, EepromAsMeant
  <2>11. CASE b.target = "adm1032"
    <3>1. chips' = chips /\ meant' = meant
      BY <2>0, <2>11 DEF BlockWritten, Memories
    <3> QED BY <2>3, <2>4, <3>1 DEF CycleKept, EepromOK, EepromAsMeant
  <2>12. CASE b.target \in Memories
    BY <1>3, <2>0, <2>12, BlockStored
  <2> QED BY <1>1, <2>10, <2>11, <2>12 DEF Targets, Memories
<1> QED BY <1>1, <1>4, <1>5 DEF BusOK, BusSet

LEMMA CycleKeeps ==
    ASSUME NEW b, BusOK(b), b.command = bus.command, b.off = bus.off, b.block = bus.block,
           b.target = "smc" /\ b.read /\ b.type \in {2, 5} =>
               \A i \in 0 .. Ring - 1 : i < (IF b.type = 2 THEN 1 ELSE b.data0) => b.command + i \in SmcReads,
           b.type = 3 => b.command + 1 < Cells \/ b.target \notin Memories,
           chips \in ChipSet, RingOK(b, sent), EepromOK, Cycle(b)
    PROVE  CycleKept(b)
<1>1. /\ b.target \in Targets /\ b.data0 \in Nat /\ b.data1 \in Nat
  BY DEF BusOK, BusSet
<1>2. CASE ~Succeeds(b)
  <2>1. Refused(b)
    BY <1>2 DEF Cycle
  <2> QED BY <2>1, RefusedKeeps
<1>3. CASE Succeeds(b) /\ b.type \in {0, 1}
  <2>1. PICK x \in Nat : x = IF b.type = 1 /\ b.read THEN 0 ELSE b.data0
    BY <1>1
  <2>2. bus' = [Begun(b, "HCYC") EXCEPT !.data0 = x] /\ chips' = chips /\ meant' = meant /\ sent' = sent
    BY <1>3, <2>1 DEF Cycle, Begun, BusOK, BusSet
  <2>3. bus' = After(b, "HCYC", b.block, x, b.data1)
    BY <2>2 DEF After, Begun, BusOK, BusSet
  <2> QED BY <1>1, <2>2, <2>3, ShortCycle
<1>4. CASE Succeeds(b) /\ b.type = 5
  <2>1. BlockCycle(b)
    BY <1>4 DEF Cycle
  <2>2. b.target # "none"
    BY <1>4 DEF Succeeds, Knows
  <2>3. b.target = "smc" /\ b.read => \A i \in 0 .. Ring - 1 : i < b.data0 => b.command + i \in SmcReads
    BY <1>4
  <2> QED BY <2>1, <2>2, <2>3, BlockKeeps
<1>5. CASE Succeeds(b) /\ b.type \notin {0, 1, 5} /\ b.target = "smc"
  <2>1. b.type = 2 /\ SmcCycle(b)
    BY <1>5 DEF Cycle, Succeeds, Knows
  <2>2. b.read => b.command \in SmcReads
    <3>1. Ring \in Nat \ {0} /\ 0 \in 0 .. Ring - 1
      BY SmbusAssumption
    <3>2. b.read => b.command + 0 \in SmcReads
      BY <1>5, <2>1, <3>1
    <3>3. b.command + 0 = b.command
      BY DEF BusOK, BusSet
    <3> QED BY <3>2, <3>3
  <2> QED BY <2>1, <2>2, SmcKeeps
<1>6. CASE Succeeds(b) /\ b.type \notin {0, 1, 5} /\ b.target = "adm1032"
  <2>1. PICK x \in Nat : x = Temperature(b.command)
    BY DEF Temperature
  <2>2. bus' = [Begun(b, "HCYC") EXCEPT !.data0 = x] /\ chips' = chips /\ meant' = meant /\ sent' = sent
    BY <1>6, <2>1 DEF Cycle
  <2>3. bus' = After(b, "HCYC", b.block, x, b.data1)
    BY <2>2 DEF After, Begun, BusOK, BusSet
  <2> QED BY <1>1, <2>2, <2>3, ShortCycle
<1>7. CASE Succeeds(b) /\ b.type \notin {0, 1, 5} /\ b.target \notin {"smc", "adm1032"}
  <2>1. b.type \in {2, 3} /\ b.target \in Memories /\ MemoryCycle(b)
    BY <1>1, <1>7 DEF Cycle, Succeeds, Knows, Memories, Targets
  <2> QED BY <2>1, MemoryKeeps
<1> QED BY <1>2, <1>3, <1>4, <1>5, <1>6, <1>7

\* A write to a register of the host that starts nothing.
LEMMA BusWritten ==
    ASSUME SmbusInv, BusOK(bus'), LineOK(bus', wants), bus'.off = bus.off, bus'.block = bus.block,
           UNCHANGED <<chips, meant, sent, wants>>
    PROVE  SmbusInv'
<1>1. RingOK(bus', sent)
  BY RingSame DEF SmbusInv
<1> QED BY <1>1 DEF SmbusInv, EepromOK, EepromAsMeant

LEMMA StatusKeeps == ASSUME SmbusInv, NEW clear \in SUBSET Statuses, WriteStatus(clear) PROVE SmbusInv'
<1>1. BusOK(bus) /\ LineOK(bus, wants) /\ bus \in BusSet
  BY DEF SmbusInv, BusOK
<1>2. PICK gs \in SUBSET Statuses : gs = bus.gs \ clear
  BY <1>1 DEF BusSet
<1>3. PICK line \in BOOLEAN : line = IF bus.en /\ clear \cap bus.gs # {} THEN FALSE ELSE bus.line
  BY <1>1 DEF BusSet
<1>4. bus' = [bus EXCEPT !.gs = gs, !.line = line] /\ UNCHANGED <<chips, meant, sent, wants>>
  BY <1>1, <1>2, <1>3 DEF WriteStatus, Cleared, BusSet
<1>5. /\ BusOK(bus') /\ bus'.gs = gs /\ bus'.line = line /\ bus'.en = bus.en /\ bus'.off = bus.off /\ bus'.block = bus.block
  BY <1>1, <1>4 DEF BusOK, BusSet
<1>6. LineOK(bus', wants)
  <2> SUFFICES ASSUME "loose" \notin wants
               PROVE  /\ gs # {} => bus.en
                      /\ line => gs # {}
                      /\ "partial" \notin wants => line = (gs # {})
    BY <1>5 DEF LineOK
  <2>1. /\ bus.gs # {} => bus.en
        /\ bus.line => bus.gs # {}
        /\ "partial" \notin wants => bus.line = (bus.gs # {})
    BY <1>1 DEF LineOK
  <2>2. CASE clear \cap bus.gs = {}
    <3>1. gs = bus.gs
      BY <1>2, <2>2
    <3>2. line = bus.line
      BY <1>3, <2>2
    <3> QED BY <2>1, <3>1, <3>2
  <2>3. CASE clear \cap bus.gs # {}
    <3>1. bus.en
      BY <2>1, <2>3
    <3>2. line = FALSE
      BY <1>3, <2>3, <3>1
    <3>3. gs # {} => bus.en
      BY <3>1
    <3>4. "partial" \notin wants => gs = {}
      <4>1. "partial" \notin wants => clear = Statuses
        BY DEF WriteStatus
      <4>2. bus.gs \subseteq Statuses
        BY <1>1 DEF BusSet
      <4> QED BY <1>2, <4>1, <4>2
    <3> QED BY <3>2, <3>3, <3>4
  <2> QED BY <2>2, <2>3
<1> QED BY <1>4, <1>5, <1>6, BusWritten

\* the bus after a write to CONTROL
LEMMA ControlBus ==
    ASSUME BusOK(bus), NEW type \in Nat, NEW en \in BOOLEAN
    PROVE  LET c == Control(type, en) IN
           /\ BusOK(c) /\ c.gs = bus.gs /\ c.en = en /\ c.line = (en \/ bus.line) /\ c.off = bus.off /\ c.block = bus.block
           /\ c.type = type /\ c.target = bus.target /\ c.command = bus.command /\ c.read = bus.read
<1>1. PICK line \in BOOLEAN : line = (en \/ bus.line)
  BY DEF BusOK, BusSet
<1>2. PICK c : c = [bus EXCEPT !.type = type, !.en = en, !.line = line]
  OBVIOUS
<1>3. Control(type, en) = c
  BY <1>1, <1>2 DEF Control, Raised, BusOK, BusSet
<1>4. /\ BusOK(c) /\ c.gs = bus.gs /\ c.en = en /\ c.line = line /\ c.off = bus.off /\ c.block = bus.block
      /\ c.type = type /\ c.target = bus.target /\ c.command = bus.command /\ c.read = bus.read
  BY <1>2 DEF BusOK, BusSet
<1> QED BY <1>1, <1>3, <1>4

LEMMA ControlKeeps ==
    ASSUME SmbusInv, NEW type \in Types, NEW en \in BOOLEAN, NEW start \in BOOLEAN, Sensible(type), WriteControl(type, en, start)
    PROVE  SmbusInv'
<1>1. BusOK(bus) /\ LineOK(bus, wants) /\ RingOK(bus, sent) /\ chips \in ChipSet /\ EepromOK /\ type \in Nat
  BY DEF SmbusInv, Types
<1>2. PICK b : b = Control(type, en)
  OBVIOUS
<1>3. /\ BusOK(b) /\ b.gs = bus.gs /\ b.en = en /\ b.line = (en \/ bus.line) /\ b.off = bus.off /\ b.block = bus.block
      /\ b.type = type /\ b.target = bus.target /\ b.command = bus.command /\ b.read = bus.read
  BY <1>1, <1>2, ControlBus
<1>4. CASE ~start
  <2>1. bus' = b /\ UNCHANGED <<chips, meant, sent, wants>> /\ "loose" \in wants
    BY <1>2, <1>4 DEF WriteControl
  <2>2. LineOK(bus', wants)
    BY <2>1 DEF LineOK
  <2> QED BY <1>3, <2>1, <2>2, BusWritten
<1>5. CASE start
  <2>1. Cycle(b) /\ wants' = wants /\ ("loose" \notin wants => en)
    BY <1>2, <1>5 DEF WriteControl
  <2>2. b.type = 3 => b.command + 1 < Cells \/ b.target \notin Memories
    <3>1. bus \in BusSet
      BY <1>1 DEF BusOK
    <3>2. [bus EXCEPT !.type = type].type = type
      BY <3>1 DEF BusSet
    <3> QED BY <1>3, <3>2 DEF Sensible
  <2>3. RingOK(b, sent)
    BY <1>1, <1>3, RingSame
  <2>4. CycleKept(b)
    <3>1. b.data0 = bus.data0
      BY <1>1, <1>2 DEF Control, Raised, BusOK, BusSet
    <3>2. b.target = "smc" /\ b.read /\ b.type \in {2, 5} =>
            \A i \in 0 .. Ring - 1 : i < (IF b.type = 2 THEN 1 ELSE b.data0) => b.command + i \in SmcReads
      BY <1>3, <3>1 DEF Sensible, SmcCommands
    <3> QED BY <1>1, <1>3, <2>1, <2>2, <2>3, <3>2, CycleKeeps
  <2>5. LineOK(bus', wants)
    <3> SUFFICES ASSUME "loose" \notin wants
                 PROVE  bus'.gs # {} /\ bus'.en = TRUE /\ bus'.line = TRUE
      BY DEF LineOK
    <3>1. bus'.line = b.line /\ bus'.en = b.en /\ \E status \in Statuses : bus'.gs = b.gs \cup {status}
      BY <2>4 DEF CycleKept, Cycled
    <3>2. bus'.gs # {}
      BY <3>1
    <3>3. bus'.en = TRUE /\ bus'.line = TRUE
      BY <1>3, <2>1, <3>1
    <3> QED BY <3>2, <3>3
  <2> QED BY <2>1, <2>4, <2>5 DEF SmbusInv, CycleKept, Cycled
<1> QED BY <1>4, <1>5

LEMMA AbortKeeps == ASSUME SmbusInv, NEW en \in BOOLEAN, Abort(en) PROVE SmbusInv'
<1>1. BusOK(bus) /\ bus.type \in Nat
  BY DEF SmbusInv, BusOK, BusSet
<1>2. PICK b : b = Control(bus.type, en)
  OBVIOUS
<1>3. BusOK(b) /\ b.off = bus.off /\ b.block = bus.block
  BY <1>1, <1>2, ControlBus
<1>4. PICK gs \in SUBSET Statuses : gs = b.gs \cup {"ABRT"}
  BY <1>3 DEF BusOK, BusSet, Statuses
<1>5. bus' = [b EXCEPT !.gs = gs] /\ UNCHANGED <<chips, meant, sent, wants>> /\ "loose" \in wants
  BY <1>2, <1>3, <1>4 DEF Abort, Begun, BusOK, BusSet
<1>6. BusOK(bus') /\ bus'.off = bus.off /\ bus'.block = bus.block
  BY <1>3, <1>5 DEF BusOK, BusSet
<1>7. LineOK(bus', wants)
  BY <1>5 DEF LineOK
<1> QED BY <1>5, <1>6, <1>7, BusWritten

LEMMA AddressKeeps == ASSUME SmbusInv, NEW target \in Reach, NEW read \in BOOLEAN, Address(target, read) PROVE SmbusInv'
<1>1. BusOK(bus) /\ LineOK(bus, wants) /\ target \in Targets
  BY DEF SmbusInv, Reach, Targets
<1>2. bus' = [bus EXCEPT !.target = target, !.read = read, !.command = 0] /\ UNCHANGED <<chips, meant, sent, wants>>
  BY DEF Address
<1>3. BusOK(bus') /\ bus'.off = bus.off /\ bus'.block = bus.block /\ bus'.gs = bus.gs /\ bus'.line = bus.line /\ bus'.en = bus.en
  <2>1. 0 < Cells
    BY SmbusAssumption
  <2>2. bus' \in BusSet /\ bus'.command = 0
    BY <1>1, <1>2 DEF BusOK, BusSet
  <2> QED BY <1>1, <1>2, <2>1, <2>2 DEF BusOK, BusSet
<1>4. LineOK(bus', wants)
  BY <1>1, <1>3 DEF LineOK
<1> QED BY <1>2, <1>3, <1>4, BusWritten

LEMMA ArgumentsKeep ==
    ASSUME SmbusInv, NEW command \in Nat, NEW data0 \in Nat, NEW data1 \in Nat, Arguments(command, data0, data1),
           bus.target \in Memories => command < Cells
    PROVE  SmbusInv'
<1>1. BusOK(bus) /\ LineOK(bus, wants)
  BY DEF SmbusInv
<1>2. bus' = [bus EXCEPT !.command = command, !.data0 = data0, !.data1 = data1] /\ UNCHANGED <<chips, meant, sent, wants>>
  BY DEF Arguments
<1>3. BusOK(bus') /\ bus'.off = bus.off /\ bus'.block = bus.block /\ bus'.gs = bus.gs /\ bus'.line = bus.line /\ bus'.en = bus.en
  BY <1>1, <1>2 DEF BusOK, BusSet
<1>4. LineOK(bus', wants)
  BY <1>1, <1>3 DEF LineOK
<1> QED BY <1>2, <1>3, <1>4, BusWritten

LEMMA TitleArgumentsKeep == ASSUME SmbusInv, TitleArguments PROVE SmbusInv'
<1>1. CASE /\ wants \cap {"cells", "blocks"} # {} /\ bus.target \in Memories
           /\ \E command \in 0 .. Cells - 1, data0 \in IF "blocks" \in wants THEN Counts ELSE Bytes, data1 \in Bytes :
                Arguments(command, data0, IF "blocks" \in wants THEN 0 ELSE data1)
  <2>1. PICK command \in 0 .. Cells - 1, data0 \in IF "blocks" \in wants THEN Counts ELSE Bytes, data1 \in Bytes :
            Arguments(command, data0, IF "blocks" \in wants THEN 0 ELSE data1)
    BY <1>1
  <2>2. PICK y \in Nat : y = IF "blocks" \in wants THEN 0 ELSE data1
    BY SmbusAssumption
  <2>3. command \in Nat /\ command < Cells /\ data0 \in Nat /\ Arguments(command, data0, y)
    BY <2>1, <2>2, SmbusAssumption
  <2> QED BY <2>3, ArgumentsKeep
<1>0. Amounts \subseteq Nat
  BY SmbusAssumption DEF Amounts, MaxSpeed
<1>2. CASE bus.target = "smc" /\ \E command \in SmcCommands, data0 \in Amounts : Arguments(command, data0, 0)
  <2>1. PICK command \in SmcCommands, data0 \in Amounts : Arguments(command, data0, 0)
    BY <1>2
  <2>2. command \in Nat /\ data0 \in Nat
    BY <1>0 DEF SmcCommands, SmcReads, SmcWrites, VERSION_STR, TRAY_STATE, CPU_TEMPERATURE, MB_TEMPERATURE, READ_FAN_SPEED,
           FAN_MODE, FAN_SPEED, LED_OVERRIDE, LED_STATES
  <2>3. bus.target \notin Memories
    BY <1>2 DEF Memories
  <2> QED BY <2>1, <2>2, <2>3, ArgumentsKeep
<1>3. CASE bus.target = "adm1032" /\ \E command \in {0, 1}, data0 \in Amounts : Arguments(command, data0, 0)
  <2>1. PICK command \in {0, 1}, data0 \in Amounts : Arguments(command, data0, 0) /\ command \in Nat /\ data0 \in Nat
    BY <1>0, <1>3
  <2>2. bus.target \notin Memories
    BY <1>3 DEF Memories
  <2> QED BY <2>1, <2>2, ArgumentsKeep
<1> QED BY <1>1, <1>2, <1>3 DEF TitleArguments

\* Where the byte is that was the j-th last one written to the FIFO.
Back(o, j) == Index(o + (Ring - j))

LEMMA BackMoves ==
    ASSUME NEW o \in 0 .. Ring - 1, NEW q, q = (o + 1) % Ring
    PROVE  /\ q \in 0 .. Ring - 1 /\ Back(q, 1) = o
           /\ \A j \in 1 .. Ring - 1 : Back(q, j + 1) = Back(o, j) /\ Back(o, j) # o /\ Back(o, j) \in 0 .. Ring - 1
<1>1. Ring \in Nat \ {0} /\ o \in Nat
  BY SmbusAssumption
<1>2. q = IF o + 1 < Ring THEN o + 1 ELSE 0
  <2>1. CASE o + 1 < Ring
    <3>1. (0 * Ring + (o + 1)) % Ring = o + 1
      BY <1>1, <2>1, Remainder
    <3> QED BY <1>1, <2>1, <3>1
  <2>2. CASE o + 1 = Ring
    <3>1. (1 * Ring + 0) % Ring = 0
      BY <1>1, Remainder
    <3>2. 1 * Ring + 0 = o + 1
      BY <1>1, <2>2
    <3> QED BY <1>1, <2>2, <3>1, <3>2
  <2> QED BY <1>1, <2>1, <2>2
<1>3. q \in 0 .. Ring - 1 /\ q \in Nat
  BY <1>1, <1>2
<1>4. Back(q, 1) = o
  <2>1. PICK x \in Nat : x = q + (Ring - 1) /\ x < Ring + Ring
    BY <1>1, <1>3
  <2>2. Index(x) = IF x < Ring THEN x ELSE x - Ring
    BY <2>1, IndexIs
  <2>3. Index(x) = o
    BY <1>1, <1>2, <2>1, <2>2
  <2> QED BY <2>1, <2>3 DEF Back
<1>5. ASSUME NEW j \in 1 .. Ring - 1
      PROVE  Back(q, j + 1) = Back(o, j) /\ Back(o, j) # o /\ Back(o, j) \in 0 .. Ring - 1
  <2>1. PICK x \in Nat, y \in Nat : x = o + (Ring - j) /\ y = q + (Ring - (j + 1)) /\ x < Ring + Ring /\ y < Ring + Ring
    <3>1. j \in Nat /\ 1 <= j /\ j + 1 <= Ring
      BY <1>1, <1>5
    <3>2. o + (Ring - j) \in Nat /\ o + (Ring - j) < Ring + Ring
      BY <1>1, <3>1
    <3>3. q + (Ring - (j + 1)) \in Nat /\ q + (Ring - (j + 1)) < Ring + Ring
      BY <1>1, <1>3, <3>1
    <3> QED BY <3>2, <3>3
  <2>2. /\ Index(x) = (IF x < Ring THEN x ELSE x - Ring) /\ Index(x) \in 0 .. Ring - 1
        /\ Index(y) = (IF y < Ring THEN y ELSE y - Ring)
    BY <2>1, IndexIs
  <2>3. Back(o, j) = Index(x) /\ Back(q, j + 1) = Index(y)
    BY <2>1 DEF Back
  <2>4. Index(x) # o
    BY <1>1, <2>1, <2>2
  <2>5. Index(y) = Index(x)
    BY <1>1, <1>2, <2>1, <2>2
  <2> QED BY <2>2, <2>3, <2>4, <2>5
<1> QED BY <1>3, <1>4, <1>5

\* The same relation, counted from the last byte on.
LEMMA RingBack ==
    ASSUME NEW b, b.off \in 0 .. Ring - 1, NEW s \in Seq(Nat), Len(s) <= Ring
    PROVE  RingOK(b, s) <=> \A j \in 1 .. Len(s) : b.block[Back(b.off, j)] = s[Len(s) + 1 - j]
<1>1. PICK l \in Nat, o \in Nat : l = Len(s) /\ o = b.off
  OBVIOUS
<1>2. Ring \in Nat
  BY SmbusAssumption
<1>3. ASSUME NEW j \in 1 .. l, NEW k \in 1 .. l, k = l + 1 - j
      PROVE  Back(o, j) = Index(o + (Ring - l) + (k - 1))
  <2>1. o + (Ring - j) = o + (Ring - l) + (k - 1)
    BY <1>1, <1>2, <1>3
  <2> QED BY <2>1 DEF Back
<1>4. \A j \in 1 .. l : /\ l + 1 - j \in 1 .. l /\ l + 1 - (l + 1 - j) = j
  BY <1>1
<1>5. ASSUME RingOK(b, s), NEW j \in 1 .. l
      PROVE  b.block[Back(o, j)] = s[l + 1 - j]
  <2>1. PICK k \in 1 .. l : k = l + 1 - j
    BY <1>4, <1>5
  <2>2. b.block[Index(o + (Ring - l) + (k - 1))] = s[k]
    BY <1>1, <1>5 DEF RingOK
  <2> QED BY <1>3, <1>5, <2>1, <2>2
<1>6. ASSUME \A j \in 1 .. l : b.block[Back(o, j)] = s[l + 1 - j], NEW k \in 1 .. l
      PROVE  b.block[Index(o + (Ring - l) + (k - 1))] = s[k]
  <2>1. PICK j \in 1 .. l : j = l + 1 - k /\ k = l + 1 - j
    BY <1>4, <1>6
  <2>2. b.block[Back(o, j)] = s[k]
    BY <1>6, <2>1
  <2> QED BY <1>3, <1>6, <2>1, <2>2
<1> QED BY <1>1, <1>5, <1>6 DEF RingOK

\* A byte more is written.
LEMMA WriteFifoKeeps == ASSUME SmbusInv, NEW byte \in Bytes, WriteFifo(byte) PROVE SmbusInv'
<1>1. /\ BusOK(bus) /\ LineOK(bus, wants) /\ RingOK(bus, sent) /\ chips \in ChipSet /\ EepromOK
      /\ byte \in Nat /\ Ring \in Nat \ {0}
  BY SmbusAssumption DEF SmbusInv
<1>2. PICK o \in 0 .. Ring - 1, k \in [0 .. Ring - 1 -> Nat] : o = bus.off /\ k = bus.block
  BY <1>1 DEF BusOK, BusSet
<1>3. PICK q \in 0 .. Ring - 1 : q = (o + 1) % Ring
  BY <1>1
<1>4. PICK w \in [0 .. Ring - 1 -> Nat] : w = [k EXCEPT ![o] = byte]
  BY <1>1
<1>5. bus' = [bus EXCEPT !.block = w, !.off = q] /\ sent' = LastSent(Append(sent, byte)) /\ UNCHANGED <<chips, meant, wants>>
  BY <1>2, <1>3, <1>4 DEF WriteFifo
<1>6. BusOK(bus') /\ bus'.off = q /\ bus'.block = w /\ bus'.gs = bus.gs /\ bus'.line = bus.line /\ bus'.en = bus.en
  BY <1>1, <1>5 DEF BusOK, BusSet
<1>7. PICK l \in Nat : l = Len(sent) /\ l <= Ring /\ sent \in Seq(Nat)
  BY <1>1 DEF RingOK
<1>8. \A j \in 1 .. l : k[Back(o, j)] = sent[l + 1 - j]
  BY <1>1, <1>2, <1>7, RingBack
<1>9. /\ Back(q, 1) = o
      /\ \A j \in 1 .. Ring - 1 : Back(q, j + 1) = Back(o, j) /\ Back(o, j) # o /\ Back(o, j) \in 0 .. Ring - 1
  BY <1>3, BackMoves
<1>10. PICK a \in Seq(Nat) : a = Append(sent, byte) /\ Len(a) = l + 1 /\ a[l + 1] = byte /\ \A j \in 1 .. l : a[j] = sent[j]
  <2>1. /\ Append(sent, byte) \in Seq(Nat) /\ Len(Append(sent, byte)) = Len(sent) + 1
        /\ \A j \in 1 .. Len(sent) : Append(sent, byte)[j] = sent[j]
        /\ Append(sent, byte)[Len(sent) + 1] = byte
    BY <1>1, <1>7, AppendProperties
  <2> QED BY <1>7, <2>1
<1>11. PICK s \in Seq(Nat), n \in Nat :
         s = sent' /\ n = Len(s) /\ n <= Ring /\ n >= 1 /\ n <= l + 1 /\ \A j \in 1 .. n : s[j] = a[j + (l + 1 - n)]
  <2>0. PICK s, n : s = sent' /\ n = Len(s)
    OBVIOUS
  <2> SUFFICES /\ s \in Seq(Nat) /\ n \in Nat
               /\ n <= Ring /\ n >= 1 /\ n <= l + 1 /\ \A j \in 1 .. n : s[j] = a[j + (l + 1 - n)]
    BY <2>0
  <2>1. CASE l < Ring
    <3>1. sent' = a
      BY <1>1, <1>5, <1>7, <1>10, <2>1 DEF LastSent
    <3>2. l + 1 <= Ring /\ l + 1 >= 1 /\ l + 1 \in Nat
      BY <1>1, <1>7, <2>1
    <3>3. \A j \in 1 .. l + 1 : a[j] = a[j + (l + 1 - (l + 1))]
      <4>1. \A j \in 1 .. l + 1 : j + (l + 1 - (l + 1)) = j
        OBVIOUS
      <4> QED BY <4>1
    <3>4. s = a /\ n = l + 1
      BY <1>10, <2>0, <3>1
    <3> QED BY <1>10, <3>2, <3>3, <3>4
  <2>2. CASE l = Ring
    <3>1. sent' = Tail(a)
      BY <1>1, <1>5, <1>7, <1>10, <2>2 DEF LastSent
    <3>2. Tail(a) \in Seq(Nat) /\ Len(Tail(a)) = l /\ \A j \in 1 .. l : Tail(a)[j] = a[j + 1]
      <4>1. a # <<>>
        BY <1>10
      <4>2. Tail(a) \in Seq(Nat) /\ Len(Tail(a)) = Len(a) - 1
        BY <4>1, HeadTailProperties
      <4>3. Len(Tail(a)) = l
        BY <1>10, <4>2
      <4>4. \A j \in 1 .. Len(Tail(a)) : Tail(a)[j] = a[j + 1]
        BY <4>1, HeadTailProperties
      <4> QED BY <4>2, <4>3, <4>4
    <3>3. l <= Ring /\ l >= 1 /\ l <= l + 1
      BY <1>1, <2>2
    <3>4. \A j \in 1 .. l : Tail(a)[j] = a[j + (l + 1 - l)]
      <4>1. l + 1 - l = 1
        OBVIOUS
      <4> QED BY <3>2, <4>1
    <3>5. s = Tail(a) /\ n = l
      BY <2>0, <3>1, <3>2
    <3> QED BY <3>2, <3>3, <3>4, <3>5
  <2> QED BY <1>1, <1>7, <2>1, <2>2
<1>12. ASSUME NEW i \in 1 .. n PROVE w[Back(q, i)] = s[n + 1 - i]
  <2>0. n + 1 - i \in 1 .. n /\ (n + 1 - i) + (l + 1 - n) = l + 2 - i
    BY <1>12
  <2>1. s[n + 1 - i] = a[l + 2 - i]
    BY <1>11, <2>0
  <2>2. CASE i = 1
    <3>1. l + 2 - i = l + 1
      BY <2>2
    <3> QED BY <1>4, <1>9, <1>10, <2>1, <2>2, <3>1
  <2>3. CASE i # 1
    <3>1. PICK j \in Nat : i = j + 1 /\ j >= 1 /\ j <= l /\ j <= Ring - 1 /\ l + 2 - i = l + 1 - j /\ l + 1 - j \in 1 .. l
      <4>1. i \in Nat /\ i >= 2 /\ i <= l + 1 /\ i <= Ring
        <5>1. l \in Nat /\ Ring \in Nat
          BY <1>1, <1>7
        <5> QED BY <1>11, <1>12, <2>3, <5>1
      <4>2. i - 1 \in Nat /\ i = (i - 1) + 1 /\ i - 1 >= 1 /\ i - 1 <= l /\ i - 1 <= Ring - 1
        BY <1>1, <4>1
      <4>3. l + 2 - i = l + 1 - (i - 1) /\ l + 1 - (i - 1) \in 1 .. l
        BY <4>1
      <4> QED BY <4>2, <4>3
    <3>2. j \in 1 .. l /\ j \in 1 .. Ring - 1
      BY <1>1, <3>1
    <3>3. Back(q, i) = Back(o, j) /\ Back(o, j) # o /\ Back(o, j) \in 0 .. Ring - 1
      BY <1>9, <3>1, <3>2
    <3>4. w[Back(q, i)] = k[Back(o, j)]
      BY <1>4, <3>3
    <3>5. k[Back(o, j)] = sent[l + 1 - j]
      BY <1>8, <3>2
    <3>6. a[l + 2 - i] = sent[l + 1 - j]
      BY <1>10, <3>1
    <3> QED BY <2>1, <3>4, <3>5, <3>6
  <2> QED BY <2>2, <2>3
<1>13. RingOK(bus', sent')
  <2>1. PICK c : c = bus' /\ c.off = q /\ c.block = w
    BY <1>6
  <2>2. RingOK(c, s) <=> \A i \in 1 .. Len(s) : c.block[Back(c.off, i)] = s[Len(s) + 1 - i]
    BY <1>11, <2>1, RingBack
  <2>3. RingOK(c, s)
    BY <1>11, <1>12, <2>1, <2>2
  <2> QED BY <1>11, <2>1, <2>3
<1>14. LineOK(bus', wants)
  BY <1>1, <1>6 DEF LineOK
<1> QED BY <1>1, <1>5, <1>6, <1>13, <1>14 DEF SmbusInv, EepromOK, EepromAsMeant

LEMMA ReadFifoKeeps == ASSUME SmbusInv, ReadFifo PROVE SmbusInv'
<1>1. BusOK(bus) /\ LineOK(bus, wants) /\ Ring \in Nat \ {0}
  BY SmbusAssumption DEF SmbusInv
<1>2. PICK q \in 0 .. Ring - 1 : q = (bus.off + 1) % Ring
  <2>1. PICK o \in Nat : o = bus.off
    BY <1>1 DEF BusOK, BusSet
  <2> QED BY <1>1, <2>1
<1>3. bus' = [bus EXCEPT !.off = q] /\ sent' = <<>> /\ UNCHANGED <<chips, meant, wants>>
  BY <1>2 DEF ReadFifo
<1>4. BusOK(bus') /\ bus'.gs = bus.gs /\ bus'.line = bus.line /\ bus'.en = bus.en
  BY <1>1, <1>3 DEF BusOK, BusSet
<1>5. LineOK(bus', wants)
  BY <1>1, <1>4 DEF LineOK
<1>6. RingOK(bus', sent')
  BY <1>3, RingEmpty
<1> QED BY <1>3, <1>4, <1>5, <1>6 DEF SmbusInv, EepromOK, EepromAsMeant

LEMMA TrayKeeps == ASSUME SmbusInv, NEW state \in {0, 1}, TrayMoves(state) PROVE SmbusInv'
<1>1. chips \in ChipSet /\ EepromOK
  BY DEF SmbusInv
<1>2. chips' = [chips EXCEPT !.tray = state] /\ UNCHANGED <<bus, meant, sent, wants>>
  BY DEF TrayMoves
<1>3. chips' \in ChipSet /\ chips'.eeprom = chips.eeprom /\ chips'.file = chips.file
  BY <1>1, <1>2 DEF ChipSet
<1>4. EepromOK'
  BY <1>1, <1>2, <1>3 DEF EepromOK, EepromAsMeant
<1> QED BY <1>2, <1>3, <1>4 DEF SmbusInv

\* what a session begins with
LEMMA BusBegins == BusOK(BusInit) /\ (\A use : LineOK(BusInit, use)) /\ RingOK(BusInit, <<>>)
<1>1. Ring \in Nat \ {0} /\ Cells \in Nat \ {0}
  BY SmbusAssumption
<1>2. [i \in 0 .. Ring - 1 |-> 0] \in [0 .. Ring - 1 -> Nat] /\ 0 \in 0 .. Ring - 1
  BY <1>1
<1>3. BusInit \in BusSet /\ BusInit.command = 0 /\ BusInit.gs = {} /\ BusInit.line = FALSE
  BY <1>2 DEF BusInit, BusSet, Targets
<1>4. \A use : LineOK(BusInit, use)
  BY <1>3 DEF LineOK
<1> QED BY <1>1, <1>3, <1>4, RingEmpty DEF BusOK

LEMMA ChipsBegin ==
    ASSUME NEW file \in CellSet
    PROVE  [eeprom |-> file, conexant |-> Blank, smc |-> SmcInit, tray |-> 1, file |-> file] \in ChipSet
<1>1. Blank \in CellSet
  BY DEF Blank, CellSet
<1> QED BY <1>1 DEF ChipSet, SmcInit, SolidGreen

LEMMA SessionKeeps ==
    ASSUME SmbusInv, NEW file \in CellSet, NEW cells \in CellSet, file = cells, NextSession(file, cells)
    PROVE  SmbusInv'
<1>1. /\ bus' = BusInit /\ sent' = <<>>
      /\ chips' = [eeprom |-> file, conexant |-> Blank, smc |-> SmcInit, tray |-> 1, file |-> file]
      /\ meant' = [cells |-> cells, file |-> cells]
  BY DEF NextSession
<1>2. chips' \in ChipSet
  BY <1>1, ChipsBegin
<1>3. EepromOK'
  BY <1>1 DEF EepromOK, EepromAsMeant
<1>4. BusOK(bus') /\ LineOK(bus', wants') /\ RingOK(bus', sent')
  BY <1>1, BusBegins
<1> QED BY <1>2, <1>3, <1>4 DEF SmbusInv

LEMMA SmbusStart == ASSUME SmbusInit PROVE SmbusInv
<1>1. Blank \in CellSet
  BY DEF Blank, CellSet
<1>2. chips \in ChipSet
  BY <1>1, ChipsBegin DEF SmbusInit
<1>3. EepromOK
  BY <1>1 DEF SmbusInit, EepromOK, EepromAsMeant
<1> QED BY <1>2, <1>3, BusBegins DEF SmbusInit, SmbusInv

LEMMA SmbusStutter == ASSUME SmbusInv, UNCHANGED svars PROVE SmbusInv'
  BY DEF svars, SmbusInv, EepromOK, EepromAsMeant

LEMMA SmbusStep == ASSUME SmbusInv, SmbusNext PROVE SmbusInv'
<1>1. CASE \E clear \in SUBSET Statuses : WriteStatus(clear)
  BY <1>1, StatusKeeps
<1>2. CASE \E type \in Types, en, start \in BOOLEAN : Sensible(type) /\ WriteControl(type, en, start)
  BY <1>2, ControlKeeps
<1>3. CASE \E en \in BOOLEAN : Abort(en)
  BY <1>3, AbortKeeps
<1>4. CASE \E target \in Reach, read \in BOOLEAN : Address(target, read)
  BY <1>4, AddressKeeps
<1>5. CASE TitleArguments
  BY <1>5, TitleArgumentsKeep
<1>6. CASE "blocks" \in wants /\ ((\E byte \in Bytes : WriteFifo(byte)) \/ ReadFifo)
  BY <1>6, WriteFifoKeeps, ReadFifoKeeps
<1>7. CASE \E state \in {0, 1} : TrayMoves(state)
  BY <1>7, TrayKeeps
<1>8. CASE Restart \/ Kill
  <2>1. chips.eeprom \in CellSet /\ chips.file \in CellSet /\ chips.eeprom = meant.cells /\ chips.file = meant.file
    BY DEF SmbusInv, ChipSet, EepromOK, EepromAsMeant
  <2>2. CASE Restart
    BY <2>1, <2>2, SessionKeeps DEF Restart
  <2>3. CASE Kill
    BY <2>1, <2>3, SessionKeeps DEF Kill
  <2> QED BY <1>8, <2>2, <2>3
<1> QED BY <1>1, <1>2, <1>3, <1>4, <1>5, <1>6, <1>7, <1>8 DEF SmbusNext

\* Whatever a title does with the SMBus, in any number of sessions, its registers,
\* devices and the ring of the block transfers keep what SmbusInv says of them.
THEOREM SmbusInvariant == Spec => []SmbusInv
<1>1. Init => SmbusInv
  BY SmbusStart DEF Init
<1>2. SmbusInv /\ [Next]_<<part, tvars, svars, vvars, wvars, xvars>> => SmbusInv'
  <2> SUFFICES ASSUME SmbusInv, [Next]_<<part, tvars, svars, vvars, wvars, xvars>> PROVE SmbusInv'
    OBVIOUS
  <2>1. SmbusNext \/ UNCHANGED svars
    BY DEF Next
  <2> QED BY <2>1, SmbusStep, SmbusStutter
<1> QED BY <1>1, <1>2, PTL DEF Spec

\* The EEPROM and its file hold what the title meant to store, whatever blocks,
\* bytes and words it used, wherever the ring's offset stood and however its
\* sessions ended (smbus.cpp, eeprom.cpp).
THEOREM EepromHolds == Spec => []EepromAsMeant
<1>1. SmbusInv => EepromAsMeant
  BY DEF SmbusInv, EepromOK
<1> QED BY <1>1, SmbusInvariant, PTL

\* The title is interrupted by USB exactly while an enabled event is set; by the SMBus
\* only while the status of a cycle is set, and exactly then if the title clears all
\* statuses in one write (usb/ohci.cpp, smbus.cpp).
THEOREM LinesHold == Spec => []LinesFollow
<1>1. TimersInv => UsbLineFollows
  BY DEF TimersInv, Sound, UsbSound, UsbLineFollows
<1>2. SmbusInv => SmbusLineFollows
  BY DEF SmbusInv, LineOK, SmbusLineFollows
<1>3. TimersInv /\ SmbusInv => LinesFollow
  BY <1>1, <1>2 DEF LinesFollow
<1> QED BY <1>3, TimersInvariant, SmbusInvariant, PTL

-----------------------------------------------------------------------------
(***************************************************************************)
(* The VGA: its palette and what it keeps of its registers                 *)
(***************************************************************************)

EntrySet == [0 .. 2 -> Nat]
DacSet == [entries : [Colors -> EntrySet], reads : Colors, writes : Colors, color : 0 .. 2, writing : BOOLEAN]

\* An entry of the palette, but for the one that is being written.
PaletteHolds(palette, unset, d, does) ==
    "abandon" \notin does => \A e \in Colors \ unset : (e = d.writes /\ d.color > 0 /\ d.writing) \/ palette[e] = d.entries[e]

LEMMA WrappedIsColor == ASSUME NEW e \in Colors PROVE Wrapped(e) \in Colors
<1>1. PICK n \in Nat : n = Cardinality(Colors) /\ Colors = 0 .. n - 1
  BY FS_CardinalityType, VgaAssumption
<1>2. e \in 0 .. n - 1
  BY <1>1
<1>3. e \in Nat /\ n \in Nat \ {0}
  BY <1>2
<1>4. (e + 1) % n \in 0 .. n - 1
  BY <1>3
<1> QED BY <1>1, <1>4 DEF Wrapped

Counted(r, w, c, g) == [dac EXCEPT !.reads = r, !.writes = w, !.color = c, !.writing = g]

\* The counter moves, and no entry is written.
LEMMA CounterMoves ==
    ASSUME NEW palette, NEW unset, NEW does, dac \in DacSet, PaletteHolds(palette, unset, dac, does),
           NEW r \in Colors, NEW w \in Colors, NEW c \in 0 .. 2, NEW g \in BOOLEAN,
           dac' = Counted(r, w, c, g),
           "abandon" \notin does => ~(dac.color > 0 /\ dac.writing)
    PROVE  dac' \in DacSet /\ PaletteHolds(palette, unset, dac', does)
<1>1. dac' \in DacSet /\ dac'.entries = dac.entries
  BY DEF DacSet, Counted
<1>2. PaletteHolds(palette, unset, dac', does)
  BY <1>1 DEF PaletteHolds
<1> QED BY <1>1, <1>2

LEMMA DacMoves ==
    ASSUME NEW palette, NEW unset, dac \in DacSet, PaletteHolds(palette, unset, dac, title.does),
           \/ \E e \in Colors : DacReadAddress(e) \/ DacWriteAddress(e)
           \/ DacRead
    PROVE  dac' \in DacSet /\ PaletteHolds(palette, unset, dac', title.does)
<1>1. /\ dac.reads \in Colors /\ dac.writes \in Colors /\ dac.color \in 0 .. 2 /\ dac.writing \in BOOLEAN
      /\ dac = [entries |-> dac.entries, reads |-> dac.reads, writes |-> dac.writes, color |-> dac.color, writing |-> dac.writing]
  BY DEF DacSet
<1>2. CASE \E e \in Colors : DacReadAddress(e) \/ DacWriteAddress(e)
  <2>1. PICK e \in Colors : DacReadAddress(e) \/ DacWriteAddress(e)
    BY <1>2
  <2>2. dac.color = 0 \/ "abandon" \in title.does
    BY <2>1 DEF DacReadAddress, DacWriteAddress, Whole
  <2>3. \E r \in Colors, w \in Colors : dac' = Counted(r, w, 0, dac.writing)
    <3>1. CASE DacReadAddress(e)
      <4>1. dac' = Counted(e, dac.writes, 0, dac.writing)
        BY <1>1, <3>1 DEF DacReadAddress, Counted
      <4> QED BY <1>1, <4>1, Zenon
    <3>2. CASE DacWriteAddress(e)
      <4>1. dac' = Counted(dac.reads, e, 0, dac.writing)
        BY <1>1, <3>2 DEF DacWriteAddress, Counted
      <4> QED BY <1>1, <4>1, Zenon
    <3> QED BY <2>1, <3>1, <3>2
  <2>4. 0 \in 0 .. 2 /\ ("abandon" \notin title.does => ~(dac.color > 0 /\ dac.writing))
    BY <2>2
  <2> QED BY <1>1, <2>3, <2>4, CounterMoves, Zenon
<1>3. CASE DacRead
  <2>1. dac.color = 0 \/ ~dac.writing
    BY <1>3 DEF DacRead
  <2>2. \E r \in Colors, c \in 0 .. 2 : dac' = Counted(r, dac.writes, c, FALSE)
    <3>1. CASE dac.color < 2
      <4>1. dac' = Counted(dac.reads, dac.writes, dac.color + 1, FALSE)
        BY <1>1, <1>3, <3>1 DEF DacRead, Counted
      <4>2. dac.color + 1 \in 0 .. 2
        BY <1>1, <3>1
      <4> QED BY <1>1, <4>1, <4>2, Zenon
    <3>2. CASE ~(dac.color < 2)
      <4>0. PICK r \in Colors : r = Wrapped(dac.reads)
        BY <1>1, WrappedIsColor
      <4>1. dac' = Counted(r, dac.writes, 0, FALSE)
        BY <1>1, <1>3, <3>2, <4>0 DEF DacRead, Counted
      <4>2. 0 \in 0 .. 2
        OBVIOUS
      <4> QED BY <4>0, <4>1, <4>2, Zenon
    <3> QED BY <3>1, <3>2
  <2>3. FALSE \in BOOLEAN /\ ~(dac.color > 0 /\ dac.writing)
    BY <2>1
  <2> QED BY <1>1, <2>1, <2>2, <2>3, CounterMoves, Zenon
<1> QED BY <1>2, <1>3

\* A component is written.
LEMMA DacWritten ==
    ASSUME dac \in DacSet, PaletteHolds(kept.palette, kept.unset, dac, title.does), NEW v \in {0, 1}, DacWrite(v),
           DOMAIN kept.palette = Colors, {"palette", "unset"} \subseteq DOMAIN kept
    PROVE  /\ dac' \in DacSet /\ PaletteHolds(kept'.palette, kept'.unset, dac', title.does)
           /\ DOMAIN kept'.palette = Colors
           /\ DOMAIN kept' = DOMAIN kept /\ \A f \in DOMAIN kept \ {"palette", "unset"} : kept'[f] = kept[f]
<1>1. /\ dac.entries \in [Colors -> EntrySet] /\ dac.reads \in Colors /\ dac.writes \in Colors
      /\ dac.color \in 0 .. 2 /\ dac.writing \in BOOLEAN
      /\ dac = [entries |-> dac.entries, reads |-> dac.reads, writes |-> dac.writes, color |-> dac.color, writing |-> dac.writing]
  BY DEF DacSet
<1>2. PICK entry \in EntrySet : entry = [dac.entries[dac.writes] EXCEPT ![dac.color] = v]
  <2>1. dac.entries[dac.writes] \in EntrySet /\ v \in Nat
    BY <1>1
  <2> QED BY <1>1, <2>1 DEF EntrySet
<1>3. PICK entries \in [Colors -> EntrySet] : entries = [dac.entries EXCEPT ![dac.writes] = entry]
  BY <1>1
<1>4. \A e \in Colors : e # dac.writes => entries[e] = dac.entries[e]
  BY <1>1, <1>3
<1>5. dac.color = 0 \/ dac.writing
  BY DEF DacWrite
<1>6. CASE dac.color < 2
  <2>1. PICK c \in 1 .. 2 : c = dac.color + 1
    BY <1>1, <1>6
  <2>2. kept' = kept /\ dac' = [entries |-> entries, reads |-> dac.reads, writes |-> dac.writes, color |-> c, writing |-> TRUE]
    BY <1>1, <1>2, <1>3, <1>6, <2>1 DEF DacWrite
  <2>3. dac' \in DacSet /\ dac'.entries = entries /\ dac'.writes = dac.writes /\ dac'.color = c /\ dac'.writing = TRUE
    BY <1>1, <2>1, <2>2 DEF DacSet
  <2>4. PaletteHolds(kept.palette, kept.unset, dac', title.does)
    BY <1>4, <2>1, <2>3 DEF PaletteHolds
  <2> QED BY <2>2, <2>3, <2>4
<1>7. CASE ~(dac.color < 2)
  <2>1. PICK w \in Colors : w = Wrapped(dac.writes)
    BY <1>1, WrappedIsColor
  <2>2. dac' = [entries |-> entries, reads |-> dac.reads, writes |-> w, color |-> 0, writing |-> TRUE]
    BY <1>1, <1>2, <1>3, <1>7, <2>1 DEF DacWrite
  <2>3. PICK palette, unset : palette = [kept.palette EXCEPT ![dac.writes] = entry] /\ unset = kept.unset \ {dac.writes}
    OBVIOUS
  <2>4. kept' = [kept EXCEPT !.palette = palette, !.unset = unset]
    BY <1>2, <1>7, <2>3 DEF DacWrite
  <2>5. kept'.palette = palette /\ kept'.unset = unset /\ DOMAIN palette = Colors
    BY <2>3, <2>4
  <2>6. dac' \in DacSet /\ dac'.entries = entries /\ dac'.color = 0
    BY <1>1, <2>1, <2>2 DEF DacSet
  <2>7. ASSUME NEW e \in Colors \ unset, "abandon" \notin title.does PROVE palette[e] = entries[e]
    <3>1. CASE e = dac.writes
      BY <1>1, <1>3, <2>3, <3>1
    <3>2. CASE e # dac.writes
      <4>1. kept.palette[e] = dac.entries[e]
        BY <2>3, <2>7, <3>2 DEF PaletteHolds
      <4> QED BY <1>4, <2>3, <3>2, <4>1
    <3> QED BY <3>1, <3>2
  <2>8. PaletteHolds(kept'.palette, kept'.unset, dac', title.does)
    BY <2>5, <2>6, <2>7 DEF PaletteHolds
  <2> QED BY <2>4, <2>5, <2>6, <2>8
<1> QED BY <1>6, <1>7

ByteSet == SUBSET (0 .. 7)
VgaRegSet == [seq : [SeqIndices -> ByteSet], gfx : [GfxIndices -> ByteSet], attr : [AttrIndices -> ByteSet],
              crt : [CrtIndices -> ByteSet], misc : ByteSet, index : [at : AttrIndices, shows : BOOLEAN, data : BOOLEAN]]
KeptFields == {"write", "read", "mode", "window", "renderer", "size", "width", "map", "pen", "panning", "open", "palette",
               "fresh", "unset"}

\* what is kept, by the registers it follows
AccessFollows(k, r) ==
    "access" \notin k.fresh => k.write = WriteAccess(r) /\ k.read = ReadAccess(r) /\ k.mode = r.gfx[5] \cap {0, 1}
WindowFollows(k, r) == "window" \notin k.fresh => k.window = r.gfx[6] \cap {2, 3}
RendererFollows(k, r) == k.renderer = Renderer(r)
SizeFollows(k, r) == k.width = CharWidth(r) /\ k.size = Size(r, k.width)
MapFollows(k, r) == k.map = CharMap(r)
PenFollows(k, r) == k.pen = Pen(r)
OpenFollows(k, r, does) == "consoles" \notin does => \A i \in {1, 2} : k.open[i] = IF 7 \in r.crt[17] THEN {} ELSE 0 .. 7

KeptFollows(k, r, does) ==
    /\ AccessFollows(k, r) /\ WindowFollows(k, r) /\ RendererFollows(k, r) /\ SizeFollows(k, r)
    /\ MapFollows(k, r) /\ PenFollows(k, r) /\ OpenFollows(k, r, does)
KeptOK(k) == KeptFields \subseteq DOMAIN k /\ DOMAIN k.open = {1, 2, 7} /\ DOMAIN k.palette = Colors

TableOK(table, indices) == DOMAIN table \subseteq indices /\ \A i \in DOMAIN table : table[i] \in ByteSet
TitleOK(t) == TableOK(t.seq, SeqIndices) /\ TableOK(t.gfx, GfxIndices) /\ TableOK(t.attr, AttrIndices) /\ TableOK(t.crt, CrtIndices)

\* The inductive invariant of the VGA.
VgaInv ==
    /\ regs \in VgaRegSet /\ TitleOK(title) /\ KeptOK(kept) /\ KeptFollows(kept, regs, title.does)
    /\ dac \in DacSet /\ PaletteHolds(kept.palette, kept.unset, dac, title.does)

\* Two sets of bits that differ in none of a third agree on its members.
LEMMA Unchanged ==
    ASSUME NEW x, NEW y, NEW d, d = Changed(x, y)
    PROVE  \A b : b \notin d => (b \in x) = (b \in y)
  BY DEF Changed

\* Only the registers they are computed of matter.
LEMMA SizeBy ==
    ASSUME NEW r, NEW c, NEW w, \A i \in CrtIndices \ {9, 17} : r.crt[i] = c.crt[i], (5 \in r.crt[9]) = (5 \in c.crt[9])
    PROVE  Size(r, w) = Size(c, w)
<1>1. r.crt[1] = c.crt[1] /\ r.crt[2] = c.crt[2] /\ r.crt[7] = c.crt[7] /\ r.crt[18] = c.crt[18] /\ r.crt[21] = c.crt[21]
  BY DEF CrtIndices
<1>2. Bit(5, r.crt[9], 512) = Bit(5, c.crt[9], 512)
  BY DEF Bit
<1> QED BY <1>1, <1>2 DEF Size

\* the kept values of a step that leaves the palette and the protection alone
KeptBut(k, c) == KeptOK(k) /\ k.open = c.open /\ k.palette = c.palette /\ k.unset = c.unset

\* The access modes are computed anew.
LEMMA AccessUpdated ==
    ASSUME NEW r, NEW c, KeptFields \subseteq DOMAIN c, NEW k, k = UpdateMemAccess(r, c)
    PROVE  /\ DOMAIN k = DOMAIN c /\ AccessFollows(k, r) /\ k.map = c.map
           /\ \A f \in KeptFields \ {"write", "read", "mode", "fresh", "map"} : k[f] = c[f]
           /\ ("window" \in k.fresh) = ("window" \in c.fresh)
<1>1. PICK w, v, m, fresh : w = WriteAccess(r) /\ v = ReadAccess(r) /\ m = r.gfx[5] \cap {0, 1} /\ fresh = c.fresh \ {"access"}
  OBVIOUS
<1>2. k = [c EXCEPT !.write = w, !.read = v, !.mode = m, !.fresh = fresh]
  BY <1>1 DEF UpdateMemAccess
<1>3. DOMAIN k = DOMAIN c /\ k.write = w /\ k.read = v /\ k.mode = m /\ k.fresh = fresh /\ k.map = c.map
  BY <1>2 DEF KeptFields
<1>4. \A f \in KeptFields \ {"write", "read", "mode", "fresh", "map"} : k[f] = c[f]
  BY <1>2 DEF KeptFields
<1>5. AccessFollows(k, r)
  BY <1>1, <1>3 DEF AccessFollows
<1> QED BY <1>1, <1>3, <1>4, <1>5

\* The sequencer's registers.
LEMMA SeqFollows ==
    ASSUME regs \in VgaRegSet, KeptOK(kept), NEW does, KeptFollows(kept, regs, does), NEW i \in SeqIndices, NEW value \in ByteSet,
           NEW d, d = Changed(regs.seq[i], value), NEW r \in VgaRegSet, r.seq = [regs.seq EXCEPT ![i] = value],
           r.gfx = regs.gfx, r.attr = regs.attr, r.crt = regs.crt, r.index = regs.index
    PROVE  KeptBut(SeqKept(i, d, r), kept) /\ KeptFollows(SeqKept(i, d, r), r, does)
<1>1. /\ \A b : b \notin d => (b \in r.seq[i]) = (b \in regs.seq[i])
      /\ \A j \in SeqIndices : j # i => r.seq[j] = regs.seq[j]
  BY Unchanged DEF VgaRegSet
<1>2. Size(r, kept.width) = Size(regs, kept.width) /\ Pen(r) = Pen(regs) /\ \A w : Size(r, w) = Size(regs, w)
  BY SizeBy DEF Pen
<1>3. /\ AccessFollows(kept, regs) /\ WindowFollows(kept, regs) /\ RendererFollows(kept, regs) /\ SizeFollows(kept, regs)
      /\ MapFollows(kept, regs) /\ PenFollows(kept, regs) /\ OpenFollows(kept, regs, does) /\ KeptFields \subseteq DOMAIN kept
  BY DEF KeptFollows, KeptOK
<1>4. CASE i = 1
  <2>1. /\ r.seq[3] = regs.seq[3] /\ r.seq[4] = regs.seq[4]
    BY <1>1, <1>4 DEF SeqIndices
  <2>2. PICK shown : shown = IF d \cap {3, 5} # {} THEN ChangeRenderer(r, kept) ELSE kept
    OBVIOUS
  <2>3. PICK wide : wide = IF 0 \in d THEN [shown EXCEPT !.width = CharWidth(r)] ELSE shown
    OBVIOUS
  <2>4. PICK k : k = IF d \cap {0, 3} # {} THEN UpdateSize(r, wide) ELSE wide
    OBVIOUS
  <2>5. k = SeqKept(i, d, r)
    BY <1>4, <2>2, <2>3, <2>4 DEF SeqKept
  <2>6. /\ DOMAIN shown = DOMAIN kept /\ RendererFollows(shown, r)
        /\ \A f \in KeptFields \ {"renderer"} : shown[f] = kept[f]
    <3>1. CASE d \cap {3, 5} # {}
      BY <1>3, <2>2, <3>1 DEF ChangeRenderer, RendererFollows, KeptFields
    <3>2. CASE d \cap {3, 5} = {}
      <4>1. (3 \in r.seq[1]) = (3 \in regs.seq[1]) /\ (5 \in r.seq[1]) = (5 \in regs.seq[1])
        BY <1>1, <1>4, <3>2
      <4>2. Renderer(r) = Renderer(regs)
        BY <4>1 DEF Renderer
      <4> QED BY <1>3, <2>2, <3>2, <4>2 DEF RendererFollows
    <3> QED BY <3>1, <3>2
  <2>7. /\ DOMAIN wide = DOMAIN kept /\ RendererFollows(wide, r) /\ wide.width = CharWidth(r)
        /\ (0 \notin d => wide.width = kept.width)
        /\ \A f \in KeptFields \ {"renderer", "width"} : wide[f] = kept[f]
    <3>1. CASE 0 \in d
      BY <1>3, <2>3, <2>6, <3>1 DEF RendererFollows, KeptFields
    <3>2. CASE 0 \notin d
      <4>1. CharWidth(r) = CharWidth(regs)
        BY <1>1, <1>4, <3>2 DEF CharWidth
      <4> QED BY <1>3, <2>3, <2>6, <3>2, <4>1 DEF SizeFollows, KeptFields
    <3> QED BY <3>1, <3>2
  <2>8. /\ DOMAIN k = DOMAIN kept /\ RendererFollows(k, r) /\ SizeFollows(k, r)
        /\ \A f \in KeptFields \ {"renderer", "width", "size"} : k[f] = kept[f]
    <3>1. CASE d \cap {0, 3} # {}
      BY <1>3, <2>4, <2>7, <3>1 DEF RendererFollows, SizeFollows, UpdateSize, KeptFields
    <3>2. CASE d \cap {0, 3} = {}
      BY <1>2, <1>3, <2>4, <2>7, <3>2 DEF SizeFollows, KeptFields
    <3> QED BY <3>1, <3>2
  <2>9. k.write = kept.write /\ k.read = kept.read /\ k.mode = kept.mode /\ k.fresh = kept.fresh /\ k.window = kept.window
        /\ k.map = kept.map /\ k.pen = kept.pen /\ k.open = kept.open /\ k.palette = kept.palette /\ k.unset = kept.unset
    BY <2>8 DEF KeptFields
  <2>10. AccessFollows(k, r) /\ WindowFollows(k, r) /\ MapFollows(k, r) /\ PenFollows(k, r) /\ OpenFollows(k, r, does)
    BY <1>2, <1>3, <2>1, <2>9
       DEF AccessFollows, WindowFollows, MapFollows, PenFollows, OpenFollows, WriteAccess, ReadAccess, CharMap
  <2>11. KeptBut(k, kept)
    BY <2>8, <2>9 DEF KeptBut, KeptOK
  <2> QED BY <2>5, <2>8, <2>10, <2>11 DEF KeptFollows
<1>5. CASE i # 1
  <2>1. r.seq[1] = regs.seq[1]
    BY <1>1, <1>5 DEF SeqIndices
  <2>2. Renderer(r) = Renderer(regs) /\ CharWidth(r) = CharWidth(regs)
    BY <2>1 DEF Renderer, CharWidth
  <2>3. PICK k : k = SeqKept(i, d, r)
    OBVIOUS
  <2>4. /\ DOMAIN k = DOMAIN kept /\ AccessFollows(k, r) /\ MapFollows(k, r)
        /\ \A f \in KeptFields \ {"write", "read", "mode", "fresh", "map"} : k[f] = kept[f]
        /\ ("window" \in k.fresh) = ("window" \in kept.fresh)
    <3>1. CASE i = 2
      <4>1. r.seq[3] = regs.seq[3] /\ r.seq[4] = regs.seq[4] /\ k = kept
        BY <1>1, <2>3, <3>1 DEF SeqIndices, SeqKept
      <4> QED BY <1>3, <4>1 DEF AccessFollows, MapFollows, WriteAccess, ReadAccess, CharMap
    <3>2. CASE i = 3
      <4>1. r.seq[4] = regs.seq[4] /\ k = [kept EXCEPT !.map = CharMap(r)]
        BY <1>1, <2>3, <3>2 DEF SeqIndices, SeqKept
      <4> QED BY <1>3, <4>1 DEF AccessFollows, MapFollows, WriteAccess, ReadAccess, KeptFields
    <3>3. CASE i = 4
      <4>1. r.seq[3] = regs.seq[3] /\ k = IF d \cap {2, 3} # {} THEN UpdateMemAccess(r, kept) ELSE kept
        BY <1>1, <2>3, <3>3 DEF SeqIndices, SeqKept
      <4>2. CASE d \cap {2, 3} # {}
        BY <1>3, <2>3, <4>1, <4>2, AccessUpdated DEF MapFollows, CharMap
      <4>3. CASE d \cap {2, 3} = {}
        <5>1. (2 \in r.seq[4]) = (2 \in regs.seq[4]) /\ (3 \in r.seq[4]) = (3 \in regs.seq[4])
          BY <1>1, <3>3, <4>3
        <5> QED BY <1>3, <4>1, <4>3, <5>1 DEF AccessFollows, MapFollows, CharMap, WriteAccess, ReadAccess
      <4> QED BY <4>2, <4>3
    <3> QED BY <1>5, <3>1, <3>2, <3>3 DEF SeqIndices
  <2>5. k.window = kept.window /\ k.renderer = kept.renderer /\ k.width = kept.width /\ k.size = kept.size
        /\ k.pen = kept.pen /\ k.open = kept.open /\ k.palette = kept.palette /\ k.unset = kept.unset
    BY <2>4 DEF KeptFields
  <2>6. WindowFollows(k, r) /\ RendererFollows(k, r) /\ SizeFollows(k, r) /\ PenFollows(k, r) /\ OpenFollows(k, r, does)
    BY <1>2, <1>3, <2>2, <2>4, <2>5 DEF WindowFollows, RendererFollows, SizeFollows, PenFollows, OpenFollows
  <2>7. KeptBut(k, kept)
    BY <2>4, <2>5 DEF KeptBut, KeptOK
  <2> QED BY <2>3, <2>4, <2>6, <2>7 DEF KeptFollows
<1> QED BY <1>4, <1>5

\* The graphics registers.
LEMMA GfxFollows ==
    ASSUME regs \in VgaRegSet, KeptOK(kept), NEW does, KeptFollows(kept, regs, does), NEW i \in GfxIndices, NEW value \in ByteSet,
           NEW d, d = Changed(regs.gfx[i], value), NEW r \in VgaRegSet, r.gfx = [regs.gfx EXCEPT ![i] = value],
           r.seq = regs.seq, r.attr = regs.attr, r.crt = regs.crt, r.index = regs.index
    PROVE  KeptBut(GfxKept(i, d, r), kept) /\ KeptFollows(GfxKept(i, d, r), r, does)
<1>1. /\ \A b : b \notin d => (b \in r.gfx[i]) = (b \in regs.gfx[i])
      /\ \A j \in GfxIndices : j # i => r.gfx[j] = regs.gfx[j]
  BY Unchanged DEF VgaRegSet
<1>2. /\ Pen(r) = Pen(regs) /\ CharWidth(r) = CharWidth(regs) /\ CharMap(r) = CharMap(regs) /\ WriteAccess(r) = WriteAccess(regs)
      /\ \A w : Size(r, w) = Size(regs, w)
  BY SizeBy DEF Pen, CharWidth, CharMap, WriteAccess
<1>3. /\ AccessFollows(kept, regs) /\ WindowFollows(kept, regs) /\ RendererFollows(kept, regs) /\ SizeFollows(kept, regs)
      /\ MapFollows(kept, regs) /\ PenFollows(kept, regs) /\ OpenFollows(kept, regs, does) /\ KeptFields \subseteq DOMAIN kept
  BY DEF KeptFollows, KeptOK
<1>4. PICK k : k = GfxKept(i, d, r)
  OBVIOUS
<1>5. /\ DOMAIN k = DOMAIN kept /\ AccessFollows(k, r) /\ RendererFollows(k, r) /\ WindowFollows(k, r)
      /\ \A f \in KeptFields \ {"write", "read", "mode", "fresh", "renderer", "window"} : k[f] = kept[f]
  <2>1. CASE i = 5
    <3>1. r.gfx[6] = regs.gfx[6]
      BY <1>1, <2>1 DEF GfxIndices
    <3>2. PICK shown : shown = IF d \cap {5, 6} # {} THEN ChangeRenderer(r, kept) ELSE kept
      OBVIOUS
    <3>3. k = IF d \cap {0, 1, 3, 4} # {} THEN UpdateMemAccess(r, shown) ELSE shown
      BY <1>4, <2>1, <3>2 DEF GfxKept
    <3>4. /\ DOMAIN shown = DOMAIN kept /\ shown.renderer = Renderer(r)
          /\ \A f \in KeptFields \ {"renderer"} : shown[f] = kept[f]
      <4>1. CASE d \cap {5, 6} # {}
        BY <1>3, <3>2, <4>1 DEF ChangeRenderer, KeptFields
      <4>2. CASE d \cap {5, 6} = {}
        <5>1. (6 \in r.gfx[5]) = (6 \in regs.gfx[5])
          BY <1>1, <2>1, <4>2
        <5>2. Renderer(r) = Renderer(regs)
          BY <3>1, <5>1 DEF Renderer
        <5> QED BY <1>3, <3>2, <4>2, <5>2 DEF RendererFollows
      <4> QED BY <4>1, <4>2
    <3>5. CASE d \cap {0, 1, 3, 4} # {}
      <4>1. k = UpdateMemAccess(r, shown) /\ KeptFields \subseteq DOMAIN shown
        BY <1>3, <3>3, <3>4, <3>5
      <4>2. /\ DOMAIN k = DOMAIN shown /\ AccessFollows(k, r) /\ ("window" \in k.fresh) = ("window" \in shown.fresh)
            /\ \A f \in KeptFields \ {"write", "read", "mode", "fresh", "map"} : k[f] = shown[f]
            /\ k.map = shown.map
        BY <4>1, AccessUpdated
      <4>3. k.renderer = shown.renderer /\ k.window = shown.window
        BY <4>2 DEF KeptFields
      <4>4. shown.window = kept.window /\ shown.fresh = kept.fresh /\ shown.map = kept.map
        BY <3>4 DEF KeptFields
      <4>5. WindowFollows(k, r)
        BY <1>3, <3>1, <4>2, <4>3, <4>4 DEF WindowFollows
      <4>6. \A f \in KeptFields \ {"write", "read", "mode", "fresh", "renderer", "window"} : k[f] = kept[f]
        BY <3>4, <4>2, <4>4
      <4> QED BY <3>4, <4>2, <4>3, <4>5, <4>6 DEF RendererFollows
    <3>6. CASE d \cap {0, 1, 3, 4} = {}
      <4>1. k = shown /\ ReadAccess(r) = ReadAccess(regs) /\ r.gfx[5] \cap {0, 1} = regs.gfx[5] \cap {0, 1}
        <5>1. (0 \in r.gfx[5]) = (0 \in regs.gfx[5]) /\ (1 \in r.gfx[5]) = (1 \in regs.gfx[5])
              /\ (3 \in r.gfx[5]) = (3 \in regs.gfx[5]) /\ (4 \in r.gfx[5]) = (4 \in regs.gfx[5])
          BY <1>1, <2>1, <3>6
        <5>2. ReadAccess(r) = ReadAccess(regs)
          BY <5>1 DEF ReadAccess
        <5>3. r.gfx[5] \cap {0, 1} = regs.gfx[5] \cap {0, 1}
          BY <5>1
        <5> QED BY <3>3, <3>6, <5>2, <5>3
      <4>2. k.write = kept.write /\ k.read = kept.read /\ k.mode = kept.mode /\ k.fresh = kept.fresh /\ k.window = kept.window
        BY <3>4, <4>1 DEF KeptFields
      <4>3. AccessFollows(k, r) /\ WindowFollows(k, r)
        BY <1>2, <1>3, <3>1, <4>1, <4>2 DEF AccessFollows, WindowFollows
      <4> QED BY <3>4, <4>1, <4>3 DEF RendererFollows
    <3> QED BY <3>5, <3>6
  <2>2. CASE i = 6
    <3>1. r.gfx[5] = regs.gfx[5]
      BY <1>1, <2>2 DEF GfxIndices
    <3>2. PICK window, fresh : window = r.gfx[6] \cap {2, 3} /\ fresh = kept.fresh \ {"window"}
      OBVIOUS
    <3>3. PICK moved : moved = [kept EXCEPT !.window = window, !.fresh = fresh]
      OBVIOUS
    <3>4. k = IF 0 \in d THEN ChangeRenderer(r, moved) ELSE moved
      BY <1>4, <2>2, <3>2, <3>3 DEF GfxKept
    <3>5. /\ DOMAIN moved = DOMAIN kept /\ moved.window = window /\ moved.fresh = fresh
          /\ \A f \in KeptFields \ {"window", "fresh"} : moved[f] = kept[f]
      BY <1>3, <3>3 DEF KeptFields
    <3>6. /\ DOMAIN k = DOMAIN kept /\ k.renderer = Renderer(r) /\ k.window = window /\ k.fresh = fresh
          /\ \A f \in KeptFields \ {"window", "fresh", "renderer"} : k[f] = kept[f]
      <4>1. CASE 0 \in d
        BY <1>3, <3>4, <3>5, <4>1 DEF ChangeRenderer, KeptFields
      <4>2. CASE 0 \notin d
        <5>1. (0 \in r.gfx[6]) = (0 \in regs.gfx[6])
          BY <1>1, <2>2, <4>2
        <5>2. Renderer(r) = Renderer(regs)
          BY <3>1, <5>1 DEF Renderer
        <5> QED BY <1>3, <3>4, <3>5, <4>2, <5>2 DEF RendererFollows, KeptFields
      <4> QED BY <4>1, <4>2
    <3>7. k.write = kept.write /\ k.read = kept.read /\ k.mode = kept.mode
      BY <3>6 DEF KeptFields
    <3>8. ReadAccess(r) = ReadAccess(regs)
      BY <3>1 DEF ReadAccess
    <3>9. AccessFollows(k, r) /\ WindowFollows(k, r)
      BY <1>2, <1>3, <3>1, <3>2, <3>6, <3>7, <3>8 DEF AccessFollows, WindowFollows
    <3> QED BY <3>6, <3>9 DEF RendererFollows
  <2>3. CASE i # 5 /\ i # 6
    <3>1. r.gfx[5] = regs.gfx[5] /\ r.gfx[6] = regs.gfx[6]
      BY <1>1, <2>3 DEF GfxIndices
    <3>2. k = kept
      BY <1>4, <2>3 DEF GfxKept
    <3>3. ReadAccess(r) = ReadAccess(regs) /\ Renderer(r) = Renderer(regs)
      BY <3>1 DEF ReadAccess, Renderer
    <3> QED BY <1>2, <1>3, <3>1, <3>2, <3>3 DEF AccessFollows, WindowFollows, RendererFollows
  <2> QED BY <2>1, <2>2, <2>3
<1>6. k.width = kept.width /\ k.size = kept.size /\ k.map = kept.map
      /\ k.pen = kept.pen /\ k.open = kept.open /\ k.palette = kept.palette /\ k.unset = kept.unset
  BY <1>5 DEF KeptFields
<1>7. MapFollows(k, r) /\ SizeFollows(k, r) /\ PenFollows(k, r) /\ OpenFollows(k, r, does)
  BY <1>2, <1>3, <1>6 DEF MapFollows, SizeFollows, PenFollows, OpenFollows
<1>8. KeptBut(k, kept)
  BY <1>5, <1>6 DEF KeptBut, KeptOK
<1> QED BY <1>4, <1>5, <1>7, <1>8 DEF KeptFollows

\* The attribute registers, and the bit that turns the screen on.
LEMMA AttrFollows ==
    ASSUME regs \in VgaRegSet, KeptOK(kept), NEW does, KeptFollows(kept, regs, does), NEW i \in AttrIndices, NEW value \in ByteSet,
           NEW d, d = Changed(regs.attr[i], value), NEW r \in VgaRegSet, r.attr = [regs.attr EXCEPT ![i] = value],
           r.seq = regs.seq, r.gfx = regs.gfx, r.crt = regs.crt, r.index.shows = regs.index.shows
    PROVE  KeptBut(AttrKept(i, d, r), kept) /\ KeptFollows(AttrKept(i, d, r), r, does)
<1>1. /\ \A b : b \notin d => (b \in r.attr[i]) = (b \in regs.attr[i])
      /\ \A j \in AttrIndices : j # i => r.attr[j] = regs.attr[j]
  BY Unchanged DEF VgaRegSet
<1>2. /\ CharWidth(r) = CharWidth(regs) /\ CharMap(r) = CharMap(regs) /\ WriteAccess(r) = WriteAccess(regs)
      /\ ReadAccess(r) = ReadAccess(regs) /\ \A w : Size(r, w) = Size(regs, w)
  BY SizeBy DEF CharWidth, CharMap, WriteAccess, ReadAccess
<1>3. /\ AccessFollows(kept, regs) /\ WindowFollows(kept, regs) /\ RendererFollows(kept, regs) /\ SizeFollows(kept, regs)
      /\ MapFollows(kept, regs) /\ PenFollows(kept, regs) /\ OpenFollows(kept, regs, does) /\ KeptFields \subseteq DOMAIN kept
  BY DEF KeptFollows, KeptOK
<1>4. PICK k : k = AttrKept(i, d, r)
  OBVIOUS
<1>5. i # 16 => Renderer(r) = Renderer(regs)
  <2>1. i # 16 => r.attr[16] = regs.attr[16]
    BY <1>1 DEF AttrIndices
  <2> QED BY <2>1 DEF Renderer
<1>6. /\ DOMAIN k = DOMAIN kept /\ k.pen = Pen(r) /\ k.renderer = Renderer(r)
      /\ \A f \in KeptFields \ {"pen", "renderer", "panning"} : k[f] = kept[f]
  <2>1. CASE i = 0
    <3>1. k = IF d \cap 0 .. 5 # {} THEN [kept EXCEPT !.pen = Pen(r)] ELSE kept
      BY <1>4, <2>1 DEF AttrKept
    <3>2. CASE d \cap 0 .. 5 # {}
      BY <1>3, <1>5, <2>1, <3>1, <3>2 DEF RendererFollows, KeptFields
    <3>3. CASE d \cap 0 .. 5 = {}
      <4>1. r.attr[16] = regs.attr[16] /\ r.attr[20] = regs.attr[20]
        BY <1>1, <2>1 DEF AttrIndices
      <4>2. \A b \in 0 .. 5 : (b \in r.attr[0]) = (b \in regs.attr[0])
        BY <1>1, <2>1, <3>3
      <4>3. r.attr[0] \cap 0 .. 3 = regs.attr[0] \cap 0 .. 3 /\ r.attr[0] \cap 0 .. 5 = regs.attr[0] \cap 0 .. 5
        BY <4>2
      <4>4. Pen(r) = Pen(regs)
        BY <4>1, <4>3 DEF Pen
      <4> QED BY <1>3, <1>5, <2>1, <3>1, <3>3, <4>4 DEF RendererFollows, PenFollows
    <3> QED BY <3>2, <3>3
  <2>2. CASE i = 16
    <3>0. r.attr[0] = regs.attr[0] /\ r.attr[20] = regs.attr[20]
      BY <1>1, <2>2 DEF AttrIndices
    <3>1. PICK shown : shown = IF d \cap {0, 6} # {} THEN ChangeRenderer(r, kept) ELSE kept
      OBVIOUS
    <3>2. k = IF 7 \in d THEN [shown EXCEPT !.pen = Pen(r)] ELSE shown
      BY <1>4, <2>2, <3>1 DEF AttrKept
    <3>3. /\ DOMAIN shown = DOMAIN kept /\ shown.renderer = Renderer(r)
          /\ \A f \in KeptFields \ {"renderer"} : shown[f] = kept[f]
      <4>1. CASE d \cap {0, 6} # {}
        BY <1>3, <3>1, <4>1 DEF ChangeRenderer, KeptFields
      <4>2. CASE d \cap {0, 6} = {}
        <5>1. (6 \in r.attr[16]) = (6 \in regs.attr[16])
          BY <1>1, <2>2, <4>2
        <5>2. Renderer(r) = Renderer(regs)
          BY <5>1 DEF Renderer
        <5> QED BY <1>3, <3>1, <4>2, <5>2 DEF RendererFollows
      <4> QED BY <4>1, <4>2
    <3>4. CASE 7 \in d
      BY <1>3, <3>2, <3>3, <3>4 DEF KeptFields
    <3>5. CASE 7 \notin d
      <4>1. (7 \in r.attr[16]) = (7 \in regs.attr[16])
        BY <1>1, <2>2, <3>5
      <4>2. Pen(r) = Pen(regs)
        BY <3>0, <4>1 DEF Pen
      <4>3. shown.pen = kept.pen
        BY <3>3 DEF KeptFields
      <4> QED BY <1>3, <3>2, <3>3, <3>5, <4>2, <4>3 DEF PenFollows
    <3> QED BY <3>4, <3>5
  <2>3. CASE i = 19
    <3>1. k = [kept EXCEPT !.panning = Panning(r, kept)]
      BY <1>4, <2>3 DEF AttrKept
    <3>2. r.attr[0] = regs.attr[0] /\ r.attr[16] = regs.attr[16] /\ r.attr[20] = regs.attr[20]
      BY <1>1, <2>3 DEF AttrIndices
    <3>3. Pen(r) = Pen(regs)
      BY <3>2 DEF Pen
    <3>4. DOMAIN k = DOMAIN kept /\ \A f \in KeptFields \ {"panning"} : k[f] = kept[f]
      BY <1>3, <3>1 DEF KeptFields
    <3>5. k.pen = kept.pen /\ k.renderer = kept.renderer
      BY <3>4 DEF KeptFields
    <3> QED BY <1>3, <1>5, <2>3, <3>3, <3>4, <3>5 DEF PenFollows, RendererFollows
  <2>4. CASE i = 20
    <3>1. k = IF d \cap 0 .. 3 # {} THEN [kept EXCEPT !.pen = Pen(r)] ELSE kept
      BY <1>4, <2>4 DEF AttrKept
    <3>2. CASE d \cap 0 .. 3 # {}
      BY <1>3, <1>5, <2>4, <3>1, <3>2 DEF RendererFollows, KeptFields
    <3>3. CASE d \cap 0 .. 3 = {}
      <4>1. r.attr[16] = regs.attr[16] /\ r.attr[0] = regs.attr[0]
        BY <1>1, <2>4 DEF AttrIndices
      <4>2. \A b \in 0 .. 3 : (b \in r.attr[20]) = (b \in regs.attr[20])
        BY <1>1, <2>4, <3>3
      <4>3. r.attr[20] \cap 0 .. 3 = regs.attr[20] \cap 0 .. 3 /\ r.attr[20] \cap {2, 3} = regs.attr[20] \cap {2, 3}
        BY <4>2
      <4>4. Pen(r) = Pen(regs)
        BY <4>1, <4>3 DEF Pen
      <4> QED BY <1>3, <1>5, <2>4, <3>1, <3>3, <4>4 DEF RendererFollows, PenFollows
    <3> QED BY <3>2, <3>3
  <2> QED BY <2>1, <2>2, <2>3, <2>4 DEF AttrIndices
<1>7. k.width = kept.width /\ k.size = kept.size /\ k.map = kept.map /\ k.write = kept.write /\ k.read = kept.read
      /\ k.mode = kept.mode /\ k.fresh = kept.fresh /\ k.window = kept.window
      /\ k.open = kept.open /\ k.palette = kept.palette /\ k.unset = kept.unset
  BY <1>6 DEF KeptFields
<1>8. /\ AccessFollows(k, r) /\ WindowFollows(k, r) /\ RendererFollows(k, r) /\ SizeFollows(k, r)
      /\ MapFollows(k, r) /\ PenFollows(k, r) /\ OpenFollows(k, r, does)
  BY <1>2, <1>3, <1>6, <1>7
     DEF AccessFollows, WindowFollows, RendererFollows, SizeFollows, MapFollows, PenFollows, OpenFollows
<1>9. KeptBut(k, kept)
  BY <1>6, <1>7 DEF KeptBut, KeptOK
<1> QED BY <1>4, <1>8, <1>9 DEF KeptFollows

\* The CRT registers.
LEMMA CrtFollows ==
    ASSUME regs \in VgaRegSet, KeptOK(kept), NEW does, KeptFollows(kept, regs, does), NEW i \in CrtIndices, NEW value \in ByteSet,
           NEW d, d = Changed(regs.crt[i], value), NEW r \in VgaRegSet, r.crt = [regs.crt EXCEPT ![i] = value],
           r.seq = regs.seq, r.gfx = regs.gfx, r.attr = regs.attr, r.index = regs.index
    PROVE  LET k == CrtKept(i, d, r) IN
           KeptOK(k) /\ k.palette = kept.palette /\ k.unset = kept.unset /\ KeptFollows(k, r, does)
<1>1. /\ \A b : b \notin d => (b \in r.crt[i]) = (b \in regs.crt[i])
      /\ \A j \in CrtIndices : j # i => r.crt[j] = regs.crt[j]
  BY Unchanged DEF VgaRegSet
<1>2. /\ CharWidth(r) = CharWidth(regs) /\ CharMap(r) = CharMap(regs) /\ WriteAccess(r) = WriteAccess(regs)
      /\ ReadAccess(r) = ReadAccess(regs) /\ Renderer(r) = Renderer(regs) /\ Pen(r) = Pen(regs)
  BY DEF CharWidth, CharMap, WriteAccess, ReadAccess, Renderer, Pen
<1>3. /\ AccessFollows(kept, regs) /\ WindowFollows(kept, regs) /\ RendererFollows(kept, regs) /\ SizeFollows(kept, regs)
      /\ MapFollows(kept, regs) /\ PenFollows(kept, regs) /\ OpenFollows(kept, regs, does) /\ KeptFields \subseteq DOMAIN kept
      /\ DOMAIN kept.open = {1, 2, 7} /\ DOMAIN kept.palette = Colors
  BY DEF KeptFollows, KeptOK
<1>4. PICK k : k = CrtKept(i, d, r)
  OBVIOUS
<1>5. /\ DOMAIN k = DOMAIN kept /\ DOMAIN k.open = {1, 2, 7} /\ k.size = Size(r, kept.width) /\ OpenFollows(k, r, does)
      /\ \A f \in KeptFields \ {"size", "open"} : k[f] = kept[f]
  <2>1. CASE i \in {1, 2, 7, 18, 21} \/ (i = 9 /\ 5 \in d)
    <3>1. k = [kept EXCEPT !.size = Size(r, kept.width)]
      BY <1>4, <2>1 DEF CrtKept, UpdateSize
    <3>2. r.crt[17] = regs.crt[17]
      BY <1>1, <2>1 DEF CrtIndices
    <3>3. DOMAIN k = DOMAIN kept /\ k.size = Size(r, kept.width) /\ k.open = kept.open
          /\ \A f \in KeptFields \ {"size"} : k[f] = kept[f]
      BY <1>3, <3>1 DEF KeptFields
    <3> QED BY <1>3, <3>2, <3>3 DEF OpenFollows
  <2>2. CASE ~(i \in {1, 2, 7, 18, 21} \/ (i = 9 /\ 5 \in d))
    <3>1. (5 \in r.crt[9]) = (5 \in regs.crt[9]) /\ \A j \in CrtIndices \ {9, 17} : r.crt[j] = regs.crt[j]
      BY <1>1, <2>2 DEF CrtIndices
    <3>2. Size(r, kept.width) = Size(regs, kept.width)
      <4>1. r.crt[1] = regs.crt[1] /\ r.crt[2] = regs.crt[2] /\ r.crt[7] = regs.crt[7] /\ r.crt[18] = regs.crt[18]
            /\ r.crt[21] = regs.crt[21]
        BY <3>1 DEF CrtIndices
      <4>2. Bit(5, r.crt[9], 512) = Bit(5, regs.crt[9], 512)
        BY <3>1 DEF Bit
      <4> QED BY <4>1, <4>2 DEF Size
    <3>3. CASE i = 17 /\ 7 \in d
      <4>1. PICK fill : fill = IF 7 \in r.crt[17] THEN {} ELSE 0 .. 7
        OBVIOUS
      <4>2. PICK open : open = [kept.open EXCEPT ![1] = fill, ![2] = fill, ![7] = fill \ {4}]
        OBVIOUS
      <4>3. k = [kept EXCEPT !.open = [j \in DOMAIN @ |-> IF j = 7 THEN fill \ {4} ELSE fill]]
        BY <1>4, <2>2, <3>3, <4>1 DEF CrtKept, Protect
      <4>4. DOMAIN k = DOMAIN kept /\ k.open = [j \in {1, 2, 7} |-> IF j = 7 THEN fill \ {4} ELSE fill]
            /\ \A f \in KeptFields \ {"open"} : k[f] = kept[f]
        BY <1>3, <4>3 DEF KeptFields
      <4>5. k.size = kept.size
        BY <4>4 DEF KeptFields
      <4> QED BY <1>3, <3>2, <4>1, <4>4, <4>5 DEF OpenFollows, SizeFollows
    <3>4. CASE ~(i = 17 /\ 7 \in d)
      <4>1. k = kept
        BY <1>4, <2>2, <3>4 DEF CrtKept
      <4>2. (7 \in r.crt[17]) = (7 \in regs.crt[17])
        BY <1>1, <3>4 DEF CrtIndices
      <4> QED BY <1>3, <3>2, <4>1, <4>2 DEF OpenFollows, SizeFollows
    <3> QED BY <3>3, <3>4
  <2> QED BY <2>1, <2>2
<1>6. k.width = kept.width /\ k.map = kept.map /\ k.write = kept.write /\ k.read = kept.read /\ k.renderer = kept.renderer
      /\ k.mode = kept.mode /\ k.fresh = kept.fresh /\ k.window = kept.window /\ k.pen = kept.pen
      /\ k.palette = kept.palette /\ k.unset = kept.unset
  BY <1>5 DEF KeptFields
<1>7. /\ AccessFollows(k, r) /\ WindowFollows(k, r) /\ RendererFollows(k, r) /\ SizeFollows(k, r)
      /\ MapFollows(k, r) /\ PenFollows(k, r)
  BY <1>2, <1>3, <1>5, <1>6
     DEF AccessFollows, WindowFollows, RendererFollows, SizeFollows, MapFollows, PenFollows
<1>8. KeptOK(k)
  BY <1>3, <1>5, <1>6 DEF KeptOK
<1> QED BY <1>4, <1>5, <1>6, <1>7, <1>8 DEF KeptFollows

\* A step that leaves the DAC alone.
LEMMA VgaWritten ==
    ASSUME VgaInv, regs' \in VgaRegSet, KeptOK(kept'), KeptFollows(kept', regs', title.does),
           kept'.palette = kept.palette, kept'.unset = kept.unset, UNCHANGED <<dac, title>>
    PROVE  VgaInv'
<1>1. dac \in DacSet /\ PaletteHolds(kept.palette, kept.unset, dac, title.does) /\ TitleOK(title)
  BY DEF VgaInv
<1>2. PaletteHolds(kept'.palette, kept'.unset, dac', title'.does)
  BY <1>1
<1> QED BY <1>1, <1>2 DEF VgaInv

LEMMA WriteSeqKeeps == ASSUME VgaInv, NEW i \in SeqIndices, NEW v \in ByteSet, WriteSeq(i, v) PROVE VgaInv'
<1>1. regs \in VgaRegSet /\ KeptOK(kept) /\ KeptFollows(kept, regs, title.does)
  BY DEF VgaInv
<1>2. PICK value \in ByteSet : value = v \ SeqReserved[i]
  BY DEF ByteSet
<1>3. PICK d : d = Changed(regs.seq[i], value)
  OBVIOUS
<1>4. PICK r : r = [regs EXCEPT !.seq[i] = value]
  OBVIOUS
<1>5. r \in VgaRegSet /\ r.seq = [regs.seq EXCEPT ![i] = value] /\ r.gfx = regs.gfx /\ r.attr = regs.attr /\ r.crt = regs.crt
      /\ r.index = regs.index
  BY <1>1, <1>4 DEF VgaRegSet
<1>6. regs' = r /\ kept' = SeqKept(i, d, r) /\ UNCHANGED <<dac, title>>
  BY <1>2, <1>3, <1>4 DEF WriteSeq
<1>7. KeptBut(SeqKept(i, d, r), kept) /\ KeptFollows(SeqKept(i, d, r), r, title.does)
  BY <1>1, <1>3, <1>5, SeqFollows
<1> QED BY <1>5, <1>6, <1>7, VgaWritten DEF KeptBut

LEMMA WriteGfxKeeps == ASSUME VgaInv, NEW i \in GfxIndices, NEW v \in ByteSet, WriteGfx(i, v) PROVE VgaInv'
<1>1. regs \in VgaRegSet /\ KeptOK(kept) /\ KeptFollows(kept, regs, title.does)
  BY DEF VgaInv
<1>2. PICK value \in ByteSet : value = v \ GfxReserved[i]
  BY DEF ByteSet
<1>3. PICK d : d = Changed(regs.gfx[i], value)
  OBVIOUS
<1>4. PICK r : r = [regs EXCEPT !.gfx[i] = value]
  OBVIOUS
<1>5. r \in VgaRegSet /\ r.gfx = [regs.gfx EXCEPT ![i] = value] /\ r.seq = regs.seq /\ r.attr = regs.attr /\ r.crt = regs.crt
      /\ r.index = regs.index
  BY <1>1, <1>4 DEF VgaRegSet
<1>6. regs' = r /\ kept' = GfxKept(i, d, r) /\ UNCHANGED <<dac, title>>
  BY <1>2, <1>3, <1>4 DEF WriteGfx
<1>7. KeptBut(GfxKept(i, d, r), kept) /\ KeptFollows(GfxKept(i, d, r), r, title.does)
  BY <1>1, <1>3, <1>5, GfxFollows
<1> QED BY <1>5, <1>6, <1>7, VgaWritten DEF KeptBut

LEMMA WriteCrtKeeps == ASSUME VgaInv, NEW i \in CrtIndices, NEW v \in ByteSet, NEW p, WriteCrt(p, i, v) PROVE VgaInv'
<1>1. regs \in VgaRegSet /\ KeptOK(kept) /\ KeptFollows(kept, regs, title.does) /\ regs.crt[i] \in ByteSet
  BY DEF VgaInv, VgaRegSet
<1>2. PICK value \in ByteSet : value = (v \cap Writable(i)) \cup (regs.crt[i] \ Writable(i))
  BY <1>1 DEF ByteSet
<1>3. PICK d : d = Changed(regs.crt[i], value)
  OBVIOUS
<1>4. PICK r : r = [regs EXCEPT !.crt[i] = value]
  OBVIOUS
<1>5. r \in VgaRegSet /\ r.crt = [regs.crt EXCEPT ![i] = value] /\ r.seq = regs.seq /\ r.attr = regs.attr /\ r.gfx = regs.gfx
      /\ r.index = regs.index
  BY <1>1, <1>4 DEF VgaRegSet
<1>6. regs' = r /\ kept' = CrtKept(i, d, r) /\ UNCHANGED <<dac, title>>
  BY <1>2, <1>3, <1>4 DEF WriteCrt
<1>7. PICK k : k = CrtKept(i, d, r) /\ KeptOK(k) /\ k.palette = kept.palette /\ k.unset = kept.unset /\ KeptFollows(k, r, title.does)
  BY <1>1, <1>3, <1>5, CrtFollows
<1> QED BY <1>5, <1>6, <1>7, VgaWritten

LEMMA WriteAttrKeeps ==
    ASSUME VgaInv, regs.index.at \in AttrIndices, NEW v \in ByteSet, WriteAttrData(v)
    PROVE  VgaInv'
<1>1. regs \in VgaRegSet /\ KeptOK(kept) /\ KeptFollows(kept, regs, title.does)
  BY DEF VgaInv
<1>2. PICK i \in AttrIndices : i = regs.index.at
  OBVIOUS
<1>3. PICK d : d = Changed(regs.attr[i], v)
  OBVIOUS
<1>4. PICK r : r = [regs EXCEPT !.attr[i] = v, !.index.data = FALSE]
  OBVIOUS
<1>5. r \in VgaRegSet /\ r.attr = [regs.attr EXCEPT ![i] = v] /\ r.seq = regs.seq /\ r.crt = regs.crt /\ r.gfx = regs.gfx
      /\ r.index.shows = regs.index.shows
  BY <1>1, <1>4 DEF VgaRegSet
<1>6. regs' = r /\ kept' = (IF d = {} THEN kept ELSE AttrKept(i, d, r)) /\ UNCHANGED <<dac, title>>
  BY <1>2, <1>3, <1>4 DEF WriteAttrData
<1>7. CASE d # {}
  <2>1. KeptBut(AttrKept(i, d, r), kept) /\ KeptFollows(AttrKept(i, d, r), r, title.does)
    BY <1>1, <1>3, <1>5, AttrFollows
  <2> QED BY <1>5, <1>6, <1>7, <2>1, VgaWritten DEF KeptBut
<1>8. CASE d = {}
  <2>1. r.attr[i] = regs.attr[i]
    <3>1. v = regs.attr[i]
      BY <1>3, <1>8 DEF Changed
    <3> QED BY <1>1, <1>5, <3>1 DEF VgaRegSet
  <2>2. r.attr = regs.attr
    BY <1>1, <1>5, <2>1 DEF VgaRegSet
  <2>3. KeptFollows(kept, r, title.does)
    <3>1. /\ CharWidth(r) = CharWidth(regs) /\ CharMap(r) = CharMap(regs) /\ WriteAccess(r) = WriteAccess(regs)
          /\ ReadAccess(r) = ReadAccess(regs) /\ Renderer(r) = Renderer(regs) /\ Pen(r) = Pen(regs)
          /\ \A w : Size(r, w) = Size(regs, w)
      <4>1. \A w : Size(r, w) = Size(regs, w)
        BY <1>5, SizeBy
      <4> QED BY <1>5, <2>2, <4>1 DEF CharWidth, CharMap, WriteAccess, ReadAccess, Renderer, Pen
    <3> QED BY <1>1, <1>5, <3>1
            DEF KeptFollows, AccessFollows, WindowFollows, RendererFollows, SizeFollows, MapFollows, PenFollows, OpenFollows
  <2> QED BY <1>1, <1>5, <1>6, <1>8, <2>3, VgaWritten
<1> QED BY <1>7, <1>8

\* No bits are worth nothing.
LEMMA NoBits == Value({}) = 0
<1> DEFINE Iter(g) == g = [s \in SUBSET {} |-> IF s = {} THEN 0 ELSE (2 ^ (CHOOSE x \in s : TRUE)) + g[s \ {CHOOSE x \in s : TRUE}]]
<1>1. Value({}) = (CHOOSE g : Iter(g))[{}]
  BY DEF Value, MapThenSumSet, MapThenFoldSet
<1>2. \E g : Iter(g)
  <2>1. Iter([s \in SUBSET {} |-> 0])
    OBVIOUS
  <2> QED BY <2>1
<1>3. PICK h : h = (CHOOSE g : Iter(g)) /\ Iter(h)
  BY <1>2
<1> QED BY <1>1, <1>3

\* What is kept right after a reset follows registers that are clear.
LEMMA FreshFollows ==
    ASSUME NEW open, DOMAIN open = {1, 2, 7}, NEW does, "consoles" \notin does => \A i \in {1, 2} : open[i] = 0 .. 7
    PROVE  /\ FreshRegs \in VgaRegSet /\ KeptOK(FreshKept(open)) /\ KeptFollows(FreshKept(open), FreshRegs, does)
           /\ FreshKept(open).unset = Colors
<1>1. PICK r : r = FreshRegs
  OBVIOUS
<1>2. /\ r.seq = [i \in SeqIndices |-> {}] /\ r.gfx = [i \in GfxIndices |-> {}] /\ r.attr = [i \in AttrIndices |-> {}]
      /\ r.crt = [i \in CrtIndices |-> {}] /\ r.misc = {0} /\ r.index = [at |-> 0, shows |-> FALSE, data |-> FALSE]
      /\ r = [seq |-> r.seq, gfx |-> r.gfx, attr |-> r.attr, crt |-> r.crt, misc |-> r.misc, index |-> r.index]
  BY <1>1 DEF FreshRegs
<1>3. r \in VgaRegSet
  <2>1. {} \in ByteSet /\ {0} \in ByteSet
    BY DEF ByteSet
  <2>2. r.index \in [at : AttrIndices, shows : BOOLEAN, data : BOOLEAN]
    BY <1>2 DEF AttrIndices
  <2>3. /\ r.seq \in [SeqIndices -> ByteSet] /\ r.gfx \in [GfxIndices -> ByteSet] /\ r.attr \in [AttrIndices -> ByteSet]
        /\ r.crt \in [CrtIndices -> ByteSet] /\ r.misc \in ByteSet
    BY <1>2, <2>1
  <2> QED BY <1>2, <2>2, <2>3 DEF VgaRegSet
<1>4. PICK k : k = FreshKept(open)
  OBVIOUS
<1>5. /\ k.renderer = <<"blank", FALSE>> /\ k.size = <<0, 0>> /\ k.width = 9 /\ k.map = <<0, 0>> /\ k.pen = {}
      /\ k.open = open /\ k.palette = [e \in Colors |-> [c \in 0 .. 2 |-> 0]] /\ k.fresh = {"access", "window"} /\ k.unset = Colors
      /\ KeptFields \subseteq DOMAIN k
  BY <1>4 DEF FreshKept, KeptFields
<1>6. /\ r.seq[1] = {} /\ r.seq[3] = {} /\ r.attr[0] = {} /\ r.attr[16] = {} /\ r.attr[20] = {}
      /\ \A i \in CrtIndices : r.crt[i] = {}
  BY <1>2 DEF SeqIndices, AttrIndices
<1>7. r.crt[1] = {} /\ r.crt[2] = {} /\ r.crt[7] = {} /\ r.crt[9] = {} /\ r.crt[17] = {} /\ r.crt[18] = {} /\ r.crt[21] = {}
  BY <1>6 DEF CrtIndices
<1>8. Renderer(r) = <<"blank", FALSE>>
  <2>1. ~r.index.shows
    BY <1>2
  <2>2. 3 \notin r.seq[1]
    BY <1>6
  <2>3. (3 \in r.seq[1]) = FALSE
    BY <2>2
  <2>4. Renderer(r) = <<"blank", 3 \in r.seq[1]>>
    BY <2>1, Zenon DEF Renderer
  <2> QED BY <2>3, <2>4, Zenon
<1>9. CharWidth(r) = 9 /\ CharMap(r) = <<0, 0>> /\ Pen(r) = {}
  BY <1>6 DEF CharWidth, CharMap, Pen, Bit, Shifted
<1>10. Size(r, 9) = <<0, 0>>
  BY <1>7, NoBits DEF Size, Less, Bit
<1>11. KeptFollows(k, r, does)
  BY <1>5, <1>7, <1>8, <1>9, <1>10
     DEF KeptFollows, AccessFollows, WindowFollows, RendererFollows, SizeFollows, MapFollows, PenFollows, OpenFollows
<1>12. KeptOK(k)
  BY <1>5 DEF KeptOK
<1> QED BY <1>1, <1>3, <1>4, <1>5, <1>11, <1>12

LEMMA FreshDacOK ==
    ASSUME NEW palette, NEW does
    PROVE  FreshDac \in DacSet /\ PaletteHolds(palette, Colors, FreshDac, does)
<1>1. 0 \in Colors
  <2>1. PICK n \in Nat : n = Cardinality(Colors) /\ Colors = 0 .. n - 1 /\ Colors # {}
    BY FS_CardinalityType, VgaAssumption
  <2>2. PICK e : e \in 0 .. n - 1
    BY <2>1
  <2>3. 0 <= n - 1
    BY <2>2
  <2>4. 0 \in 0 .. n - 1
    BY <2>3
  <2> QED BY <2>1, <2>4
<1> QED BY <1>1 DEF FreshDac, DacSet, EntrySet, PaletteHolds

LEMMA VgaStart == ASSUME VgaInit, TitleOK(title) PROVE VgaInv
<1>1. PICK open : open = [i \in {1, 2, 7} |-> 0 .. 7]
  OBVIOUS
<1>2. /\ DOMAIN open = {1, 2, 7} /\ \A i \in {1, 2} : open[i] = 0 .. 7
  BY <1>1
<1>3. regs = FreshRegs /\ kept = FreshKept(open) /\ dac = FreshDac
  BY <1>1 DEF VgaInit
<1>4. /\ FreshRegs \in VgaRegSet /\ KeptOK(FreshKept(open)) /\ KeptFollows(FreshKept(open), FreshRegs, title.does)
      /\ FreshKept(open).unset = Colors
  BY <1>2, FreshFollows
<1>5. FreshDac \in DacSet /\ PaletteHolds(kept.palette, kept.unset, FreshDac, title.does)
  BY <1>3, <1>4, FreshDacOK
<1> QED BY <1>3, <1>4, <1>5 DEF VgaInv

LEMMA NewVgaKeeps == ASSUME VgaInv, NewVga PROVE VgaInv'
<1>1. regs' = FreshRegs /\ kept' = FreshKept(kept.open) /\ dac' = FreshDac /\ title' = title /\ "consoles" \in title.does
  BY DEF NewVga
<1>2. DOMAIN kept.open = {1, 2, 7} /\ TitleOK(title)
  BY DEF VgaInv, KeptOK
<1>3. /\ FreshRegs \in VgaRegSet /\ KeptOK(FreshKept(kept.open)) /\ KeptFollows(FreshKept(kept.open), FreshRegs, title.does)
      /\ FreshKept(kept.open).unset = Colors
  BY <1>1, <1>2, FreshFollows
<1>4. FreshDac \in DacSet /\ PaletteHolds(kept'.palette, kept'.unset, FreshDac, title.does)
  BY <1>1, <1>3, FreshDacOK
<1> QED BY <1>1, <1>2, <1>3, <1>4 DEF VgaInv

\* Registers that nothing but the renderer is computed of.
LEMMA OthersFollow ==
    ASSUME NEW r, NEW k, NEW does, KeptFollows(kept, regs, does), r.seq = regs.seq, r.gfx = regs.gfx, r.attr = regs.attr, r.crt = regs.crt,
           RendererFollows(k, r), \A f \in KeptFields \ {"renderer"} : k[f] = kept[f]
    PROVE  KeptFollows(k, r, does)
<1>1. /\ CharWidth(r) = CharWidth(regs) /\ CharMap(r) = CharMap(regs) /\ WriteAccess(r) = WriteAccess(regs)
      /\ ReadAccess(r) = ReadAccess(regs) /\ Pen(r) = Pen(regs) /\ \A w : Size(r, w) = Size(regs, w)
  BY SizeBy DEF CharWidth, CharMap, WriteAccess, ReadAccess, Pen
<1>2. k.width = kept.width /\ k.size = kept.size /\ k.map = kept.map /\ k.write = kept.write /\ k.read = kept.read
      /\ k.mode = kept.mode /\ k.fresh = kept.fresh /\ k.window = kept.window /\ k.pen = kept.pen /\ k.open = kept.open
  BY DEF KeptFields
<1> QED BY <1>1, <1>2
        DEF KeptFollows, AccessFollows, WindowFollows, RendererFollows, SizeFollows, MapFollows, PenFollows, OpenFollows

LEMMA AttrIndexKeeps ==
    ASSUME VgaInv, NEW i \in AttrIndices, NEW shows \in BOOLEAN, WriteAttrIndex(i, shows)
    PROVE  VgaInv'
<1>1. regs \in VgaRegSet /\ KeptOK(kept) /\ KeptFollows(kept, regs, title.does)
  BY DEF VgaInv
<1>2. PICK r : r = [regs EXCEPT !.index = [at |-> i, shows |-> shows, data |-> TRUE]]
  OBVIOUS
<1>3. r \in VgaRegSet /\ r.seq = regs.seq /\ r.gfx = regs.gfx /\ r.attr = regs.attr /\ r.crt = regs.crt
      /\ r.index = [at |-> i, shows |-> shows, data |-> TRUE]
  BY <1>1, <1>2 DEF VgaRegSet
<1>4. PICK k : k = IF shows # regs.index.shows THEN ChangeRenderer(r, kept) ELSE kept
  OBVIOUS
<1>5. regs' = r /\ kept' = k /\ UNCHANGED <<dac, title>>
  BY <1>2, <1>4 DEF WriteAttrIndex
<1>6. RendererFollows(k, r) /\ DOMAIN k = DOMAIN kept /\ \A f \in KeptFields \ {"renderer"} : k[f] = kept[f]
  <2>1. CASE shows # regs.index.shows
    BY <1>1, <1>4, <2>1 DEF KeptOK, KeptFields, ChangeRenderer, RendererFollows
  <2>2. CASE shows = regs.index.shows
    <3>1. r.index.shows = regs.index.shows
      BY <1>3, <2>2
    <3>2. Renderer(r) = Renderer(regs)
      BY <1>3, <3>1, Zenon DEF Renderer
    <3>3. k = kept /\ RendererFollows(kept, regs)
      BY <1>1, <1>4, <2>2 DEF KeptFollows
    <3> QED BY <3>2, <3>3 DEF RendererFollows
  <2> QED BY <2>1, <2>2
<1>7. KeptFollows(k, r, title.does)
  BY <1>1, <1>3, <1>6, OthersFollow
<1>8. k.open = kept.open /\ k.palette = kept.palette /\ k.unset = kept.unset
  BY <1>6 DEF KeptFields
<1>9. KeptOK(k)
  BY <1>1, <1>6, <1>8 DEF KeptOK
<1> QED BY <1>3, <1>5, <1>7, <1>8, <1>9, VgaWritten

\* Writes of MISC and reads of the status.
LEMMA PortsKeep ==
    ASSUME VgaInv, (\E v \in {{}, {0}} : WriteMisc(v)) \/ (\E p \in {"mono", "color"} : ReadStatus(p))
    PROVE  VgaInv'
<1>1. regs \in VgaRegSet /\ KeptOK(kept) /\ KeptFollows(kept, regs, title.does)
  BY DEF VgaInv
<1>2. UNCHANGED <<kept, dac, title>>
  BY DEF WriteMisc, ReadStatus
<1>3. PICK r : r = regs'
  OBVIOUS
<1>4. r \in VgaRegSet /\ r.seq = regs.seq /\ r.gfx = regs.gfx /\ r.attr = regs.attr /\ r.crt = regs.crt
      /\ r.index.shows = regs.index.shows
  <2>1. CASE \E v \in {{}, {0}} : WriteMisc(v)
    <3>1. PICK v \in ByteSet : r = [regs EXCEPT !.misc = v]
      BY <1>3, <2>1 DEF WriteMisc, ByteSet
    <3> QED BY <1>1, <3>1 DEF VgaRegSet
  <2>2. CASE \E p \in {"mono", "color"} : ReadStatus(p)
    <3>1. r = [regs EXCEPT !.index.data = FALSE] \/ r = regs
      BY <1>3, <2>2 DEF ReadStatus
    <3>2. CASE r = [regs EXCEPT !.index.data = FALSE]
      BY <1>1, <3>2 DEF VgaRegSet
    <3>3. CASE r = regs
      BY <1>1, <3>3
    <3> QED BY <3>1, <3>2, <3>3
  <2> QED BY <2>1, <2>2
<1>5. RendererFollows(kept, r)
  <2>1. Renderer(r) = Renderer(regs)
    BY <1>4, Zenon DEF Renderer
  <2> QED BY <1>1, <2>1 DEF KeptFollows, RendererFollows
<1>6. KeptFollows(kept, r, title.does)
  BY <1>1, <1>4, <1>5, OthersFollow
<1> QED BY <1>1, <1>2, <1>3, <1>4, <1>6, VgaWritten

\* Accesses to the DAC.
LEMMA DacKeeps ==
    ASSUME VgaInv, \/ \E e \in Colors : DacReadAddress(e) \/ DacWriteAddress(e)
                   \/ \E v \in {0, 1} : DacWrite(v)
                   \/ DacRead
    PROVE  VgaInv'
<1>1. /\ regs \in VgaRegSet /\ KeptOK(kept) /\ KeptFollows(kept, regs, title.does) /\ TitleOK(title)
      /\ dac \in DacSet /\ PaletteHolds(kept.palette, kept.unset, dac, title.does)
  BY DEF VgaInv
<1>2. CASE (\E e \in Colors : DacReadAddress(e) \/ DacWriteAddress(e)) \/ DacRead
  <2>1. dac' \in DacSet /\ PaletteHolds(kept.palette, kept.unset, dac', title.does)
    BY <1>1, <1>2, DacMoves, ZenonT(40)
  <2>2. UNCHANGED <<regs, kept, title>>
    BY <1>2 DEF DacReadAddress, DacWriteAddress, DacRead
  <2> QED BY <1>1, <2>1, <2>2 DEF VgaInv
<1>3. CASE \E v \in {0, 1} : DacWrite(v)
  <2>1. PICK v \in {0, 1} : DacWrite(v)
    BY <1>3
  <2>2. KeptFields \subseteq DOMAIN kept /\ DOMAIN kept.palette = Colors /\ DOMAIN kept.open = {1, 2, 7}
    BY <1>1 DEF KeptOK
  <2>3. {"palette", "unset"} \subseteq DOMAIN kept
    BY <2>2 DEF KeptFields
  <2>4. /\ dac' \in DacSet /\ PaletteHolds(kept'.palette, kept'.unset, dac', title.does)
        /\ DOMAIN kept'.palette = Colors
        /\ DOMAIN kept' = DOMAIN kept /\ \A f \in DOMAIN kept \ {"palette", "unset"} : kept'[f] = kept[f]
    BY <1>1, <2>1, <2>2, <2>3, DacWritten
  <2>5. UNCHANGED <<regs, title>>
    BY <2>1 DEF DacWrite
  <2>6. PICK k : k = kept'
    OBVIOUS
  <2>7. \A f \in KeptFields \ {"palette", "unset"} : k[f] = kept[f]
    BY <2>2, <2>4, <2>6
  <2>8. k.open = kept.open /\ k.width = kept.width /\ k.size = kept.size /\ k.map = kept.map /\ k.write = kept.write
        /\ k.read = kept.read /\ k.mode = kept.mode /\ k.fresh = kept.fresh /\ k.window = kept.window /\ k.pen = kept.pen
        /\ k.renderer = kept.renderer
    BY <2>7 DEF KeptFields
  <2>9. KeptOK(k)
    BY <2>2, <2>4, <2>6, <2>8 DEF KeptOK
  <2>10. KeptFollows(k, regs, title.does)
    BY <1>1, <2>8
       DEF KeptFollows, AccessFollows, WindowFollows, RendererFollows, SizeFollows, MapFollows, PenFollows, OpenFollows
  <2> QED BY <1>1, <2>4, <2>5, <2>6, <2>9, <2>10 DEF VgaInv
<1> QED BY <1>2, <1>3

LEMMA VgaStutter == ASSUME VgaInv, UNCHANGED <<regs, kept, dac, title>> PROVE VgaInv'
  BY DEF VgaInv

LEMMA VgaStep == ASSUME VgaInv, VgaNext PROVE VgaInv'
<1>0. /\ TableOK(title.seq, SeqIndices) /\ TableOK(title.gfx, GfxIndices) /\ TableOK(title.attr, AttrIndices)
      /\ TableOK(title.crt, CrtIndices)
  BY DEF VgaInv, TitleOK
<1>1. CASE \E i \in DOMAIN title.seq : \E v \in SUBSET title.seq[i] : WriteSeq(i, v)
  <2>1. PICK i \in SeqIndices, v \in ByteSet : WriteSeq(i, v)
    BY <1>0, <1>1 DEF TableOK, ByteSet
  <2> QED BY <2>1, WriteSeqKeeps
<1>2. CASE \E i \in DOMAIN title.gfx : \E v \in SUBSET title.gfx[i] : WriteGfx(i, v)
  <2>1. PICK i \in GfxIndices, v \in ByteSet : WriteGfx(i, v)
    BY <1>0, <1>2 DEF TableOK, ByteSet
  <2> QED BY <2>1, WriteGfxKeeps
<1>3. CASE \E i \in DOMAIN title.attr, shows \in BOOLEAN : WriteAttrIndex(i, shows)
  <2>1. PICK i \in AttrIndices, shows \in BOOLEAN : WriteAttrIndex(i, shows)
    BY <1>0, <1>3 DEF TableOK
  <2> QED BY <2>1, AttrIndexKeeps
<1>4. CASE regs.index.at \in DOMAIN title.attr /\ \E v \in SUBSET title.attr[regs.index.at] : WriteAttrData(v)
  <2>1. PICK v \in ByteSet : regs.index.at \in AttrIndices /\ WriteAttrData(v)
    BY <1>0, <1>4 DEF TableOK, ByteSet
  <2> QED BY <2>1, WriteAttrKeeps
<1>5. CASE \E i \in DOMAIN title.crt, p \in {"mono", "color"} : \E v \in SUBSET title.crt[i] : WriteCrt(p, i, v)
  <2>1. PICK i \in CrtIndices, p \in {"mono", "color"}, v \in ByteSet : WriteCrt(p, i, v)
    BY <1>0, <1>5 DEF TableOK, ByteSet
  <2> QED BY <2>1, WriteCrtKeeps
<1>6. CASE "status" \in title.does /\ ((\E v \in {{}, {0}} : WriteMisc(v)) \/ \E p \in {"mono", "color"} : ReadStatus(p))
  BY <1>6, PortsKeep
<1>7. CASE "dac" \in title.does /\ \/ \E e \in Colors : DacReadAddress(e) \/ DacWriteAddress(e)
                                   \/ \E v \in {0, 1} : DacWrite(v)
                                   \/ DacRead
  BY <1>7, DacKeeps
<1>8. CASE \E a \in Addresses : MemRead(a) \/ \E v \in SUBSET (Planes \cup Bits) : MemWrite(a, v)
  <2>1. UNCHANGED <<regs, kept, dac, title>>
    BY <1>8 DEF MemRead, MemWrite
  <2> QED BY <2>1, VgaStutter
<1>9. CASE NewVga
  BY <1>9, NewVgaKeeps
<1> QED BY <1>1, <1>2, <1>3, <1>4, <1>5, <1>6, <1>7, <1>8, <1>9 DEF VgaNext

LEMMA TitlesOK == ASSUME title \in Titles \/ title = NoTitle PROVE TitleOK(title)
<1>1. CASE title \in Titles
  <2>1. /\ DOMAIN title.seq \subseteq SeqIndices /\ DOMAIN title.gfx \subseteq GfxIndices
        /\ DOMAIN title.attr \subseteq AttrIndices /\ DOMAIN title.crt \subseteq CrtIndices
    BY <1>1, VgaAssumption
  <2>2. \A table \in {title.seq, title.gfx, title.attr, title.crt} : \A i \in DOMAIN table : table[i] \in ByteSet
    BY <1>1, VgaAssumption DEF ByteSet
  <2> QED BY <2>1, <2>2 DEF TitleOK, TableOK
<1>2. CASE title = NoTitle
  <2>1. title.seq = None /\ title.gfx = None /\ title.attr = None /\ title.crt = None
    BY <1>2 DEF NoTitle, Title
  <2>2. DOMAIN None = {}
    BY DEF None
  <2> QED BY <2>1, <2>2 DEF TitleOK, TableOK
<1> QED BY <1>1, <1>2

\* However a title writes the registers and the DAC, what the VGA keeps of them is
\* what VgaInv says.
THEOREM VgaInvariant == Spec => []VgaInv
<1>1. Init => VgaInv
  <2> SUFFICES ASSUME Init PROVE VgaInv
    OBVIOUS
  <2>1. VgaInit /\ (title \in Titles \/ title = NoTitle)
    BY DEF Init
  <2> QED BY <2>1, VgaStart, TitlesOK
<1>2. VgaInv /\ [Next]_<<part, tvars, svars, vvars, wvars, xvars>> => VgaInv'
  <2> SUFFICES ASSUME VgaInv, [Next]_<<part, tvars, svars, vvars, wvars, xvars>> PROVE VgaInv'
    OBVIOUS
  <2>1. VgaNext \/ UNCHANGED vvars
    BY DEF Next
  <2>2. UNCHANGED vvars => UNCHANGED <<regs, kept, dac, title>>
    BY DEF vvars
  <2> QED BY <2>1, <2>2, VgaStep, VgaStutter
<1> QED BY <1>1, <1>2, PTL DEF Spec

\* Whatever the order of the writes, the access modes, the window, the renderer, the
\* size, the fonts, the pens and the protection of the CRT registers are what the
\* registers mean (video/vga.cpp).
THEOREM RegistersKept == Spec => []VgaFollows
<1>1. VgaInv => VgaFollows
  BY DEF VgaInv, KeptFollows, AccessFollows, WindowFollows, RendererFollows, SizeFollows, MapFollows, PenFollows, OpenFollows,
         VgaFollows
<1> QED BY <1>1, VgaInvariant, PTL

\* The palette is what the DAC holds, but for the entry that is just being written
\* (video/vga.cpp).
THEOREM PaletteKept == Spec => []PaletteFollows
<1>1. VgaInv => PaletteFollows
  BY DEF VgaInv, PaletteHolds, PaletteFollows
<1> QED BY <1>1, VgaInvariant, PTL

-----------------------------------------------------------------------------
(***************************************************************************)
(* The memory of the VGA.  Each byte has planes of its own, in each mode;  *)
(* a pixel is in all planes, and the latches hold one that was read.       *)
(***************************************************************************)

\* the planes that hold the byte at an offset, in a mode
PlanesOf(access, a) ==
    CASE access = "chain4" -> {a % NumPlanes} [] access = "oddeven" -> {p \in Planes : p % 2 = a % 2} [] OTHER -> Planes
Accesses == {"chain4", "oddeven", "normal"}

\* An offset and its place are numbers.
LEMMA Offset == ASSUME NEW a \in Addresses PROVE a \in Nat
<1>1. PICK n \in Nat : n = Cardinality(Addresses)
  BY FS_CardinalityType, VgaAssumption
<1>2. a \in 0 .. n - 1
  BY <1>1, VgaAssumption
<1> QED BY <1>2

LEMMA PlaceInWindow == ASSUME NEW a \in Addresses, NEW m PROVE PlaneAddress(m, a) \in Addresses
<1>1. PICK n \in Nat : n = Cardinality(Addresses)
  BY FS_CardinalityType, VgaAssumption
<1>2. Addresses = 0 .. n - 1
  BY <1>1, VgaAssumption
<1>3. \A b \in Nat : b <= a => b \in Addresses
  <2>1. a \in 0 .. n - 1
    BY <1>2
  <2>2. \A b \in Nat : b <= a => b \in 0 .. n - 1
    BY <2>1
  <2> QED BY <1>2, <2>2
<1>4. a \div NumPlanes \in Nat /\ a \div NumPlanes <= a
  <2>1. CASE NumPlanes = 2
    BY Offset, <2>1
  <2>2. CASE NumPlanes = 4
    BY Offset, <2>2
  <2> QED BY <2>1, <2>2, VgaAssumption
<1>5. a - (a % 2) \in Nat /\ a - (a % 2) <= a
  BY Offset
<1> QED BY <1>3, <1>4, <1>5 DEF PlaneAddress

\* Two offsets with the same place have their bytes in planes of their own.
LEMMA PlanesApart ==
    ASSUME NEW a \in Addresses, NEW b \in Addresses, a # b, NEW m, PlaneAddress(m, a) = PlaneAddress(m, b)
    PROVE  PlanesOf(m, a) \cap PlanesOf(m, b) = {}
<1>1. a \in Nat /\ b \in Nat
  BY Offset
<1>2. CASE m = "chain4"
  <2>1. a \div NumPlanes = b \div NumPlanes
    BY <1>2 DEF PlaneAddress
  <2>2. a % NumPlanes # b % NumPlanes
    <3>1. CASE NumPlanes = 2
      BY <1>1, <2>1, <3>1
    <3>2. CASE NumPlanes = 4
      BY <1>1, <2>1, <3>2
    <3> QED BY <3>1, <3>2, VgaAssumption
  <2> QED BY <1>2, <2>2 DEF PlanesOf
<1>3. CASE m = "oddeven"
  <2>1. a - (a % 2) = b - (b % 2)
    BY <1>3 DEF PlaneAddress
  <2>2. a % 2 # b % 2
    BY <1>1, <2>1
  <2>3. PlanesOf(m, a) = {p \in Planes : p % 2 = a % 2} /\ PlanesOf(m, b) = {p \in Planes : p % 2 = b % 2}
    BY <1>3 DEF PlanesOf
  <2> QED BY <2>2, <2>3
<1>4. CASE m \notin {"chain4", "oddeven"}
  BY <1>4 DEF PlaneAddress
<1> QED BY <1>2, <1>3, <1>4

LEMMA PlanesThere == ASSUME NEW a \in Addresses, NEW m PROVE PlanesOf(m, a) \subseteq Planes
<1>1. a \in Nat
  BY Offset
<1>2. a % NumPlanes \in Planes
  <2>1. CASE NumPlanes = 2
    BY <1>1, <2>1 DEF Planes
  <2>2. CASE NumPlanes = 4
    BY <1>1, <2>2 DEF Planes
  <2> QED BY <2>1, <2>2, VgaAssumption
<1> QED BY <1>2 DEF PlanesOf

\* A read takes the byte from one of the planes that hold it.
LEMMA PlaneRead ==
    ASSUME NEW a \in Addresses, 1 \in regs.gfx[4] => NumPlanes = 4, kept.read \in Accesses
    PROVE  ReadPlane(a) \in PlanesOf(kept.read, a)
<1>1. a \in Nat
  BY Offset
<1>2. CASE kept.read = "chain4"
  BY <1>2 DEF ReadPlane, PlanesOf
<1>3. CASE kept.read = "oddeven"
  <2>1. PICK k : k = Bit(1, regs.gfx[4], 2)
    OBVIOUS
  <2>2. k = 0 \/ (k = 2 /\ NumPlanes = 4)
    BY <2>1 DEF Bit
  <2>3. (a % 2) + k \in Planes /\ ((a % 2) + k) % 2 = a % 2
    <3>1. a % 2 \in {0, 1}
      BY <1>1
    <3>2. NumPlanes \in {2, 4}
      BY VgaAssumption
    <3> QED BY <2>2, <3>1, <3>2 DEF Planes
  <2>4. ReadPlane(a) = (a % 2) + k
    BY <1>3, <2>1 DEF ReadPlane
  <2> QED BY <1>3, <2>3, <2>4 DEF PlanesOf
<1>4. CASE kept.read = "normal"
  <2>1. Low2(regs.gfx[4]) \in Planes
    BY VgaAssumption DEF Low2, Bit, Planes
  <2>2. ReadPlane(a) = Low2(regs.gfx[4]) /\ PlanesOf(kept.read, a) = Planes
    BY <1>4 DEF ReadPlane, PlanesOf
  <2> QED BY <2>1, <2>2
<1> QED BY <1>2, <1>3, <1>4 DEF Accesses
VramSet == [bytes : [Addresses -> [Planes -> SUBSET Bits]], latch : [Planes -> SUBSET Bits]]
PixelSet == SUBSET (Planes \cup Bits)
CanvasSet == [cell : [Addresses -> PixelSet], copy : PixelSet, read : SUBSET Addresses, mode : Accesses \cup {"none"}]

\* the bytes are where a mode has them
BytesAt(m, bytes, cell) == \A a \in Addresses : \A p \in PlanesOf(m, a) : bytes[PlaneAddress(m, a)][p] = cell[a]
BlankMemory(bytes, cell) == \A a \in Addresses : cell[a] = {} /\ \A p \in Planes : bytes[a][p] = {}

\* Before a byte was stored they are where any mode has them.
LEMMA BlankAt == ASSUME NEW m, NEW bytes, NEW cell, BlankMemory(bytes, cell) PROVE BytesAt(m, bytes, cell)
<1> SUFFICES ASSUME NEW a \in Addresses, NEW p \in PlanesOf(m, a) PROVE bytes[PlaneAddress(m, a)][p] = cell[a]
  BY DEF BytesAt
<1>1. PlaneAddress(m, a) \in Addresses /\ p \in Planes
  BY PlaceInWindow, PlanesThere
<1> QED BY <1>1 DEF BlankMemory

PutByte(m, bytes, a, v) ==
    [bytes EXCEPT ![PlaneAddress(m, a)] =
        [p \in Planes |-> IF p \in PlanesOf(m, a) THEN v ELSE bytes[PlaneAddress(m, a)][p]]]
PutCell(cell, a, v) == [cell EXCEPT ![a] = v]

\* A byte that is stored in its planes disturbs no other.
LEMMA BytesStored ==
    ASSUME NEW m, NEW bytes \in [Addresses -> [Planes -> SUBSET Bits]], NEW cell \in [Addresses -> PixelSet], BytesAt(m, bytes, cell),
           NEW a \in Addresses, NEW v
    PROVE  BytesAt(m, PutByte(m, bytes, a, v), PutCell(cell, a, v))
<1>a. PICK planes : planes = PlanesOf(m, a)
  OBVIOUS
<1>b. PICK byte : byte = [p \in Planes |-> IF p \in planes THEN v ELSE bytes[PlaneAddress(m, a)][p]]
  OBVIOUS
<1>c. PICK written : written = [bytes EXCEPT ![PlaneAddress(m, a)] = byte]
  OBVIOUS
<1>d. PICK drawn : drawn = [cell EXCEPT ![a] = v]
  OBVIOUS
<1>e. PutByte(m, bytes, a, v) = written /\ PutCell(cell, a, v) = drawn
  BY <1>a, <1>b, <1>c, <1>d DEF PutByte, PutCell
<1> SUFFICES ASSUME NEW b \in Addresses, NEW p \in PlanesOf(m, b) PROVE written[PlaneAddress(m, b)][p] = drawn[b]
  BY <1>e DEF BytesAt
<1>1. PlaneAddress(m, a) \in Addresses /\ PlaneAddress(m, b) \in Addresses /\ p \in Planes
  BY PlaceInWindow, PlanesThere
<1>2. bytes[PlaneAddress(m, b)][p] = cell[b]
  BY DEF BytesAt
<1>3. CASE b = a
  <2>1. written[PlaneAddress(m, b)] = byte /\ drawn[b] = v /\ byte[p] = v
    BY <1>1, <1>3, <1>a, <1>b, <1>c, <1>d
  <2> QED BY <2>1
<1>4. CASE b # a /\ PlaneAddress(m, b) # PlaneAddress(m, a)
  BY <1>1, <1>2, <1>4, <1>c, <1>d
<1>5. CASE b # a /\ PlaneAddress(m, b) = PlaneAddress(m, a)
  <2>1. p \notin planes
    BY <1>5, <1>a, PlanesApart
  <2>2. written[PlaneAddress(m, b)] = byte /\ drawn[b] = cell[b] /\ byte[p] = bytes[PlaneAddress(m, b)][p]
    BY <1>1, <1>5, <2>1, <1>b, <1>c, <1>d
  <2> QED BY <1>2, <2>2
<1> QED BY <1>3, <1>4, <1>5

LEMMA FullIsSome == Full # {}
<1>1. 0 \in 0 .. NumBits - 1
  BY VgaAssumption
<1> QED BY <1>1 DEF Full, Bits

\* The shift by nothing, of nothing and of everything.
LEMMA RotatedNone == Rotated({}) = {}
  BY DEF Rotated

LEMMA RotatedByNone == ASSUME regs.gfx[3] = {}, NEW v \in SUBSET Bits PROVE Rotated(v) = v
<1>1. NumBits \in Nat /\ NumBits > 0
  BY VgaAssumption
<1>2. Low2(regs.gfx[3]) + Bit(2, regs.gfx[3], 4) = 0
  BY DEF Low2, Bit
<1>3. \A b \in Bits : (b + 8 * NumBits - 0) % NumBits = b
  <2>1. NumBits \in 1 .. 8
    BY VgaAssumption
  <2> QED BY <2>1 DEF Bits
<1>4. v \cap Bits = v
  OBVIOUS
<1>5. Rotated(v) = {(b + 8 * NumBits - 0) % NumBits : b \in v}
  BY <1>2, <1>4 DEF Rotated
<1> QED BY <1>3, <1>5

LEMMA RotatedFull == Rotated(Full) = Full
<1>1. PICK n : n = Low2(regs.gfx[3]) + Bit(2, regs.gfx[3], 4)
  OBVIOUS
<1>2. n \in 0 .. 7
  BY <1>1 DEF Low2, Bit
<1>3. NumBits \in {1, 2, 3, 4, 5, 6, 7, 8}
  BY VgaAssumption
<1>4. \A b \in Bits : (b + 8 * NumBits - n) % NumBits \in Bits
  BY <1>2, <1>3 DEF Bits
<1>5. \A c \in Bits : \E b \in Bits : (b + 8 * NumBits - n) % NumBits = c
  <2> SUFFICES ASSUME NEW c \in Bits PROVE \E b \in Bits : (b + 8 * NumBits - n) % NumBits = c
    OBVIOUS
  <2>1. (c + n) % NumBits \in Bits /\ (((c + n) % NumBits) + 8 * NumBits - n) % NumBits = c
    BY <1>2, <1>3 DEF Bits
  <2> QED BY <2>1
<1>6. Rotated(Full) = {(b + 8 * NumBits - n) % NumBits : b \in Bits}
  BY <1>1 DEF Rotated, Full
<1> QED BY <1>4, <1>5, <1>6 DEF Full
\* a pixel and the byte of each plane that hold the same
Shows(cell, byte) == cell \in SUBSET Planes /\ \A p \in Planes : byte[p] = Filled(p, cell)

PixelsHold ==
    /\ \A a \in Addresses : Shows(canvas.cell[a], vram.bytes[a])
    /\ Shows(canvas.copy, vram.latch)
    /\ \A a \in canvas.read : canvas.read = {a} /\ vram.latch = vram.bytes[a] /\ canvas.copy = canvas.cell[a]

BytesHold ==
    IF canvas.mode = "none" THEN BlankMemory(vram.bytes, canvas.cell) ELSE BytesAt(canvas.mode, vram.bytes, canvas.cell)

PlanesSelected == 1 \in regs.gfx[4] => NumPlanes = 4
TitleDraws == /\ "pixels" \notin title.does \/ "bytes" \notin title.does
              /\ NumPlanes = 2 /\ 4 \in DOMAIN title.gfx => 1 \notin title.gfx[4]

\* The inductive invariant of the memory, over that of the registers.
MemoryInv ==
    /\ vram \in VramSet /\ canvas \in CanvasSet /\ PlanesSelected /\ TitleDraws
    /\ "pixels" \in title.does => PixelsHold
    /\ "bytes" \in title.does /\ "latches" \notin title.does => BytesHold

\* Combining whole bytes combines the pixels.
LEMMA PlaneCombined == ASSUME NEW x, NEW y, NEW p \in Planes PROVE Combined(Filled(p, x), Filled(p, y)) = Filled(p, Combined(x, y))
<1>1. CASE Operation = {}
  BY <1>1 DEF Combined
<1>2. CASE Operation = {3}
  BY <1>2 DEF Combined, Filled
<1>3. CASE Operation = {4}
  BY <1>3 DEF Combined, Filled
<1>4. CASE Operation \notin {{}, {3}, {4}}
  BY <1>4 DEF Combined, Filled, Changed
<1> QED BY <1>1, <1>2, <1>3, <1>4

LEMMA CombinedWithin == ASSUME NEW S, NEW x \in SUBSET S, NEW y \in SUBSET S PROVE Combined(x, y) \in SUBSET S
  BY DEF Combined, Changed

LEMMA ModeIs == Mode \in 0 .. 3
  BY DEF Mode, Low2, Bit

\* What goes to the planes is the pixel that is painted.
LEMMA PixelData ==
    ASSUME NEW v, Mode # 1, IF Mode = 2 THEN v \in SUBSET Planes ELSE v \in {{}, Full}, Full # {}
    PROVE  Paint(v) \in SUBSET Planes /\ \A p \in Planes : Data(p, v) = Filled(p, Paint(v))
<1>1. CASE Mode = 0
  <2>1. Paint(v) = {p \in Planes : IF p \in regs.gfx[1] THEN p \in regs.gfx[0] ELSE v # {}}
    BY <1>1 DEF Paint
  <2>2. Rotated(v) = v
    BY <1>1, RotatedNone, RotatedFull
  <2>3. \A p \in Planes : Data(p, v) = IF p \in regs.gfx[1] THEN Filled(p, regs.gfx[0]) ELSE v
    BY <1>1, <2>2 DEF Data
  <2>4. \A p \in Planes : Data(p, v) = Filled(p, Paint(v))
    BY <1>1, <2>1, <2>3 DEF Filled
  <2> QED BY <2>1, <2>4
<1>2. CASE Mode = 2
  BY <1>2 DEF Paint, Data
<1>3. CASE Mode = 3
  BY <1>3 DEF Paint, Data, Filled
<1> QED BY <1>1, <1>2, <1>3, ModeIs

\* The byte that is stored shows the pixel that is drawn.
LEMMA PixelStored ==
    ASSUME MemoryInv, PixelsHold, NEW a \in Addresses, NEW v, Draws(a, v), Full # {}
    PROVE  Drawn(a, v) \in SUBSET Planes /\ \A p \in Planes : Stored(p, v) = Filled(p, Drawn(a, v))
<1>0. /\ Shows(canvas.copy, vram.latch) /\ Shows(canvas.cell[a], vram.bytes[a])
      /\ canvas.read = {a} => vram.latch = vram.bytes[a]
  BY DEF PixelsHold
<1>1. CASE Mode = 1
  BY <1>0, <1>1 DEF Drawn, Stored, Shows
<1>2. CASE Mode # 1 /\ Masked(v)
  <2>1. Mask(v) = {}
    BY <1>2, RotatedNone DEF Masked, Mask
  <2>2. vram.latch = vram.bytes[a]
    BY <1>0, <1>2 DEF Draws
  <2>3. \A p \in Planes : Stored(p, v) = vram.latch[p]
    BY <1>2, <2>1 DEF Stored
  <2>4. Drawn(a, v) = canvas.cell[a]
    BY <1>2 DEF Drawn
  <2> QED BY <1>0, <2>2, <2>3, <2>4 DEF Shows
<1>3. CASE Mode # 1 /\ ~Masked(v)
  <2>1. IF Mode = 2 THEN v \in SUBSET Planes ELSE v \in {{}, Full}
    BY DEF Draws
  <2>2. Mask(v) = Full
    <3>1. regs.gfx[8] \cap Bits = Full
      BY <1>3 DEF Draws, Masked, Full
    <3>2. Mode = 3 => Rotated(v) = Full
      BY <1>3, <2>1, RotatedFull DEF Masked
    <3> QED BY <3>1, <3>2 DEF Mask
  <2>3. Paint(v) \in SUBSET Planes /\ \A p \in Planes : Data(p, v) = Filled(p, Paint(v))
    BY <1>3, <2>1, PixelData
  <2>4. \A p \in Planes : Data(p, v) \in SUBSET Full /\ vram.latch[p] \in SUBSET Full
    <3>1. \A p \in Planes : vram.latch[p] \in SUBSET Full
      BY DEF MemoryInv, VramSet, Full
    <3> QED BY <2>3, <3>1 DEF Filled
  <2>5. \A p \in Planes : Stored(p, v) = Combined(Data(p, v), vram.latch[p])
    <3> SUFFICES ASSUME NEW p \in Planes PROVE Stored(p, v) = Combined(Data(p, v), vram.latch[p])
      OBVIOUS
    <3>1. PICK x \in SUBSET Full : x = Combined(Data(p, v), vram.latch[p])
      BY <2>4, CombinedWithin
    <3>2. Stored(p, v) = (x \cap Full) \cup (vram.latch[p] \ Full)
      BY <1>3, <2>2, <3>1 DEF Stored
    <3> QED BY <2>4, <3>1, <3>2
  <2>6. Drawn(a, v) = Combined(Paint(v), canvas.cell[a])
    BY <1>3 DEF Drawn
  <2>7. CASE Operation = {}
    <3>1. Drawn(a, v) = Paint(v) /\ \A p \in Planes : Stored(p, v) = Data(p, v)
      BY <2>5, <2>6, <2>7 DEF Combined
    <3> QED BY <2>3, <3>1
  <2>8. CASE Operation # {}
    <3>1. vram.latch = vram.bytes[a]
      BY <1>0, <1>3, <2>8 DEF Draws
    <3>2. \A p \in Planes : vram.latch[p] = Filled(p, canvas.cell[a])
      BY <1>0, <3>1 DEF Shows
    <3>3. \A p \in Planes : Stored(p, v) = Combined(Filled(p, Paint(v)), Filled(p, canvas.cell[a]))
      BY <2>3, <2>5, <3>2
    <3>4. \A p \in Planes : Stored(p, v) = Filled(p, Drawn(a, v))
      BY <2>6, <3>3, PlaneCombined
    <3>5. Drawn(a, v) \in SUBSET Planes
      BY <1>0, <2>3, <2>6, CombinedWithin DEF Shows
    <3> QED BY <3>4, <3>5
  <2> QED BY <2>7, <2>8
<1> QED BY <1>1, <1>2, <1>3
LEMMA RotatedWithin == ASSUME NEW v PROVE Rotated(v) \in SUBSET Bits
<1>1. PICK n : n = Low2(regs.gfx[3]) + Bit(2, regs.gfx[3], 4)
  OBVIOUS
<1>2. n \in 0 .. 7
  BY <1>1 DEF Low2, Bit
<1>3. NumBits \in {1, 2, 3, 4, 5, 6, 7, 8}
  BY VgaAssumption
<1>4. \A b \in Bits : (b + 8 * NumBits - n) % NumBits \in Bits
  BY <1>2, <1>3 DEF Bits
<1>5. Rotated(v) = {(b + 8 * NumBits - n) % NumBits : b \in v \cap Bits}
  BY <1>1 DEF Rotated
<1> QED BY <1>4, <1>5

LEMMA StoredWithin ==
    ASSUME vram \in VramSet, NEW p \in Planes, NEW v
    PROVE  Stored(p, v) \in SUBSET Bits
<1>1. vram.latch[p] \in SUBSET Bits
  BY DEF VramSet
<1>2. Data(p, v) \in SUBSET Bits
  <2>1. CASE Mode = 0
    BY <2>1, RotatedWithin DEF Data, Filled, Full
  <2>2. CASE Mode = 1
    BY <1>1, <2>2 DEF Data
  <2>3. CASE Mode \in {2, 3}
    BY <2>3 DEF Data, Filled, Full
  <2> QED BY <2>1, <2>2, <2>3, ModeIs
<1>3. Combined(Data(p, v), vram.latch[p]) \in SUBSET Bits
  BY <1>1, <1>2, CombinedWithin
<1> QED BY <1>1, <1>3 DEF Stored

LEMMA WriteTyped ==
    ASSUME vram \in VramSet, NEW a \in Addresses, NEW v
    PROVE  MemWritten(a, v) \in VramSet
<1>1. PICK x \in Addresses : x = PlaneAddress(kept.write, a)
  BY PlaceInWindow
<1>2. PICK byte : byte = [p \in Planes |-> IF p \in WritePlanes(a) THEN Stored(p, v) ELSE vram.bytes[x][p]]
  OBVIOUS
<1>3. byte \in [Planes -> SUBSET Bits]
  BY <1>1, <1>2, StoredWithin DEF VramSet
<1>4. MemWritten(a, v) = [vram EXCEPT !.bytes[x] = byte]
  BY <1>1, <1>2 DEF MemWritten, VramSet
<1> QED BY <1>3, <1>4 DEF VramSet

\* A pixel that is drawn is shown where it was meant, and no other one changes.
LEMMA DrawKeeps ==
    ASSUME MemoryInv, "pixels" \in title.does, NEW a \in Addresses, NEW v, MemWrite(a, v), Full # {}
    PROVE  canvas' \in CanvasSet /\ PixelsHold'
<1>1. /\ vram \in VramSet /\ canvas \in CanvasSet /\ PixelsHold /\ "bytes" \notin title.does
  BY DEF MemoryInv, TitleDraws
<1>2. Draws(a, v)
  BY <1>1 DEF MemWrite, Stores, Linear
<1>3. Pixels /\ kept.write = "normal" /\ regs.seq[2] = Planes
  BY <1>2 DEF Draws, Pixels, Opened
<1>4. PICK cell : cell = Drawn(a, v)
  OBVIOUS
<1>5. cell \in SUBSET Planes /\ \A p \in Planes : Stored(p, v) = Filled(p, cell)
  BY <1>1, <1>2, <1>4, PixelStored
<1>6. PICK read : read = IF Mode = 1 THEN canvas.read ELSE canvas.read \ {a}
  OBVIOUS
<1>7. canvas' = [canvas EXCEPT !.cell[a] = cell, !.read = read, !.mode = "normal"]
  BY <1>3, <1>4, <1>6 DEF MemWrite
<1>8. /\ canvas'.cell = [canvas.cell EXCEPT ![a] = cell] /\ canvas'.read = read /\ canvas'.copy = canvas.copy
      /\ canvas' \in CanvasSet
  BY <1>1, <1>5, <1>6, <1>7 DEF CanvasSet, PixelSet, Accesses
<1>9. PICK byte : byte = [p \in Planes |-> Stored(p, v)]
  OBVIOUS
<1>10. vram'.bytes = [vram.bytes EXCEPT ![a] = byte] /\ vram'.latch = vram.latch
  <2>1. PlaneAddress(kept.write, a) = a /\ WritePlanes(a) = Planes
    BY <1>3 DEF PlaneAddress, WritePlanes
  <2>2. \A x : [p \in Planes |-> IF p \in WritePlanes(a) THEN Stored(p, v) ELSE x[p]] = byte
    BY <1>9, <2>1
  <2>3. vram' = MemWritten(a, v)
    BY DEF MemWrite
  <2>4. vram' = [vram EXCEPT !.bytes[a] = byte]
    BY <1>1, <2>1, <2>2, <2>3 DEF MemWritten, VramSet
  <2> QED BY <1>1, <2>4 DEF VramSet
<1>11. \A b \in Addresses : Shows(canvas'.cell[b], vram'.bytes[b])
  <2> SUFFICES ASSUME NEW b \in Addresses PROVE Shows(canvas'.cell[b], vram'.bytes[b])
    OBVIOUS
  <2>1. CASE b = a
    <3>1. canvas'.cell[b] = cell /\ vram'.bytes[b] = byte
      BY <1>1, <1>8, <1>10, <2>1 DEF CanvasSet, VramSet
    <3> QED BY <1>5, <1>9, <3>1 DEF Shows
  <2>2. CASE b # a
    <3>1. canvas'.cell[b] = canvas.cell[b] /\ vram'.bytes[b] = vram.bytes[b]
      BY <1>1, <1>8, <1>10, <2>2 DEF CanvasSet, VramSet
    <3> QED BY <1>1, <3>1 DEF PixelsHold
  <2> QED BY <2>1, <2>2
<1>12. Shows(canvas'.copy, vram'.latch)
  BY <1>1, <1>8, <1>10 DEF PixelsHold
<1>13. \A b \in canvas'.read : canvas'.read = {b} /\ vram'.latch = vram'.bytes[b] /\ canvas'.copy = canvas'.cell[b]
  <2> SUFFICES ASSUME NEW b \in canvas'.read
               PROVE  canvas'.read = {b} /\ vram'.latch = vram'.bytes[b] /\ canvas'.copy = canvas'.cell[b]
    OBVIOUS
  <2>1. b \in canvas.read /\ b \in Addresses
    BY <1>1, <1>6, <1>8 DEF CanvasSet
  <2>2. canvas.read = {b} /\ vram.latch = vram.bytes[b] /\ canvas.copy = canvas.cell[b]
    BY <1>1, <2>1 DEF PixelsHold
  <2>3. canvas'.read = {b}
    BY <1>6, <1>8, <2>2
  <2>4. CASE b # a
    BY <1>1, <1>8, <1>10, <2>1, <2>2, <2>3, <2>4 DEF CanvasSet, VramSet
  <2>5. CASE b = a
    <3>1. Mode = 1
      BY <1>6, <1>8, <2>5
    <3>2. cell = canvas.copy /\ byte = vram.latch
      <4>1. \A p \in Planes : Stored(p, v) = vram.latch[p]
        BY <3>1 DEF Stored
      <4> QED BY <1>1, <1>4, <1>9, <3>1, <4>1 DEF Drawn, VramSet
    <3>3. canvas'.cell[b] = cell /\ vram'.bytes[b] = byte
      BY <1>1, <1>8, <1>10, <2>5 DEF CanvasSet, VramSet
    <3> QED BY <1>8, <1>10, <2>3, <3>2, <3>3
  <2> QED BY <2>4, <2>5
<1> QED BY <1>8, <1>11, <1>12, <1>13 DEF PixelsHold

LEMMA ReadKeeps ==
    ASSUME MemoryInv, NEW a \in Addresses, MemRead(a)
    PROVE  canvas' \in CanvasSet /\ vram' \in VramSet /\ ("pixels" \in title.does => PixelsHold')
<1>1. vram \in VramSet /\ canvas \in CanvasSet /\ ("pixels" \in title.does => PixelsHold)
  BY DEF MemoryInv
<1>2. /\ vram'.bytes = vram.bytes /\ vram'.latch = vram.bytes[a] /\ vram' \in VramSet
  BY <1>1 DEF MemRead, VramSet
<1>3. /\ canvas'.cell = canvas.cell /\ canvas'.copy = canvas.cell[a] /\ canvas'.read = {a} /\ canvas' \in CanvasSet
  BY <1>1 DEF MemRead, CanvasSet
<1> QED BY <1>1, <1>2, <1>3 DEF PixelsHold

\* A byte that is stored is where the mode has it, and no other one changes.
LEMMA StoreKeeps ==
    ASSUME VgaInv, MemoryInv, "pixels" \notin title.does, NEW a \in Addresses, NEW v, MemWrite(a, v)
    PROVE  canvas' \in CanvasSet /\ ("bytes" \in title.does /\ "latches" \notin title.does => BytesHold')
<1>1. vram \in VramSet /\ canvas \in CanvasSet
  BY DEF MemoryInv
<1>2. ~Pixels
  BY DEF Pixels
<1>3. Stores(v)
  BY <1>2 DEF MemWrite, Draws
<1>4. Linear /\ v \in SUBSET Bits /\ "bytes" \in title.does /\ regs.seq[2] = Planes /\ canvas.mode \in {"none", kept.write}
  BY <1>3 DEF Stores, Linear, Opened
<1>5. kept.write \in Accesses
  <2>1. kept.write = WriteAccess(regs)
    BY <1>4 DEF VgaInv, KeptFollows, AccessFollows, Linear
  <2> QED BY <2>1 DEF WriteAccess, Accesses
<1>6. PICK read : read = IF Mode = 1 THEN canvas.read ELSE canvas.read \ {a}
  OBVIOUS
<1>7. PICK byte : byte = IF Mode = 1 THEN canvas.copy ELSE v
  OBVIOUS
<1>8. canvas' = [canvas EXCEPT !.cell[a] = byte, !.read = read, !.mode = kept.write]
  BY <1>2, <1>6, <1>7 DEF MemWrite
<1>9. byte \in PixelSet
  BY <1>1, <1>4, <1>7 DEF CanvasSet, PixelSet
<1>10. canvas'.cell = [canvas.cell EXCEPT ![a] = byte] /\ canvas'.mode = kept.write /\ canvas' \in CanvasSet
  BY <1>1, <1>5, <1>6, <1>8, <1>9 DEF CanvasSet
<1>11. ASSUME "latches" \notin title.does PROVE BytesHold'
  <2>1. Mode = 0 /\ byte = v /\ regs.gfx[1] = {} /\ regs.gfx[3] = {} /\ Bits \subseteq regs.gfx[8]
    BY <1>3, <1>7, <1>11 DEF Stores
  <2>2. \A p \in Planes : Stored(p, v) = v
    <3> SUFFICES ASSUME NEW p \in Planes PROVE Stored(p, v) = v
      OBVIOUS
    <3>1. Data(p, v) = v
      <4>1. Rotated(v) = v
        BY <1>4, <2>1, RotatedByNone
      <4> QED BY <2>1, <4>1 DEF Data
    <3>2. Combined(Data(p, v), vram.latch[p]) = v
      BY <2>1, <3>1 DEF Combined, Operation
    <3>3. Mask(v) = Bits
      BY <2>1 DEF Mask, Full
    <3>4. vram.latch[p] \in SUBSET Bits
      BY <1>1 DEF VramSet
    <3> QED BY <1>4, <2>1, <3>2, <3>3, <3>4 DEF Stored
  <2>3. PICK m \in Accesses : m = kept.write
    BY <1>5
  <2>4. WritePlanes(a) = PlanesOf(m, a)
    <3>1. PlanesOf(m, a) \subseteq Planes
      BY PlanesThere
    <3> QED BY <1>4, <2>3, <3>1 DEF WritePlanes, PlanesOf
  <2>5. PICK planes : planes = PlanesOf(m, a)
    OBVIOUS
  <2>6. PICK stored : stored = [p \in Planes |-> IF p \in planes THEN v ELSE vram.bytes[PlaneAddress(m, a)][p]]
    OBVIOUS
  <2>7. vram'.bytes = [vram.bytes EXCEPT ![PlaneAddress(m, a)] = stored]
    <3>1. PICK x \in Addresses : x = PlaneAddress(m, a)
      BY PlaceInWindow
    <3>2. stored = [p \in Planes |-> IF p \in WritePlanes(a) THEN Stored(p, v) ELSE vram.bytes[x][p]]
      BY <2>2, <2>4, <2>5, <2>6, <3>1
    <3>3. MemWritten(a, v) = [vram EXCEPT !.bytes[x] = stored]
      BY <1>1, <2>3, <3>1, <3>2 DEF MemWritten, VramSet
    <3>4. vram' = MemWritten(a, v)
      BY DEF MemWrite
    <3> QED BY <1>1, <3>1, <3>3, <3>4 DEF VramSet
  <2>8. BytesAt(m, vram.bytes, canvas.cell)
    <3>1. BytesHold
      BY <1>4, <1>11 DEF MemoryInv
    <3> QED BY <1>4, <2>3, <3>1, BlankAt DEF BytesHold
  <2>9. vram.bytes \in [Addresses -> [Planes -> SUBSET Bits]] /\ canvas.cell \in [Addresses -> PixelSet]
    BY <1>1 DEF VramSet, CanvasSet
  <2>10. vram'.bytes = PutByte(m, vram.bytes, a, v) /\ canvas'.cell = PutCell(canvas.cell, a, v)
    BY <1>10, <2>1, <2>5, <2>6, <2>7 DEF PutByte, PutCell
  <2>11. BytesAt(m, PutByte(m, vram.bytes, a, v), PutCell(canvas.cell, a, v))
    BY <2>8, <2>9, BytesStored
  <2>12. BytesAt(m, vram'.bytes, canvas'.cell)
    BY <2>10, <2>11
  <2>13. canvas'.mode = m /\ m # "none"
    BY <1>10, <2>3 DEF Accesses
  <2> QED BY <2>12, <2>13 DEF BytesHold
<1> QED BY <1>10, <1>11

\* Only the memory accesses change the memory, and only the title changes the
\* planes that are read.
LEMMA MemoryStutter ==
    ASSUME MemoryInv, UNCHANGED <<vram, canvas, title>>, PlanesSelected'
    PROVE  MemoryInv'
  BY DEF MemoryInv, TitleDraws, PixelsHold, BytesHold

LEMMA PlanesKept == ASSUME VgaInv, MemoryInv, UNCHANGED title, NEW i \in GfxIndices, NEW v, WriteGfx(i, v),
                           i \in DOMAIN title.gfx, v \in SUBSET title.gfx[i]
                    PROVE  PlanesSelected'
<1>1. regs.gfx \in [GfxIndices -> ByteSet] /\ PlanesSelected /\ TitleDraws
  BY DEF VgaInv, VgaRegSet, MemoryInv
<1>2. PICK value : value = v \ GfxReserved[i]
  OBVIOUS
<1>3. regs'.gfx = [regs.gfx EXCEPT ![i] = value]
  BY <1>2 DEF WriteGfx, VgaInv, VgaRegSet
<1>4. CASE i = 4
  <2>1. regs'.gfx[4] \subseteq title.gfx[4]
    BY <1>1, <1>2, <1>3, <1>4
  <2> QED BY <1>1, <1>4, <2>1, VgaAssumption DEF PlanesSelected, TitleDraws
<1>5. CASE i # 4
  <2>1. regs'.gfx[4] = regs.gfx[4]
    BY <1>1, <1>3, <1>5 DEF GfxIndices
  <2> QED BY <1>1, <2>1 DEF PlanesSelected
<1> QED BY <1>4, <1>5

LEMMA MemoryStep == ASSUME VgaInv, MemoryInv, VgaNext PROVE MemoryInv'
<1>1. CASE \E a \in Addresses : MemRead(a)
  <2>1. PICK a \in Addresses : MemRead(a)
    BY <1>1
  <2>2. UNCHANGED <<regs, kept, title>>
    BY <2>1 DEF MemRead
  <2>3. canvas' \in CanvasSet /\ vram' \in VramSet /\ ("pixels" \in title.does => PixelsHold')
    BY <2>1, ReadKeeps
  <2>4. ~("bytes" \in title.does /\ "latches" \notin title.does)
    BY <2>1 DEF MemRead, Pixels, MemoryInv, TitleDraws
  <2> QED BY <2>2, <2>3, <2>4 DEF MemoryInv, PlanesSelected, TitleDraws
<1>2. CASE \E a \in Addresses : \E v \in SUBSET (Planes \cup Bits) : MemWrite(a, v)
  <2>1. PICK a \in Addresses, v \in SUBSET (Planes \cup Bits) : MemWrite(a, v)
    BY <1>2
  <2>2. UNCHANGED <<regs, kept, title>> /\ vram' = MemWritten(a, v)
    BY <2>1 DEF MemWrite
  <2>3. vram' \in VramSet
    BY <2>2, WriteTyped DEF MemoryInv
  <2>4. Full # {}
    BY FullIsSome
  <2>5. CASE "pixels" \in title.does
    <3>1. canvas' \in CanvasSet /\ PixelsHold'
      BY <2>1, <2>4, <2>5, DrawKeeps
    <3> QED BY <2>2, <2>3, <2>5, <3>1 DEF MemoryInv, PlanesSelected, TitleDraws
  <2>6. CASE "pixels" \notin title.does
    <3>1. canvas' \in CanvasSet /\ ("bytes" \in title.does /\ "latches" \notin title.does => BytesHold')
      BY <2>1, <2>6, StoreKeeps
    <3> QED BY <2>2, <2>3, <2>6, <3>1 DEF MemoryInv, PlanesSelected, TitleDraws
  <2> QED BY <2>5, <2>6
<1>3. CASE \E i \in DOMAIN title.gfx : \E v \in SUBSET title.gfx[i] : WriteGfx(i, v)
  <2>1. PICK i \in GfxIndices, v \in ByteSet : i \in DOMAIN title.gfx /\ v \in SUBSET title.gfx[i] /\ WriteGfx(i, v)
    BY <1>3 DEF VgaInv, TitleOK, TableOK, ByteSet
  <2>2. UNCHANGED <<vram, canvas, title>>
    BY <2>1 DEF WriteGfx
  <2> QED BY <2>1, <2>2, PlanesKept, MemoryStutter
<1>4. CASE NewVga
  <2>1. UNCHANGED <<vram, canvas, title>> /\ regs' = FreshRegs
    BY <1>4 DEF NewVga
  <2>2. regs'.gfx[4] = {}
    BY <2>1 DEF FreshRegs, GfxIndices
  <2> QED BY <2>1, <2>2, MemoryStutter DEF PlanesSelected
<1>5. CASE UNCHANGED <<vram, canvas, title>> /\ regs'.gfx = regs.gfx
  BY <1>5, MemoryStutter DEF MemoryInv, PlanesSelected
<1>6. \A i, v : WriteSeq(i, v) => UNCHANGED <<vram, canvas, title>> /\ regs'.gfx = regs.gfx
  BY DEF WriteSeq, VgaInv, VgaRegSet
<1>7. \A i, shows : WriteAttrIndex(i, shows) => UNCHANGED <<vram, canvas, title>> /\ regs'.gfx = regs.gfx
  BY DEF WriteAttrIndex, VgaInv, VgaRegSet
<1>8. \A v : WriteAttrData(v) => UNCHANGED <<vram, canvas, title>> /\ regs'.gfx = regs.gfx
  BY DEF WriteAttrData, VgaInv, VgaRegSet
<1>9. \A p, i, v : WriteCrt(p, i, v) => UNCHANGED <<vram, canvas, title>> /\ regs'.gfx = regs.gfx
  BY DEF WriteCrt, VgaInv, VgaRegSet
<1>10. \A v : WriteMisc(v) \/ ReadStatus(v) => UNCHANGED <<vram, canvas, title>> /\ regs'.gfx = regs.gfx
  BY DEF WriteMisc, ReadStatus, VgaInv, VgaRegSet
<1>11. \A e : DacReadAddress(e) \/ DacWriteAddress(e) \/ DacWrite(e) \/ DacRead
               => UNCHANGED <<vram, canvas, title>> /\ regs'.gfx = regs.gfx
  BY DEF DacReadAddress, DacWriteAddress, DacWrite, DacRead
<1> QED BY <1>1, <1>2, <1>3, <1>4, <1>5, <1>6, <1>7, <1>8, <1>9, <1>10, <1>11 DEF VgaNext

LEMMA MemoryStart == ASSUME VgaInit, title \in Titles \/ title = NoTitle PROVE MemoryInv
<1>1. vram = FreshVram /\ regs = FreshRegs
  BY DEF VgaInit
<1>2. /\ canvas.cell = [a \in Addresses |-> {}] /\ canvas.copy = {} /\ canvas.read = {} /\ canvas.mode = "none"
      /\ canvas \in CanvasSet
  BY DEF VgaInit, CanvasSet, PixelSet
<1>3. /\ vram.bytes = [a \in Addresses |-> [p \in Planes |-> {}]] /\ vram.latch = [p \in Planes |-> {}] /\ vram \in VramSet
  BY <1>1 DEF FreshVram, VramSet
<1>4. PlanesSelected
  BY <1>1 DEF FreshRegs, GfxIndices, PlanesSelected
<1>5. TitleDraws
  <2>1. CASE title \in Titles
    BY <2>1, VgaAssumption DEF TitleDraws
  <2>2. CASE title = NoTitle
    BY <2>2 DEF NoTitle, Title, None, TitleDraws
  <2> QED BY <2>1, <2>2
<1>6. PixelsHold
  BY <1>2, <1>3 DEF PixelsHold, Shows, Filled
<1>7. BytesHold
  BY <1>2, <1>3 DEF BytesHold, BlankMemory
<1> QED BY <1>2, <1>3, <1>4, <1>5, <1>6, <1>7 DEF MemoryInv

\* However a title writes the registers and the memory, the planes hold the pixels
\* that it drew and the bytes that it stored.
THEOREM MemoryInvariant == Spec => []MemoryInv
<1>1. Init => MemoryInv
  <2> SUFFICES ASSUME Init PROVE MemoryInv
    OBVIOUS
  <2>1. VgaInit /\ (title \in Titles \/ title = NoTitle)
    BY DEF Init
  <2> QED BY <2>1, MemoryStart
<1>2. VgaInv /\ MemoryInv /\ [Next]_<<part, tvars, svars, vvars, wvars, xvars>> => MemoryInv'
  <2> SUFFICES ASSUME VgaInv, MemoryInv, [Next]_<<part, tvars, svars, vvars, wvars, xvars>> PROVE MemoryInv'
    OBVIOUS
  <2>1. VgaNext \/ UNCHANGED vvars
    BY DEF Next
  <2>2. CASE UNCHANGED vvars
    <3>1. UNCHANGED <<vram, canvas, title>> /\ regs' = regs
      BY <2>2 DEF vvars
    <3> QED BY <3>1, MemoryStutter DEF MemoryInv, PlanesSelected
  <2> QED BY <2>1, <2>2, MemoryStep
<1> QED BY <1>1, <1>2, VgaInvariant, PTL DEF Spec

\* A read of a byte gets what was stored there, and the planes show what was drawn.
LEMMA MemoryMeans == ASSUME VgaInv, MemoryInv PROVE MemoryAsMeant
<1>1. ASSUME Pixels, NEW a \in Addresses PROVE canvas.cell[a] = {p \in Planes : vram.bytes[a][p] = Full}
  <2>1. Shows(canvas.cell[a], vram.bytes[a])
    BY <1>1 DEF Pixels, MemoryInv, PixelsHold
  <2>2. Full # {}
    BY FullIsSome
  <2>3. PICK cell : cell = canvas.cell[a]
    OBVIOUS
  <2>4. PICK byte : byte = vram.bytes[a]
    OBVIOUS
  <2>5. cell \in SUBSET Planes /\ \A p \in Planes : byte[p] = IF p \in cell THEN Full ELSE {}
    BY <2>1, <2>3, <2>4 DEF Shows, Filled
  <2>6. cell = {p \in Planes : byte[p] = Full}
    BY <2>2, <2>5
  <2> QED BY <2>3, <2>4, <2>6
<1>2. ASSUME Linear, canvas.mode = kept.write, "latches" \notin title.does, NEW a \in Addresses
      PROVE  ByteRead(a) = canvas.cell[a]
  <2>1. kept.write = kept.read /\ kept.write = WriteAccess(regs)
    BY <1>2 DEF Linear, VgaInv, KeptFollows, AccessFollows
  <2>2. kept.read \in Accesses /\ kept.write # "none"
    BY <2>1 DEF WriteAccess, Accesses
  <2>3. BytesAt(kept.read, vram.bytes, canvas.cell)
    BY <1>2, <2>1, <2>2 DEF Linear, MemoryInv, BytesHold
  <2>4. ReadPlane(a) \in PlanesOf(kept.read, a)
    BY <2>2, PlaneRead DEF MemoryInv, PlanesSelected
  <2> QED BY <2>3, <2>4 DEF BytesAt, ByteRead
<1> QED BY <1>1, <1>2 DEF MemoryAsMeant

\* The planes of the memory hold the pixels that were drawn and the bytes that were
\* stored (video/vga.cpp, memWrite8 and memRead8).
THEOREM MemoryHolds == Spec => []MemoryAsMeant
<1>1. VgaInv /\ MemoryInv => MemoryAsMeant
  BY MemoryMeans
<1> QED BY <1>1, VgaInvariant, MemoryInvariant, PTL

-----------------------------------------------------------------------------
(***************************************************************************)
(* The windows                                                             *)
(***************************************************************************)

ConfigSet == [ConfigBytes -> Nat]
RamSet == [0 .. RamSize - 1 -> Nat]
PortSet == [0 .. 3 -> Nat]

\* the address that is in the register, and the double word the title means
PortOK(p, target, way) ==
    /\ p \in PortSet /\ target \in 0 .. Dwords
    /\ \E e \in 0 .. Dwords - 1 : p[0] = 4 * e
    /\ "halves" \in way => p[1] = 0
    /\ IF target # Dwords THEN p[0] = 4 * target /\ p[1] = 0 /\ p[2] = 1 /\ p[3] >= 128
       ELSE "halves" \notin way => ~(p[3] >= 128 /\ p[1] = 0 /\ p[2] = 1)

WindowsTyped ==
    /\ space \in [config : ConfigSet, ram : RamSet] /\ ideal \in [config : ConfigSet, ramin : RamSet, order : BOOLEAN]
    /\ order \in BOOLEAN
MirrorOK(ram, ramin) ==
    \A unit \in 0 .. Units - 1, i \in 0 .. UnitSize - 1 : ram[unit * UnitSize + i] = ramin[(Units - 1 - unit) * UnitSize + i]

\* The inductive invariant of the windows.
WindowsInv ==
    /\ WindowsTyped /\ PortOK(port, aim, through) /\ ~({"ports", "halves"} \subseteq through)
    /\ order = ideal.order /\ space.config = ideal.config /\ MirrorOK(space.ram, ideal.ramin)

\* A byte of the configuration space is one of its double word.
LEMMA QuadIs ==
    ASSUME NEW c \in Nat, NEW e \in Nat, NEW m \in 0 .. 3
    PROVE  (c \div 4 = e /\ c % 4 = m) <=> c = 4 * e + m
  OBVIOUS

LEMMA CleanIs ==
    ASSUME NEW e \in Nat, NEW reserved \in {0, 2}
    PROVE  Clean(0, 4 * e + reserved) = 4 * e /\ Clean(3, 128 + reserved) = 128
<1>1. (4 * e + reserved) % 4 = reserved
  OBVIOUS
<1>2. (128 + reserved) % 128 = reserved
  OBVIOUS
<1>3. Clean(0, 4 * e + reserved) = (4 * e + reserved) - reserved /\ Clean(3, 128 + reserved) = (128 + reserved) - reserved
  BY <1>1, <1>2 DEF Clean
<1> QED BY <1>3

\* A block of the instance memory has places of its own.
LEMMA BlocksApart ==
    ASSUME NEW x \in Nat, NEW y \in Nat, NEW p \in 0 .. UnitSize - 1, NEW q \in 0 .. UnitSize - 1,
           x * UnitSize + p = y * UnitSize + q
    PROVE  x = y /\ p = q
<1>1. UnitSize \in Nat \ {0} /\ p \in Nat /\ q \in Nat /\ p < UnitSize /\ q < UnitSize
  BY WindowsAssumption
<1>2. ASSUME NEW k \in Nat, NEW l \in Nat, NEW s \in Nat, NEW t \in Nat, s < UnitSize, k < l PROVE k * UnitSize + s # l * UnitSize + t
  <2>1. PICK z \in Nat : l = k + 1 + z
    BY <1>2
  <2>2. l * UnitSize = k * UnitSize + UnitSize + z * UnitSize
    BY <1>1, <2>1
  <2>3. z * UnitSize >= 0 /\ z * UnitSize \in Nat /\ k * UnitSize \in Nat /\ l * UnitSize \in Nat
    BY <1>1, <2>1
  <2> QED BY <1>1, <1>2, <2>2, <2>3
<1>3. x = y
  BY <1>1, <1>2
<1>4. x * UnitSize \in Nat
  BY <1>1
<1> QED BY <1>1, <1>3, <1>4

\* Where a place of the memory is.
LEMMA PlaceIs ==
    ASSUME NEW unit \in 0 .. Units - 1, NEW i \in 0 .. UnitSize - 1
    PROVE  unit * UnitSize + i \in 0 .. RamSize - 1
<1>1. UnitSize \in Nat \ {0} /\ Units \in Nat \ {0} /\ unit \in Nat /\ i \in Nat /\ i < UnitSize
  BY WindowsAssumption
<1>2. PICK z \in Nat : Units = unit + 1 + z
  BY <1>1
<1>3. RamSize = unit * UnitSize + UnitSize + z * UnitSize
  BY <1>1, <1>2 DEF RamSize
<1>4. unit * UnitSize \in Nat /\ z * UnitSize \in Nat
  BY <1>1
<1> QED BY <1>1, <1>3, <1>4

\* What a byte that is written to the ports does.
StateOf(p, c) == [port |-> p, config |-> c]
Puts(c, x, v) == IF x \in ConfigBytes THEN [c EXCEPT ![x] = v] ELSE c
Selected(p) == p[3] >= 128 /\ p[1] = 0 /\ p[2] = 1

Ported(p, q, v) == [p EXCEPT ![q] = Clean(q, v)]

LEMMA AddressByte ==
    ASSUME NEW p, NEW c, NEW q \in 0 .. 3, NEW v
    PROVE  WriteByte(StateOf(p, c), q, v) = StateOf(Ported(p, q, v), c)
  BY DEF WriteByte, StateOf, Ported

LEMMA DataByte ==
    ASSUME NEW p, NEW c, NEW m \in 0 .. 3, NEW v
    PROVE  WriteByte(StateOf(p, c), 4 + m, v) = StateOf(p, IF Selected(p) THEN Puts(c, p[0] + m, v) ELSE c)
<1>1. Lane(4 + m) = m /\ ~(4 + m < 4)
  BY DEF Lane
<1>2. (<<p[1], p[2]>> = Gpu) <=> (p[1] = 0 /\ p[2] = 1)
  BY DEF Gpu
<1> QED BY <1>1, <1>2 DEF WriteByte, StateOf, Selected, Puts

\* An access to the address, at once and by halves.
LEMMA AddressAtOnce ==
    ASSUME NEW a, NEW b, NEW c, NEW d
    PROVE  WriteBytes(0, <<a, b, c, d>>) = StateOf(Ported(Ported(Ported(Ported(port, 0, a), 1, b), 2, c), 3, d), space.config)
<1>1. PICK s, f : f = space.config /\ s = StateOf(port, f) /\ State = s
  BY DEF State, StateOf
<1>2. WriteBytes(0, <<a, b, c, d>>) = WriteByte(WriteByte(WriteByte(WriteByte(s, 0, a), 1, b), 2, c), 3, d)
  BY <1>1 DEF WriteBytes
<1>3. 0 \in 0 .. 3 /\ 1 \in 0 .. 3 /\ 2 \in 0 .. 3 /\ 3 \in 0 .. 3
  OBVIOUS
<1>4. \A p, v : \A q \in 0 .. 3 : WriteByte(StateOf(p, f), q, v) = StateOf(Ported(p, q, v), f)
  BY AddressByte
<1>5. WriteByte(s, 0, a) = StateOf(Ported(port, 0, a), f)
  BY <1>1, <1>3, <1>4, Zenon
<1>6. PICK x : x = Ported(port, 0, a)
  OBVIOUS
<1>7. WriteByte(StateOf(x, f), 1, b) = StateOf(Ported(x, 1, b), f)
  BY <1>3, <1>4, Zenon
<1>8. PICK z : z = Ported(x, 1, b)
  OBVIOUS
<1>9. WriteByte(StateOf(z, f), 2, c) = StateOf(Ported(z, 2, c), f)
  BY <1>3, <1>4, Zenon
<1>10. WriteByte(StateOf(Ported(z, 2, c), f), 3, d) = StateOf(Ported(Ported(z, 2, c), 3, d), f)
  BY <1>3, <1>4, Zenon
<1> QED BY <1>1, <1>2, <1>5, <1>6, <1>7, <1>8, <1>9, <1>10

LEMMA AddressByHalves ==
    ASSUME NEW a, NEW b
    PROVE  /\ WriteBytes(0, <<a, b>>) = StateOf(Ported(Ported(port, 0, a), 1, b), space.config)
           /\ WriteBytes(2, <<a, b>>) = StateOf(Ported(Ported(port, 2, a), 3, b), space.config)
<1>1. PICK s, f : f = space.config /\ s = StateOf(port, f) /\ State = s
  BY DEF State, StateOf
<1>2. /\ WriteBytes(0, <<a, b>>) = WriteByte(WriteByte(s, 0, a), 1, b)
      /\ WriteBytes(2, <<a, b>>) = WriteByte(WriteByte(s, 2, a), 3, b)
  BY <1>1 DEF WriteBytes
<1>3. 0 \in 0 .. 3 /\ 1 \in 0 .. 3 /\ 2 \in 0 .. 3 /\ 3 \in 0 .. 3
  OBVIOUS
<1>4. \A p, v : \A q \in 0 .. 3 : WriteByte(StateOf(p, f), q, v) = StateOf(Ported(p, q, v), f)
  BY AddressByte
<1>5. WriteByte(s, 0, a) = StateOf(Ported(port, 0, a), f) /\ WriteByte(s, 2, a) = StateOf(Ported(port, 2, a), f)
  BY <1>1, <1>3, <1>4, Zenon
<1>6. PICK x, y : x = Ported(port, 0, a) /\ y = Ported(port, 2, a)
  OBVIOUS
<1>7. WriteByte(StateOf(x, f), 1, b) = StateOf(Ported(x, 1, b), f) /\ WriteByte(StateOf(y, f), 3, b) = StateOf(Ported(y, 3, b), f)
  BY <1>3, <1>4, Zenon
<1> QED BY <1>1, <1>2, <1>5, <1>6, <1>7

\* The bytes of a part of a double word.
LEMMA PartIs ==
    ASSUME NEW lane \in 0 .. 3, NEW n \in 1 .. 4, lane + n <= 4, NEW e \in Nat, NEW c \in Nat
    PROVE  /\ (c \div 4 = e /\ c % 4 \in lane .. lane + n - 1) <=> c \in 4 * e + lane .. 4 * e + lane + n - 1
           /\ c \div 4 = e => (c % 4) - lane + 1 = c - (4 * e + lane) + 1
<1>1. PICK g \in Nat, m \in 0 .. 3 : c = 4 * g + m /\ c \div 4 = g /\ c % 4 = m
  <2>1. c \div 4 \in Nat /\ c % 4 \in 0 .. 3 /\ c = 4 * (c \div 4) + (c % 4)
    OBVIOUS
  <2> QED BY <2>1
<1> QED BY <1>1

\* One byte put into the configuration space.
LEMMA PutsIs ==
    ASSUME NEW f \in ConfigSet, NEW x \in ConfigBytes, NEW v \in Nat
    PROVE  Puts(f, x, v) \in ConfigSet /\ \A c \in ConfigBytes : Puts(f, x, v)[c] = IF c = x THEN v ELSE f[c]
  BY DEF Puts, ConfigSet

PutAt(g, f, x, v) == g \in ConfigSet /\ \A c \in ConfigBytes : g[c] = IF c = x THEN v ELSE f[c]

LEMMA PutsAt == ASSUME NEW f \in ConfigSet, NEW x \in ConfigBytes, NEW v \in Nat PROVE PutAt(Puts(f, x, v), f, x, v)
  BY PutsIs DEF PutAt

\* An access to the data: all of its bytes go to the double word that is selected.
LEMMA DataWritten ==
    ASSUME NEW lane \in 0 .. 3, NEW bytes \in Seq(Nat), Len(bytes) \in {1, 2, 4}, lane + Len(bytes) <= 4, port \in PortSet,
           NEW e \in 0 .. Dwords - 1, port[0] = 4 * e, space.config \in ConfigSet
    PROVE  WriteBytes(4 + lane, bytes) = StateOf(port,
             IF Selected(port)
             THEN [c \in ConfigBytes |->
                     IF c \div 4 = e /\ c % 4 \in lane .. lane + Len(bytes) - 1 THEN bytes[(c % 4) - lane + 1] ELSE space.config[c]]
             ELSE space.config)
<1>1. PICK s, f : s = StateOf(port, space.config) /\ State = s /\ f = space.config
  BY DEF State, StateOf
<1>2. Dwords \in Nat /\ e \in Nat
  BY WindowsAssumption
<1>3. \A m \in 0 .. 3 : port[0] + m \in ConfigBytes /\ port[0] + m = 4 * e + m
  BY <1>2 DEF ConfigBytes
<1>4. CASE ~Selected(port)
  <2>1. \A m \in 0 .. 3 : \A v : WriteByte(s, 4 + m, v) = s
    BY <1>1, <1>4, DataByte
  <2>2. CASE Len(bytes) = 1
    BY <1>1, <1>4, <2>1, <2>2 DEF WriteBytes
  <2>3. CASE Len(bytes) = 2
    <3>1. (4 + lane) + 1 = 4 + (lane + 1) /\ lane + 1 \in 0 .. 3
      BY <2>3
    <3> QED BY <1>1, <1>4, <2>1, <2>3, <3>1 DEF WriteBytes
  <2>4. CASE Len(bytes) = 4
    <3>1. (4 + lane) + 1 = 4 + (lane + 1) /\ lane + 1 \in 0 .. 3 /\ (4 + lane) + 2 = 4 + (lane + 2) /\ lane + 2 \in 0 .. 3
          /\ (4 + lane) + 3 = 4 + (lane + 3) /\ lane + 3 \in 0 .. 3
      BY <2>4
    <3> QED BY <1>1, <1>4, <2>1, <2>4, <3>1 DEF WriteBytes
  <2> QED BY <2>2, <2>3, <2>4
<1>5. CASE Selected(port)
  <2>1. \A c, v : \A m \in 0 .. 3 : WriteByte(StateOf(port, c), 4 + m, v) = StateOf(port, Puts(c, port[0] + m, v))
    BY <1>5, DataByte
  <2>2. PICK w : w = [c \in ConfigBytes |->
                        IF c \div 4 = e /\ c % 4 \in lane .. lane + Len(bytes) - 1 THEN bytes[(c % 4) - lane + 1] ELSE f[c]]
    OBVIOUS
  <2>3. WriteBytes(4 + lane, bytes) = StateOf(port, w)
    <3>0. PICK x \in Nat : x = 4 * e + lane /\ x = port[0] + lane
      BY <1>2, <1>3
    <3>1. \A c \in ConfigBytes : w[c] = IF c \in x .. x + Len(bytes) - 1 THEN bytes[c - x + 1] ELSE f[c]
      <4> SUFFICES ASSUME NEW c \in ConfigBytes PROVE w[c] = IF c \in x .. x + Len(bytes) - 1 THEN bytes[c - x + 1] ELSE f[c]
        OBVIOUS
      <4>1. c \in Nat /\ Len(bytes) \in 1 .. 4
        BY DEF ConfigBytes
      <4>2. /\ (c \div 4 = e /\ c % 4 \in lane .. lane + Len(bytes) - 1) <=> c \in x .. x + Len(bytes) - 1
            /\ c \div 4 = e => (c % 4) - lane + 1 = c - x + 1
        BY <1>2, <3>0, <4>1, PartIs
      <4> QED BY <2>2, <4>2
    <3>2. f \in ConfigSet /\ DOMAIN w = ConfigBytes /\ w = [c \in ConfigBytes |-> w[c]]
      BY <1>1, <2>2
    <3>3. \A g \in ConfigSet : (\A c \in ConfigBytes : g[c] = w[c]) => g = w
      BY <3>2 DEF ConfigSet
    <3>4. bytes[1] \in Nat
      OBVIOUS
    <3>9. \A g \in ConfigSet, y \in ConfigBytes, v \in Nat :
            Puts(g, y, v) \in ConfigSet /\ \A c \in ConfigBytes : Puts(g, y, v)[c] = IF c = y THEN v ELSE g[c]
      BY PutsIs
    <3>5. PICK g1 \in ConfigSet : /\ WriteByte(s, 4 + lane, bytes[1]) = StateOf(port, g1)
                                   /\ \A c \in ConfigBytes : g1[c] = IF c = x THEN bytes[1] ELSE f[c]
      <4>1. x \in ConfigBytes
        BY <1>3, <3>0
      <4>2. WriteByte(s, 4 + lane, bytes[1]) = StateOf(port, Puts(f, x, bytes[1]))
        BY <1>1, <2>1, <3>0
      <4>3. /\ Puts(f, x, bytes[1]) \in ConfigSet
            /\ \A c \in ConfigBytes : Puts(f, x, bytes[1])[c] = IF c = x THEN bytes[1] ELSE f[c]
        <5>1. PICK v \in Nat : v = bytes[1]
          BY <3>4
        <5>2. PICK g \in ConfigSet : g = f
          BY <3>2
        <5>3. PutAt(Puts(g, x, v), g, x, v)
          BY <4>1, PutsAt
        <5> QED BY <5>1, <5>2, <5>3 DEF PutAt
      <4> QED BY <4>2, <4>3, Zenon
    <3>6. CASE Len(bytes) = 1
      <4>1. WriteBytes(4 + lane, bytes) = StateOf(port, g1)
        BY <1>1, <3>5, <3>6 DEF WriteBytes
      <4>2. \A c \in ConfigBytes : g1[c] = w[c]
        <5>1. \A c \in ConfigBytes : c \in Nat
          BY DEF ConfigBytes
        <5> QED BY <3>1, <3>5, <3>6, <5>1
      <4> QED BY <3>3, <4>1, <4>2
    <3>7. CASE Len(bytes) \in {2, 4}
      <4>1. (4 + lane) + 1 = 4 + (lane + 1) /\ lane + 1 \in 0 .. 3 /\ x + 1 = port[0] + (lane + 1) /\ bytes[2] \in Nat
        BY <1>2, <3>0, <3>7
      <4>2. x + 1 \in ConfigBytes
        BY <1>3, <4>1
      <4>3. PICK g2 \in ConfigSet : /\ WriteByte(StateOf(port, g1), (4 + lane) + 1, bytes[2]) = StateOf(port, g2)
                                     /\ \A c \in ConfigBytes : g2[c] = IF c = x + 1 THEN bytes[2] ELSE g1[c]
        <5>1. WriteByte(StateOf(port, g1), (4 + lane) + 1, bytes[2]) = StateOf(port, Puts(g1, x + 1, bytes[2]))
          BY <2>1, <4>1
        <5>2. /\ Puts(g1, x + 1, bytes[2]) \in ConfigSet
              /\ \A c \in ConfigBytes : Puts(g1, x + 1, bytes[2])[c] = IF c = x + 1 THEN bytes[2] ELSE g1[c]
          <6>1. PICK y \in ConfigBytes : y = x + 1
            BY <3>5, <4>1, <4>2
          <6>2. g1 \in ConfigSet /\ bytes[2] \in Nat
            BY <3>5, <4>1, <4>2
          <6>3. PICK v \in Nat : v = bytes[2]
            BY <6>2
          <6>4. Puts(g1, y, v) \in ConfigSet
            BY <3>9, <6>2
          <6>5. \A c \in ConfigBytes : Puts(g1, y, v)[c] = IF c = y THEN v ELSE g1[c]
            BY <3>9, <6>2
          <6> QED BY <6>1, <6>3, <6>4, <6>5
        <5> QED BY <5>1, <5>2, Zenon
      <4>4. \A c \in ConfigBytes : c \in Nat
        BY DEF ConfigBytes
      <4>5. CASE Len(bytes) = 2
        <5>1. WriteBytes(4 + lane, bytes) = StateOf(port, g2)
          BY <1>1, <3>5, <4>3, <4>5 DEF WriteBytes
        <5>2. \A c \in ConfigBytes : g2[c] = w[c]
          BY <3>1, <3>5, <4>3, <4>4, <4>5
        <5> QED BY <3>3, <5>1, <5>2
      <4>6. CASE Len(bytes) = 4
        <5>1. lane = 0 /\ (4 + lane) + 2 = 4 + 2 /\ (4 + lane) + 3 = 4 + 3 /\ x + 2 = port[0] + 2 /\ x + 3 = port[0] + 3
          BY <1>2, <3>0, <4>6
        <5>0. bytes[3] \in Nat /\ bytes[4] \in Nat
          <6>1. 3 \in 1 .. Len(bytes) /\ 4 \in 1 .. Len(bytes)
            BY <4>6
          <6>2. bytes \in [1 .. Len(bytes) -> Nat]
            BY LenProperties
          <6> QED BY <6>1, <6>2
        <5>2. x + 2 \in ConfigBytes /\ x + 3 \in ConfigBytes
          BY <1>3, <5>1
        <5>3. PICK g3 \in ConfigSet : /\ WriteByte(StateOf(port, g2), (4 + lane) + 2, bytes[3]) = StateOf(port, g3)
                                       /\ \A c \in ConfigBytes : g3[c] = IF c = x + 2 THEN bytes[3] ELSE g2[c]
          <6>1. WriteByte(StateOf(port, g2), (4 + lane) + 2, bytes[3]) = StateOf(port, Puts(g2, x + 2, bytes[3]))
            BY <2>1, <5>1
          <6>2. /\ Puts(g2, x + 2, bytes[3]) \in ConfigSet
                /\ \A c \in ConfigBytes : Puts(g2, x + 2, bytes[3])[c] = IF c = x + 2 THEN bytes[3] ELSE g2[c]
            <7>1. PICK y \in ConfigBytes : y = x + 2
              BY <4>3, <5>0, <5>2
            <7>2. g2 \in ConfigSet /\ bytes[3] \in Nat
              BY <4>3, <5>0, <5>2
            <7>3. PICK v \in Nat : v = bytes[3]
              BY <7>2
            <7>4. Puts(g2, y, v) \in ConfigSet
              BY <3>9, <7>2
            <7>5. \A c \in ConfigBytes : Puts(g2, y, v)[c] = IF c = y THEN v ELSE g2[c]
              BY <3>9, <7>2
            <7> QED BY <7>1, <7>3, <7>4, <7>5
          <6> QED BY <6>1, <6>2, Zenon
        <5>4. PICK g4 \in ConfigSet : /\ WriteByte(StateOf(port, g3), (4 + lane) + 3, bytes[4]) = StateOf(port, g4)
                                       /\ \A c \in ConfigBytes : g4[c] = IF c = x + 3 THEN bytes[4] ELSE g3[c]
          <6>1. WriteByte(StateOf(port, g3), (4 + lane) + 3, bytes[4]) = StateOf(port, Puts(g3, x + 3, bytes[4]))
            BY <2>1, <5>1
          <6>2. /\ Puts(g3, x + 3, bytes[4]) \in ConfigSet
                /\ \A c \in ConfigBytes : Puts(g3, x + 3, bytes[4])[c] = IF c = x + 3 THEN bytes[4] ELSE g3[c]
            <7>1. PICK y \in ConfigBytes : y = x + 3
              BY <5>0, <5>2, <5>3
            <7>2. g3 \in ConfigSet /\ bytes[4] \in Nat
              BY <5>0, <5>2, <5>3
            <7>3. PICK v \in Nat : v = bytes[4]
              BY <7>2
            <7>4. Puts(g3, y, v) \in ConfigSet
              BY <3>9, <7>2
            <7>5. \A c \in ConfigBytes : Puts(g3, y, v)[c] = IF c = y THEN v ELSE g3[c]
              BY <3>9, <7>2
            <7> QED BY <7>1, <7>3, <7>4, <7>5
          <6> QED BY <6>1, <6>2, Zenon
        <5>5. WriteBytes(4 + lane, bytes) = StateOf(port, g4)
          BY <1>1, <3>5, <4>3, <4>6, <5>3, <5>4 DEF WriteBytes
        <5>6. \A c \in ConfigBytes : g4[c] = w[c]
          <6> SUFFICES ASSUME NEW c \in ConfigBytes PROVE g4[c] = w[c]
            OBVIOUS
          <6>1. g4[c] = IF c = x + 3 THEN bytes[4] ELSE IF c = x + 2 THEN bytes[3] ELSE IF c = x + 1 THEN bytes[2]
                        ELSE IF c = x THEN bytes[1] ELSE f[c]
            BY <3>5, <4>3, <5>3, <5>4
          <6>2. w[c] = IF c \in x .. x + 3 THEN bytes[c - x + 1] ELSE f[c]
            BY <3>1, <4>6
          <6>3. c \in Nat
            BY <4>4
          <6>4. /\ c \in x .. x + 3 <=> c = x \/ c = x + 1 \/ c = x + 2 \/ c = x + 3
                /\ c = x => c - x + 1 = 1
                /\ c = x + 1 => c - x + 1 = 2
                /\ c = x + 2 => c - x + 1 = 3
                /\ c = x + 3 => c - x + 1 = 4
                /\ x # x + 1 /\ x # x + 2 /\ x # x + 3 /\ x + 1 # x + 2 /\ x + 1 # x + 3 /\ x + 2 # x + 3
            BY <3>0, <6>3
          <6> QED BY <6>1, <6>2, <6>4
        <5> QED BY <3>3, <5>5, <5>6
      <4> QED BY <3>7, <4>5, <4>6
    <3> QED BY <3>6, <3>7
  <2> QED BY <1>1, <1>5, <2>2, <2>3
<1> QED BY <1>4, <1>5

\* A step that writes the address only.
LEMMA AddressMoves ==
    ASSUME WindowsInv, NEW p, NEW target, PortOK(p, target, through), port' = p, aim' = target,
           space' = [space EXCEPT !.config = space.config], UNCHANGED <<order, ideal, through>>
    PROVE  WindowsInv'
<1>1. space' = space
  BY DEF WindowsInv, WindowsTyped
<1> QED BY <1>1 DEF WindowsInv, WindowsTyped, MirrorOK

LEMMA ChooseKeeps ==
    ASSUME WindowsInv, NEW target \in {Gpu, <<8, 1>>, <<0, 0>>}, NEW dword \in 0 .. Dwords - 1, NEW reserved \in {0, 2},
           Choose(target, dword, reserved)
    PROVE  WindowsInv'
<1>1. port \in PortSet /\ dword \in Nat /\ Dwords \in Nat
  BY WindowsAssumption DEF WindowsInv, PortOK
<1>2. PICK t1 \in Nat, t2 \in Nat : t1 = target[1] /\ t2 = target[2] /\ (t1 = 0 /\ t2 = 1 <=> target = Gpu)
  <2>1. CASE target = Gpu
    BY <2>1 DEF Gpu
  <2>2. CASE target = <<8, 1>>
    BY <2>2 DEF Gpu
  <2>3. CASE target = <<0, 0>>
    BY <2>3 DEF Gpu
  <2> QED BY <2>1, <2>2, <2>3
<1>3. PICK s : s = WriteBytes(0, <<4 * dword + reserved, t1, t2, 128 + reserved>>) /\ port' = s.port
               /\ space' = [space EXCEPT !.config = s.config] /\ UNCHANGED <<order, ideal, through>>
  BY <1>2 DEF Choose, PortWrite
<1>4. PICK p : p = Ported(Ported(Ported(Ported(port, 0, 4 * dword + reserved), 1, t1), 2, t2), 3, 128 + reserved)
  OBVIOUS
<1>5. s = StateOf(p, space.config)
  <2>1. PICK a, d : a = 4 * dword + reserved /\ d = 128 + reserved
    OBVIOUS
  <2>2. WriteBytes(0, <<a, t1, t2, d>>) = StateOf(Ported(Ported(Ported(Ported(port, 0, a), 1, t1), 2, t2), 3, d), space.config)
    BY AddressAtOnce
  <2> QED BY <1>3, <1>4, <2>1, <2>2
<1>6. port' = p /\ space' = [space EXCEPT !.config = space.config]
  BY <1>3, <1>5 DEF StateOf
<1>7. Clean(0, 4 * dword + reserved) = 4 * dword /\ Clean(1, t1) = t1 /\ Clean(2, t2) = t2 /\ Clean(3, 128 + reserved) = 128
  <2>1. Clean(1, t1) = t1 /\ Clean(2, t2) = t2
    BY DEF Clean
  <2> QED BY <1>1, <2>1, CleanIs
<1>8. PICK a \in Nat : a = 4 * dword
  BY <1>1
<1>9. p = [port EXCEPT ![0] = a, ![1] = t1, ![2] = t2, ![3] = 128]
  BY <1>4, <1>7, <1>8 DEF Ported
<1>10. p \in PortSet /\ p[0] = a /\ p[1] = t1 /\ p[2] = t2 /\ p[3] = 128
  BY <1>1, <1>2, <1>8, <1>9 DEF PortSet
<1>11. PICK d : d = (IF target = Gpu THEN dword ELSE Dwords) /\ aim' = d
  BY DEF Choose
<1>12. "halves" \notin through
  BY DEF Choose, WindowsInv
<1>13. PortOK(p, d, through)
  <2>1. d \in 0 .. Dwords /\ (d # Dwords => d = dword /\ target = Gpu) /\ (d = Dwords => target # Gpu)
    BY <1>1, <1>11
  <2> QED BY <1>2, <1>8, <1>10, <1>12, <2>1 DEF PortOK
<1> QED BY <1>3, <1>6, <1>11, <1>13, AddressMoves

LEMMA ChooseHalfKeeps ==
    ASSUME WindowsInv, NEW upper \in BOOLEAN, NEW dword \in 0 .. Dwords - 1, ChooseHalf(upper, dword)
    PROVE  WindowsInv'
<1>1. port \in PortSet /\ dword \in Nat /\ Dwords \in Nat /\ "halves" \in through /\ port[1] = 0
  BY WindowsAssumption DEF WindowsInv, PortOK, ChooseHalf
<1>2. PICK e \in 0 .. Dwords - 1 : port[0] = 4 * e
  BY DEF WindowsInv, PortOK
<1>3. UNCHANGED <<order, ideal, through>>
  BY DEF ChooseHalf, PortWrite
<1>4. CASE upper
  <2>1. PICK s : s = WriteBytes(2, <<1, 128>>) /\ port' = s.port /\ space' = [space EXCEPT !.config = s.config]
                 /\ aim' = port[0] \div 4
    BY <1>4 DEF ChooseHalf, PortWrite, Gpu
  <2>2. PICK p : p = Ported(Ported(port, 2, 1), 3, 128)
    OBVIOUS
  <2>3. s = StateOf(p, space.config)
    BY <2>1, <2>2, AddressByHalves
  <2>4. port' = p /\ space' = [space EXCEPT !.config = space.config]
    BY <2>1, <2>3 DEF StateOf
  <2>5. Clean(2, 1) = 1 /\ Clean(3, 128) = 128
    BY DEF Clean
  <2>6. p = [port EXCEPT ![2] = 1, ![3] = 128]
    BY <2>2, <2>5 DEF Ported
  <2>7. p \in PortSet /\ p[0] = port[0] /\ p[1] = 0 /\ p[2] = 1 /\ p[3] = 128
    BY <1>1, <2>6 DEF PortSet
  <2>8. aim' = e /\ e \in 0 .. Dwords /\ e # Dwords
    BY <1>1, <1>2, <2>1
  <2>9. PortOK(p, e, through)
    BY <1>2, <2>7, <2>8 DEF PortOK
  <2> QED BY <1>3, <2>4, <2>8, <2>9, AddressMoves
<1>5. CASE ~upper
  <2>1. PICK s : s = WriteBytes(0, <<4 * dword, 0>>) /\ port' = s.port /\ space' = [space EXCEPT !.config = s.config]
                 /\ aim' = Dwords
    BY <1>5 DEF ChooseHalf, PortWrite, Gpu
  <2>2. PICK p : p = Ported(Ported(port, 0, 4 * dword), 1, 0)
    OBVIOUS
  <2>3. s = StateOf(p, space.config)
    BY <2>1, <2>2, AddressByHalves
  <2>4. port' = p /\ space' = [space EXCEPT !.config = space.config]
    BY <2>1, <2>3 DEF StateOf
  <2>5. Clean(0, 4 * dword) = 4 * dword /\ Clean(1, 0) = 0
    <3>1. (4 * dword) % 4 = 0
      BY <1>1
    <3> QED BY <1>1, <3>1 DEF Clean
  <2>6. PICK a \in Nat : a = 4 * dword
    BY <1>1
  <2>7. p = [port EXCEPT ![0] = a, ![1] = 0]
    BY <2>2, <2>5, <2>6 DEF Ported
  <2>8. p \in PortSet /\ p[0] = a /\ p[1] = 0
    BY <1>1, <2>7 DEF PortSet
  <2>9. PortOK(p, Dwords, through)
    BY <1>1, <2>6, <2>8 DEF PortOK
  <2> QED BY <1>3, <2>1, <2>4, <2>9, AddressMoves
<1> QED BY <1>4, <1>5

\* A step that writes the configuration space only.
LEMMA ConfigWritten ==
    ASSUME WindowsInv, NEW f \in ConfigSet, space' = [space EXCEPT !.config = f], ideal' = [ideal EXCEPT !.config = f],
           UNCHANGED <<port, order, aim, through>>
    PROVE  WindowsInv'
<1>1. space' \in [config : ConfigSet, ram : RamSet] /\ space'.config = f /\ space'.ram = space.ram
  BY DEF WindowsInv, WindowsTyped
<1>2. ideal' \in [config : ConfigSet, ramin : RamSet, order : BOOLEAN] /\ ideal'.config = f /\ ideal'.ramin = ideal.ramin
      /\ ideal'.order = ideal.order
  BY DEF WindowsInv, WindowsTyped
<1>3. WindowsTyped'
  BY <1>1, <1>2 DEF WindowsInv, WindowsTyped
<1>4. PortOK(port', aim', through') /\ ~({"ports", "halves"} \subseteq through')
  BY DEF WindowsInv
<1>5. MirrorOK(space'.ram, ideal'.ramin)
  BY <1>1, <1>2 DEF WindowsInv
<1>6. order' = ideal'.order
  BY <1>2 DEF WindowsInv
<1> QED BY <1>1, <1>2, <1>3, <1>4, <1>5, <1>6 DEF WindowsInv

LEMMA PortDataKeeps ==
    ASSUME WindowsInv, NEW lane \in 0 .. 3, NEW bytes \in Seq(Nat), Len(bytes) \in {1, 2, 4}, lane + Len(bytes) <= 4,
           PortData(lane, bytes)
    PROVE  WindowsInv'
<1>1. /\ port \in PortSet /\ space.config \in ConfigSet /\ ideal.config = space.config /\ PortOK(port, aim, through)
      /\ space \in [config : ConfigSet, ram : RamSet] /\ ideal \in [config : ConfigSet, ramin : RamSet, order : BOOLEAN]
  BY DEF WindowsInv, WindowsTyped, PortOK
<1>2. PICK e \in 0 .. Dwords - 1 : port[0] = 4 * e
  BY <1>1 DEF PortOK
<1>3. Dwords \in Nat /\ e \in Nat
  BY WindowsAssumption
<1>4. PICK w : w = [c \in ConfigBytes |->
                      IF c \div 4 = e /\ c % 4 \in lane .. lane + Len(bytes) - 1 THEN bytes[(c % 4) - lane + 1] ELSE space.config[c]]
  OBVIOUS
<1>5. w \in ConfigSet
  <2>1. ASSUME NEW c \in ConfigBytes PROVE w[c] \in Nat
    <3>1. c \in Nat
      BY DEF ConfigBytes
    <3>2. CASE c % 4 \in lane .. lane + Len(bytes) - 1
      <4>1. (c % 4) - lane + 1 \in 1 .. Len(bytes)
        BY <3>1, <3>2
      <4>2. bytes[(c % 4) - lane + 1] \in Nat
        BY <4>1, LenProperties
      <4> QED BY <1>1, <1>4, <4>2 DEF ConfigSet
    <3>3. CASE ~(c % 4 \in lane .. lane + Len(bytes) - 1)
      BY <1>1, <1>4, <3>3 DEF ConfigSet
    <3> QED BY <3>2, <3>3
  <2> QED BY <1>4, <2>1 DEF ConfigSet
<1>6. PICK f : f = (IF Selected(port) THEN w ELSE space.config) /\ WriteBytes(4 + lane, bytes) = StateOf(port, f)
  BY <1>1, <1>2, <1>4, DataWritten
<1>7. f \in ConfigSet
  BY <1>1, <1>5, <1>6
<1>8. port' = port /\ space' = [space EXCEPT !.config = f] /\ UNCHANGED <<order, aim, through>>
  BY <1>6 DEF PortData, PortWrite, StateOf
<1>9. ideal' = [ideal EXCEPT !.config = f]
  <2>1. CASE aim = Dwords
    <3>1. "halves" \notin through
      BY <2>1 DEF PortData, WindowsInv
    <3>2. ~Selected(port)
      BY <1>1, <2>1, <3>1 DEF PortOK, Selected
    <3>3. ideal' = ideal
      BY <2>1 DEF PortData
    <3> QED BY <1>1, <1>6, <3>2, <3>3
  <2>2. CASE aim # Dwords
    <3>1. Selected(port) /\ port[0] = 4 * aim /\ aim \in Nat
      BY <1>1, <1>3, <2>2 DEF PortOK, Selected
    <3>2. aim = e
      BY <1>2, <1>3, <3>1
    <3>3. ideal' = [ideal EXCEPT !.config = w]
      BY <1>1, <1>4, <2>2, <3>2 DEF PortData
    <3> QED BY <1>6, <3>1, <3>3
  <2> QED BY <2>1, <2>2
<1> QED BY <1>7, <1>8, <1>9, ConfigWritten

\* Four bytes have a first and a last one.
LEMMA QuadOf ==
    ASSUME NEW bytes \in Quads, NEW k \in 1 .. 4
    PROVE  bytes \in Seq(Nat) /\ Len(bytes) = 4 /\ bytes[k] \in Nat
           /\ Swapped(bytes)[k] = IF order THEN bytes[5 - k] ELSE bytes[k]
<1>1. bytes \in [1 .. 4 -> Nat]
  <2>1. \A v \in Contents : v \in Nat
    BY WindowsAssumption
  <2> QED BY <2>1 DEF Quads
<1>2. bytes \in Seq(Nat)
  <2>1. \A j \in 1 .. 4 : bytes[j] \in Nat
    BY <1>1
  <2>2. [j \in 1 .. 4 |-> bytes[j]] \in Seq(Nat)
    BY <2>1
  <2> QED BY <1>1, <2>2
<1>3. Len(bytes) = 4
  BY <1>1, <1>2
<1>4. 4 + 1 - k = 5 - k
  OBVIOUS
<1> QED BY <1>1, <1>2, <1>3, <1>4 DEF Swapped

LEMMA PbusKeeps ==
    ASSUME WindowsInv, NEW dword \in 0 .. Dwords - 1, NEW bytes \in Quads, PbusWrite(dword, bytes)
    PROVE  WindowsInv'
<1>1. /\ space.config \in ConfigSet /\ ideal.config = space.config /\ order = ideal.order
      /\ space \in [config : ConfigSet, ram : RamSet] /\ ideal \in [config : ConfigSet, ramin : RamSet, order : BOOLEAN]
  BY DEF WindowsInv, WindowsTyped
<1>2. PICK f : f = [c \in ConfigBytes |-> IF c \div 4 = dword THEN Swapped(bytes)[(c % 4) + 1] ELSE space.config[c]]
  OBVIOUS
<1>3. PICK g : g = [c \in ConfigBytes |->
                     IF c \div 4 # dword THEN space.config[c] ELSE IF order THEN bytes[4 - (c % 4)] ELSE bytes[(c % 4) + 1]]
  OBVIOUS
<1>4. space' = [space EXCEPT !.config = f] /\ ideal' = [ideal EXCEPT !.config = g] /\ UNCHANGED <<port, order, aim, through>>
  BY <1>1, <1>2, <1>3 DEF PbusWrite
<1>5. ASSUME NEW c \in ConfigBytes PROVE f[c] = g[c] /\ f[c] \in Nat
  <2>1. PICK k \in 1 .. 4 : k = (c % 4) + 1 /\ 5 - k = 4 - (c % 4) /\ 5 - k \in 1 .. 4
    BY DEF ConfigBytes
  <2>2. Swapped(bytes)[k] = (IF order THEN bytes[5 - k] ELSE bytes[k]) /\ bytes[k] \in Nat
    BY QuadOf
  <2>3. PICK l \in 1 .. 4 : l = 5 - k
    BY <2>1
  <2>4. bytes[l] \in Nat
    BY QuadOf
  <2>5. space.config[c] \in Nat
    BY <1>1 DEF ConfigSet
  <2> QED BY <1>2, <1>3, <2>1, <2>2, <2>3, <2>4, <2>5
<1>6. f = g /\ f \in ConfigSet
  BY <1>2, <1>3, <1>5 DEF ConfigSet
<1> QED BY <1>4, <1>6, ConfigWritten

\* A step that writes the instance memory only.
LEMMA RamWritten ==
    ASSUME WindowsInv, NEW f \in RamSet, NEW g \in RamSet, MirrorOK(f, g), space' = [space EXCEPT !.ram = f],
           ideal' = [ideal EXCEPT !.ramin = g], UNCHANGED <<port, order, aim, through>>
    PROVE  WindowsInv'
<1>1. space' \in [config : ConfigSet, ram : RamSet] /\ space'.config = space.config /\ space'.ram = f
  BY DEF WindowsInv, WindowsTyped
<1>2. ideal' \in [config : ConfigSet, ramin : RamSet, order : BOOLEAN] /\ ideal'.config = ideal.config /\ ideal'.ramin = g
      /\ ideal'.order = ideal.order
  BY DEF WindowsInv, WindowsTyped
<1>3. WindowsTyped'
  BY <1>1, <1>2 DEF WindowsInv, WindowsTyped
<1>4. PortOK(port', aim', through') /\ ~({"ports", "halves"} \subseteq through')
  BY DEF WindowsInv
<1>5. MirrorOK(space'.ram, ideal'.ramin)
  BY <1>1, <1>2
<1>6. order' = ideal'.order /\ space'.config = ideal'.config
  BY <1>1, <1>2 DEF WindowsInv
<1> QED BY <1>1, <1>2, <1>3, <1>4, <1>5, <1>6 DEF WindowsInv

LEMMA RamKeeps ==
    ASSUME WindowsInv, NEW unit \in 0 .. Units - 1, NEW i \in 0 .. UnitSize - 1, NEW v \in Contents, RamWrite(unit, i, v)
    PROVE  WindowsInv'
<1>1. /\ space.ram \in RamSet /\ ideal.ramin \in RamSet /\ MirrorOK(space.ram, ideal.ramin) /\ v \in Nat
      /\ Units \in Nat /\ UnitSize \in Nat
  BY WindowsAssumption DEF WindowsInv, WindowsTyped
<1>2. PICK r \in 0 .. RamSize - 1, m \in 0 .. RamSize - 1 : r = unit * UnitSize + i /\ m = (Units - 1 - unit) * UnitSize + i
  <2>1. Units - 1 - unit \in 0 .. Units - 1
    BY <1>1
  <2> QED BY <2>1, PlaceIs
<1>3. PICK f \in RamSet, g \in RamSet : f = [space.ram EXCEPT ![r] = v] /\ g = [ideal.ramin EXCEPT ![m] = v]
  BY <1>1 DEF RamSet
<1>4. space' = [space EXCEPT !.ram = f] /\ ideal' = [ideal EXCEPT !.ramin = g] /\ UNCHANGED <<port, order, aim, through>>
  BY <1>2, <1>3 DEF RamWrite
<1>5. MirrorOK(f, g)
  <2> SUFFICES ASSUME NEW x \in 0 .. Units - 1, NEW j \in 0 .. UnitSize - 1
               PROVE  f[x * UnitSize + j] = g[(Units - 1 - x) * UnitSize + j]
    BY DEF MirrorOK
  <2>1. PICK y \in 0 .. Units - 1 : y = Units - 1 - x
    BY <1>1
  <2>2. PICK s \in 0 .. RamSize - 1, t \in 0 .. RamSize - 1 : s = x * UnitSize + j /\ t = y * UnitSize + j
    BY PlaceIs
  <2>3. space.ram[s] = ideal.ramin[t]
    BY <1>1, <2>1, <2>2 DEF MirrorOK
  <2>4. s = r <=> x = unit /\ j = i
    <3>1. x \in Nat /\ unit \in Nat
      BY <1>1
    <3>2. x * UnitSize + j = unit * UnitSize + i => x = unit /\ j = i
      BY <3>1, BlocksApart
    <3> QED BY <1>2, <2>2, <3>2
  <2>5. PICK z \in 0 .. Units - 1 : z = Units - 1 - unit
    BY <1>1
  <2>6. t = m <=> y = z /\ j = i
    <3>1. y \in Nat /\ z \in Nat /\ m = z * UnitSize + i
      BY <1>1, <1>2, <2>1, <2>5
    <3>2. y * UnitSize + j = z * UnitSize + i => y = z /\ j = i
      BY <3>1, BlocksApart
    <3> QED BY <2>2, <3>1, <3>2
  <2>7. y = z <=> x = unit
    BY <1>1, <2>1, <2>5
  <2>8. f[s] = g[t]
    BY <1>1, <1>3, <2>3, <2>4, <2>6, <2>7 DEF RamSet
  <2> QED BY <2>1, <2>2, <2>8
<1> QED BY <1>4, <1>5, RamWritten

\* A double word of the instance memory, as a place of a block.
LEMMA QuadPlace ==
    ASSUME NEW x \in Nat, NEW y \in Nat, NEW k \in Nat, 4 * k + 3 <= UnitSize - 1, NEW i \in 0 .. UnitSize - 1
    PROVE  /\ x * UnitSize + i \in y * UnitSize + 4 * k .. y * UnitSize + 4 * k + 3 <=> x = y /\ i \div 4 = k
           /\ x = y /\ i \div 4 = k => (x * UnitSize + i) - (y * UnitSize + 4 * k) + 1 = (i % 4) + 1
           /\ (x * UnitSize + i) \div 4 = (y * UnitSize + 4 * k) \div 4 <=> x = y /\ i \div 4 = k
           /\ (x * UnitSize + i) % 4 = i % 4
<1>1. UnitSize \in Nat /\ UnitSize % 4 = 0
  BY WindowsAssumption
<1>2. PICK q \in Nat : UnitSize = 4 * q
  <2>1. UnitSize = 4 * (UnitSize \div 4) /\ UnitSize \div 4 \in Nat
    BY <1>1
  <2> QED BY <2>1
<1>3. PICK l \in Nat, n \in 0 .. 3 : i = 4 * l + n /\ i \div 4 = l /\ i % 4 = n
  <2>1. i \div 4 \in Nat /\ i % 4 \in 0 .. 3 /\ i = 4 * (i \div 4) + (i % 4)
    BY <1>1
  <2> QED BY <2>1
<1>4. PICK s \in Nat, t \in Nat : s = x * q /\ t = y * q
  BY <1>2
<1>5. x * UnitSize = 4 * s /\ y * UnitSize = 4 * t
  BY <1>2, <1>4
<1>6. (x * UnitSize + i) % 4 = n /\ (x * UnitSize + i) \div 4 = s + l /\ (y * UnitSize + 4 * k) \div 4 = t + k
  BY <1>3, <1>5
<1>7. s + l = t + k => x = y /\ l = k
  <2> SUFFICES ASSUME s + l = t + k PROVE x = y /\ l = k
    OBVIOUS
  <2>1. PICK c \in 0 .. UnitSize - 1, d \in 0 .. UnitSize - 1 : c = 4 * l /\ d = 4 * k
    BY <1>1, <1>3
  <2>2. x * UnitSize + c = y * UnitSize + d
    BY <1>5, <2>1
  <2>3. x = y /\ c = d
    BY <2>2, BlocksApart
  <2> QED BY <2>1, <2>3
<1>8. x = y => s = t
  BY <1>4
<1>9. x * UnitSize + i \in y * UnitSize + 4 * k .. y * UnitSize + 4 * k + 3 <=> s + l = t + k
  BY <1>3, <1>5
<1>10. s + l = t + k <=> x = y /\ l = k
  BY <1>7, <1>8
<1>11. x = y /\ l = k => (x * UnitSize + i) - (y * UnitSize + 4 * k) + 1 = n + 1
  <2>1. PICK c \in Nat, d \in Nat : c = x * UnitSize + i /\ d = y * UnitSize + 4 * k /\ c = 4 * s + 4 * l + n /\ d = 4 * t + 4 * k
    BY <1>3, <1>5
  <2>2. x = y /\ l = k => c - d + 1 = n + 1
    BY <1>3, <1>8, <2>1
  <2> QED BY <2>1, <2>2
<1> QED BY <1>3, <1>6, <1>9, <1>10, <1>11

\* Where the instance memory is in the RAM.
LEMMA RaminIs ==
    ASSUME NEW a \in 0 .. RamSize - 1, a % 4 = 0
    PROVE  \E u \in 0 .. Units - 1, k \in Nat :
             /\ 4 * k + 3 <= UnitSize - 1 /\ a = u * UnitSize + 4 * k
             /\ RaminToRam(a) = (Units - 1 - u) * UnitSize + 4 * k
<1>1. UnitSize \in Nat \ {0} /\ Units \in Nat \ {0} /\ UnitSize % 4 = 0 /\ RamSize \in Nat
  BY WindowsAssumption DEF RamSize
<1>2. PICK q \in Nat : UnitSize = 4 * q
  <2>1. UnitSize = 4 * (UnitSize \div 4) /\ UnitSize \div 4 \in Nat
    BY <1>1
  <2> QED BY <2>1
<1>3. PICK u \in Nat, j \in 0 .. UnitSize - 1 : a = u * UnitSize + j /\ a % UnitSize = j
  <2>1. a \in Nat
    BY <1>1
  <2>2. PICK u \in Nat, j \in 0 .. UnitSize - 1 : u = a \div UnitSize /\ j = a % UnitSize /\ a = UnitSize * u + j
    <3>1. a \div UnitSize \in Nat /\ a % UnitSize \in 0 .. UnitSize - 1 /\ a = UnitSize * (a \div UnitSize) + (a % UnitSize)
      BY <1>1, <2>1
    <3> QED BY <3>1
  <2>3. UnitSize * u = u * UnitSize
    BY <1>1, <2>2
  <2> QED BY <2>2, <2>3
<1>4. u \in 0 .. Units - 1
  <2>1. SUFFICES ASSUME u >= Units PROVE FALSE
    BY <1>1
  <2>2. PICK z \in Nat : u = Units + z
    BY <1>1, <2>1
  <2>3. u * UnitSize = Units * UnitSize + z * UnitSize /\ z * UnitSize \in Nat /\ Units * UnitSize \in Nat
    BY <1>1, <2>2
  <2> QED BY <1>1, <1>3, <2>3 DEF RamSize
<1>5. PICK k \in Nat : j = 4 * k
  <2>1. PICK w \in Nat : w = u * q
    BY <1>2, <1>3
  <2>2. a = 4 * w + j
    BY <1>2, <1>3, <2>1
  <2>3. j % 4 = 0 /\ j \in Nat
    BY <1>1, <2>2
  <2>4. j = 4 * (j \div 4) /\ j \div 4 \in Nat
    BY <2>3
  <2> QED BY <2>4
<1>6. 4 * k + 3 <= UnitSize - 1
  BY <1>1, <1>2, <1>5
<1>7. RaminToRam(a) = (Units - 1 - u) * UnitSize + 4 * k
  <2>1. PICK z \in Nat : z = Units - 1 - u /\ Units = u + 1 + z
    BY <1>1, <1>4
  <2>2. RamSize = u * UnitSize + UnitSize + z * UnitSize
    BY <1>1, <2>1 DEF RamSize
  <2>4. u * UnitSize \in Nat /\ z * UnitSize \in Nat
    BY <1>1
  <2>3. a - (a % UnitSize) = u * UnitSize
    <3>1. PICK w \in Nat : w = u * UnitSize
      BY <2>4
    <3>2. a = w + j /\ j \in Nat
      BY <1>1, <1>3, <3>1
    <3>3. a - j = w
      BY <3>1, <3>2
    <3> QED BY <1>3, <3>1, <3>3
  <2>5. RaminToRam(a) = (RamSize - (u * UnitSize) - UnitSize) + j
    BY <1>3, <2>3 DEF RaminToRam
  <2>6. RaminToRam(a) = z * UnitSize + j
    BY <1>1, <2>2, <2>4, <2>5
  <2> QED BY <1>5, <2>1, <2>6
<1> QED BY <1>3, <1>4, <1>5, <1>6, <1>7

LEMMA RaminKeeps ==
    ASSUME WindowsInv, NEW a \in 0 .. RamSize - 1, NEW bytes \in Quads, RaminWrite(a, bytes)
    PROVE  WindowsInv'
<1>1. /\ space.ram \in RamSet /\ ideal.ramin \in RamSet /\ MirrorOK(space.ram, ideal.ramin) /\ order = ideal.order
      /\ Units \in Nat /\ UnitSize \in Nat /\ a % 4 = 0
  BY WindowsAssumption DEF WindowsInv, WindowsTyped, RaminWrite
<1>2. PICK u \in 0 .. Units - 1, k \in Nat : /\ 4 * k + 3 <= UnitSize - 1 /\ a = u * UnitSize + 4 * k
                                            /\ RaminToRam(a) = (Units - 1 - u) * UnitSize + 4 * k
  BY <1>1, RaminIs
<1>3. PICK z \in 0 .. Units - 1 : z = Units - 1 - u
  BY <1>1
<1>4. PICK b : b = RaminToRam(a)
  OBVIOUS
<1>5. PICK f : f = [r \in 0 .. RamSize - 1 |-> IF r \in b .. b + 3 THEN Swapped(bytes)[r - b + 1] ELSE space.ram[r]]
  OBVIOUS
<1>6. PICK g : g = [m \in 0 .. RamSize - 1 |->
                     IF m \div 4 # a \div 4 THEN ideal.ramin[m] ELSE IF order THEN bytes[4 - (m % 4)] ELSE bytes[(m % 4) + 1]]
  OBVIOUS
<1>7. space' = [space EXCEPT !.ram = f] /\ ideal' = [ideal EXCEPT !.ramin = g] /\ UNCHANGED <<port, order, aim, through>>
  BY <1>1, <1>4, <1>5, <1>6 DEF RaminWrite
<1>8. b = z * UnitSize + 4 * k /\ z * UnitSize \in Nat /\ b \in Nat
  BY <1>1, <1>2, <1>3, <1>4
<1>9. f \in RamSet
  <2>1. ASSUME NEW r \in 0 .. RamSize - 1 PROVE f[r] \in Nat
    <3>1. CASE r \in b .. b + 3
      <4>1. PICK n \in 1 .. 4 : n = r - b + 1 /\ 5 - n \in 1 .. 4
        BY <1>8, <3>1
      <4>2. PICK l \in 1 .. 4 : l = 5 - n
        BY <4>1
      <4>3. Swapped(bytes)[n] = (IF order THEN bytes[5 - n] ELSE bytes[n]) /\ bytes[n] \in Nat /\ bytes[l] \in Nat
        BY QuadOf
      <4> QED BY <1>5, <3>1, <4>1, <4>2, <4>3
    <3>2. CASE ~(r \in b .. b + 3)
      BY <1>1, <1>5, <3>2 DEF RamSet
    <3> QED BY <3>1, <3>2
  <2> QED BY <1>5, <2>1 DEF RamSet
<1>10. g \in RamSet
  <2>1. ASSUME NEW m \in 0 .. RamSize - 1 PROVE g[m] \in Nat
    <3>1. PICK n \in 1 .. 4, l \in 1 .. 4 : n = (m % 4) + 1 /\ l = 4 - (m % 4)
      OBVIOUS
    <3>2. bytes[n] \in Nat /\ bytes[l] \in Nat /\ ideal.ramin[m] \in Nat
      BY <1>1, QuadOf DEF RamSet
    <3> QED BY <1>6, <3>1, <3>2
  <2> QED BY <1>6, <2>1 DEF RamSet
<1>11. MirrorOK(f, g)
  <2> SUFFICES ASSUME NEW x \in 0 .. Units - 1, NEW i \in 0 .. UnitSize - 1
               PROVE  f[x * UnitSize + i] = g[(Units - 1 - x) * UnitSize + i]
    BY DEF MirrorOK
  <2>1. PICK y \in 0 .. Units - 1 : y = Units - 1 - x
    BY <1>1
  <2>2. PICK r \in 0 .. RamSize - 1, m \in 0 .. RamSize - 1 : r = x * UnitSize + i /\ m = y * UnitSize + i
    BY PlaceIs
  <2>3. space.ram[r] = ideal.ramin[m]
    BY <1>1, <2>1, <2>2 DEF MirrorOK
  <2>4. x \in Nat /\ y \in Nat /\ z \in Nat /\ u \in Nat /\ (x = z <=> y = u)
    BY <1>1, <1>3, <2>1
  <2>5. /\ r \in b .. b + 3 <=> x = z /\ i \div 4 = k
        /\ x = z /\ i \div 4 = k => r - b + 1 = (i % 4) + 1
    BY <1>2, <1>8, <2>2, <2>4, QuadPlace
  <2>6. /\ m \div 4 = a \div 4 <=> y = u /\ i \div 4 = k
        /\ m % 4 = i % 4
    BY <1>2, <2>2, <2>4, QuadPlace
  <2>7. PICK n \in 1 .. 4, l \in 1 .. 4 : n = (i % 4) + 1 /\ l = 4 - (i % 4) /\ l = 5 - n
    BY <1>1
  <2>8. Swapped(bytes)[n] = IF order THEN bytes[l] ELSE bytes[n]
    BY <2>7, QuadOf
  <2>9. f[r] = g[m]
    <3>1. f[r] = IF x = z /\ i \div 4 = k THEN Swapped(bytes)[n] ELSE space.ram[r]
      BY <1>5, <2>5, <2>7
    <3>2. g[m] = IF y = u /\ i \div 4 = k THEN (IF order THEN bytes[l] ELSE bytes[n]) ELSE ideal.ramin[m]
      BY <1>6, <2>6, <2>7
    <3> QED BY <2>3, <2>4, <2>8, <3>1, <3>2
  <2> QED BY <2>1, <2>2, <2>9
<1> QED BY <1>7, <1>9, <1>10, <1>11, RamWritten

LEMMA BootKeeps ==
    ASSUME WindowsInv, NEW bit24 \in BOOLEAN, NEW bit0 \in BOOLEAN, WriteBoot1(bit24, bit0)
    PROVE  WindowsInv'
<1>1. /\ order' = ~bit24 /\ ideal' = [ideal EXCEPT !.order = ~bit24] /\ space' = space
      /\ port' = port /\ aim' = aim /\ through' = through
  BY DEF WriteBoot1
<1>2. /\ ideal' \in [config : ConfigSet, ramin : RamSet, order : BOOLEAN] /\ ideal'.config = ideal.config
      /\ ideal'.ramin = ideal.ramin /\ ideal'.order = ~bit24
  BY <1>1 DEF WindowsInv, WindowsTyped
<1>3. WindowsTyped'
  BY <1>1, <1>2 DEF WindowsInv, WindowsTyped
<1> QED BY <1>1, <1>2, <1>3 DEF WindowsInv

LEMMA WindowsStart == ASSUME WindowsInit, through \in WindowTitles \/ through = {} PROVE WindowsInv
<1>1. Dwords \in Nat \ {0} /\ Units \in Nat \ {0} /\ UnitSize \in Nat \ {0}
  BY WindowsAssumption
<1>2. port \in PortSet /\ port[0] = 0 /\ port[1] = 0 /\ port[3] = 0
  BY DEF WindowsInit, PortSet
<1>3. PICK f \in ConfigSet, g \in RamSet : f = [c \in ConfigBytes |-> 0] /\ g = [r \in 0 .. RamSize - 1 |-> 0]
  BY DEF ConfigSet, RamSet
<1>4. space = [config |-> f, ram |-> g] /\ ideal = [config |-> f, ramin |-> g, order |-> FALSE] /\ order = FALSE /\ aim = Dwords
  BY <1>3 DEF WindowsInit
<1>5. WindowsTyped
  BY <1>4 DEF WindowsTyped
<1>6. MirrorOK(g, g)
  <2> SUFFICES ASSUME NEW x \in 0 .. Units - 1, NEW i \in 0 .. UnitSize - 1
               PROVE  g[x * UnitSize + i] = g[(Units - 1 - x) * UnitSize + i]
    BY DEF MirrorOK
  <2>1. PICK y \in 0 .. Units - 1 : y = Units - 1 - x
    BY <1>1
  <2>2. PICK r \in 0 .. RamSize - 1, m \in 0 .. RamSize - 1 : r = x * UnitSize + i /\ m = y * UnitSize + i
    BY PlaceIs
  <2>3. g[r] = 0 /\ g[m] = 0
    BY <1>3
  <2> QED BY <2>1, <2>2, <2>3
<1>7. \E e \in 0 .. Dwords - 1 : port[0] = 4 * e
  <2>1. 0 \in 0 .. Dwords - 1 /\ port[0] = 4 * 0
    BY <1>1, <1>2
  <2> QED BY <2>1
<1>8. aim \in 0 .. Dwords /\ ~(port[3] >= 128)
  BY <1>1, <1>2, <1>4
<1>9. PortOK(port, aim, through)
  BY <1>2, <1>4, <1>7, <1>8 DEF PortOK
<1>10. ~({"ports", "halves"} \subseteq through)
  BY WindowsAssumption
<1> QED BY <1>4, <1>5, <1>6, <1>9, <1>10 DEF WindowsInv

LEMMA WindowsStutter == ASSUME WindowsInv, UNCHANGED wvars PROVE WindowsInv'
<1>1. port' = port /\ space' = space /\ order' = order /\ aim' = aim /\ ideal' = ideal /\ through' = through
  BY DEF wvars
<1> QED BY <1>1 DEF WindowsInv, WindowsTyped

LEMMA WindowsStep == ASSUME WindowsInv, WindowsNext PROVE WindowsInv'
<1>0. \A v \in Contents : v \in Nat
  BY WindowsAssumption
<1>1. CASE \E target \in {Gpu, <<8, 1>>, <<0, 0>>}, dword \in 0 .. Dwords - 1, reserved \in {0, 2} : Choose(target, dword, reserved)
  BY <1>1, ChooseKeeps
<1>2. CASE \E upper \in BOOLEAN, dword \in 0 .. Dwords - 1 : ChooseHalf(upper, dword)
  BY <1>2, ChooseHalfKeeps
<1>3. CASE \E lane \in 0 .. 3, v \in Contents : PortData(lane, <<v>>)
  <2>1. PICK lane \in 0 .. 3, v \in Nat : PortData(lane, <<v>>)
    BY <1>0, <1>3
  <2>2. <<v>> \in Seq(Nat) /\ Len(<<v>>) = 1
    BY <2>1
  <2>3. PICK b : b = <<v>>
    OBVIOUS
  <2>4. lane \in 0 .. 3 /\ b \in Seq(Nat) /\ Len(b) \in {1, 2, 4} /\ lane + Len(b) <= 4
    BY <2>1, <2>2, <2>3
  <2>5. PortData(lane, b)
    BY <2>1, <2>3
  <2> QED BY <2>4, <2>5, PortDataKeeps
<1>4. CASE \E lane \in {0, 2}, v, w \in Contents : PortData(lane, <<v, w>>)
  <2>1. PICK lane \in {0, 2}, v \in Nat, w \in Nat : PortData(lane, <<v, w>>)
    BY <1>0, <1>4
  <2>2. <<v, w>> \in Seq(Nat) /\ Len(<<v, w>>) = 2
    BY <2>1
  <2>3. PICK b : b = <<v, w>>
    OBVIOUS
  <2>4. lane \in 0 .. 3 /\ b \in Seq(Nat) /\ Len(b) \in {1, 2, 4} /\ lane + Len(b) <= 4
    BY <2>1, <2>2, <2>3
  <2>5. PortData(lane, b)
    BY <2>1, <2>3
  <2> QED BY <2>4, <2>5, PortDataKeeps
<1>5. CASE \E bytes \in Quads : PortData(0, bytes)
  <2>1. PICK bytes \in Quads : PortData(0, bytes)
    BY <1>5
  <2>2. 1 \in 1 .. 4
    OBVIOUS
  <2>3. bytes \in Seq(Nat) /\ Len(bytes) = 4
    BY <2>2, QuadOf
  <2>4. 0 \in 0 .. 3 /\ Len(bytes) \in {1, 2, 4} /\ 0 + Len(bytes) <= 4
    BY <2>3
  <2> QED BY <2>1, <2>3, <2>4, PortDataKeeps
<1>6. CASE \E dword \in 0 .. Dwords - 1, bytes \in Quads : PbusWrite(dword, bytes)
  BY <1>6, PbusKeeps
<1>7. CASE \E a \in 0 .. RamSize - 1, bytes \in Quads : RaminWrite(a, bytes)
  BY <1>7, RaminKeeps
<1>8. CASE \E unit \in 0 .. Units - 1, i \in 0 .. UnitSize - 1, v \in Contents : RamWrite(unit, i, v)
  BY <1>8, RamKeeps
<1>9. CASE \E bit24, bit0 \in BOOLEAN : WriteBoot1(bit24, bit0)
  BY <1>9, BootKeeps
<1> QED BY <1>1, <1>2, <1>3, <1>4, <1>5, <1>6, <1>7, <1>8, <1>9 DEF WindowsNext

\* Whatever a title writes through the ports, PBUS, PRAMIN and the RAM, the address in
\* the ports selects the double word it means, or none, and the space and the memory
\* are what WindowsInv says.
THEOREM WindowsInvariant == Spec => []WindowsInv
<1>1. Init => WindowsInv
  <2> SUFFICES ASSUME Init PROVE WindowsInv
    OBVIOUS
  <2>1. WindowsInit /\ (through \in WindowTitles \/ through = {})
    BY DEF Init
  <2> QED BY <2>1, WindowsStart
<1>2. WindowsInv /\ [Next]_<<part, tvars, svars, vvars, wvars, xvars>> => WindowsInv'
  <2> SUFFICES ASSUME WindowsInv, [Next]_<<part, tvars, svars, vvars, wvars, xvars>> PROVE WindowsInv'
    OBVIOUS
  <2>1. WindowsNext \/ UNCHANGED wvars
    BY DEF Next
  <2> QED BY <2>1, WindowsStep, WindowsStutter
<1> QED BY <1>1, <1>2, PTL DEF Spec

\* Through whichever window, in whichever byte order and in parts of whatever width a
\* title writes the configuration space and the instance memory, they hold what it
\* meant (pci.cpp, gpu/pbus.cpp, gpu/pramin.cpp and gpu/pmc.cpp).
THEOREM WindowsHold == Spec => []WindowsAgree
<1>1. WindowsInv => WindowsAgree
  BY DEF WindowsInv, MirrorOK, WindowsAgree
<1> QED BY <1>1, WindowsInvariant, PTL

\* What a title stored in the EEPROM, the palette, the memory of the VGA and behind
\* the windows of the bus is what it meant to store.
THEOREM StoredHolds == Spec => []StoredAsMeant
<1>1. EepromAsMeant /\ PaletteFollows /\ MemoryAsMeant /\ WindowsAgree => StoredAsMeant
  BY DEF StoredAsMeant
<1> QED BY <1>1, EepromHolds, PaletteKept, MemoryHolds, WindowsHold, PTL

-----------------------------------------------------------------------------
(***************************************************************************)
(* Discs.  A search has gone through the directories that the path names,  *)
(* and the entry it looks for, if any, is below the one it looks at.       *)
(***************************************************************************)

LookupFields == {"path", "rest", "sector", "offset", "outcome", "file"}

\* the directories up to the k-th name of a path
Passes(walk, path, i) ==
    /\ EntryOf(walk[i], path[i]) # {} /\ Named(walk[i], path[i]).isDir /\ walk[i + 1] = Named(walk[i], path[i]).sector
Trail(path, k, walk) ==
    walk \in [1 .. k + 1 -> DOMAIN disc.image.dirs] /\ walk[1] = Root /\ \A i \in 1 .. k : Passes(walk, path, i)

\* what is called by the name is below an entry
Near(tree, name, offset) ==
    \E below \in [DOMAIN tree -> SUBSET DOMAIN tree] :
        Grown(tree, below) /\ \A e \in DOMAIN tree : tree[e].name = name => offset \in DOMAIN tree /\ e \in below[offset]
Here(l, name) == disc.image.volume = "start" => Near(disc.image.dirs[l.sector], name, l.offset)

Left(l, k) == /\ Len(l.rest) > 0 /\ Len(l.path) = k + Len(l.rest) /\ \A i \in 1 .. Len(l.rest) : l.rest[i] = l.path[k + i]
Came(l, k) == /\ \E walk : Trail(l.path, k, walk) /\ walk[k + 1] = l.sector
              /\ \A walk \in Walks(l.path) : walk[k + 1] = l.sector
Looking(l) ==
    /\ l.path \in Paths /\ l.rest \in Seq(Names) /\ l.sector \in DOMAIN disc.image.dirs /\ l.offset \in Nat
    /\ \E k \in Nat : Left(l, k) /\ Came(l, k) /\ Here(l, l.path[k + 1])

LookupOK(l) ==
    /\ DOMAIN l = LookupFields
    /\ l.outcome # "none" => disc.image \in Images
    /\ l.outcome = "searching" => Looking(l)
    /\ l.outcome = "found" => l.file \in Resolves(l.path)
    /\ l.outcome = "absent" /\ disc.image.volume = "start" => Resolves(l.path) = {}

\* The inductive invariant of the lookups.
DiscInv == (disc.valid => disc.image \in Images) /\ LookupOK(lookup)

LEMMA ImageIs ==
    ASSUME NEW image \in Images
    PROVE  /\ Root \in DOMAIN image.dirs
           /\ \A s \in DOMAIN image.dirs :
                /\ DOMAIN image.dirs[s] \subseteq Nat /\ Sorted(image.dirs[s])
                /\ \A e \in DOMAIN image.dirs[s] :
                     /\ image.dirs[s][e].name \in Nat /\ image.dirs[s][e].left \in Nat /\ image.dirs[s][e].right \in Nat
                     /\ image.dirs[s][e].isDir => image.dirs[s][e].sector \in DOMAIN image.dirs
  BY XdvdfsAssumption

\* Before the first entry was looked at.
LEMMA NearFirst == ASSUME NEW tree, Sorted(tree), NEW name PROVE Near(tree, name, 0)
<1>1. PICK below \in [DOMAIN tree -> SUBSET DOMAIN tree] : Grown(tree, below)
  BY DEF Sorted
<1>2. \A e \in DOMAIN tree : 0 \in DOMAIN tree /\ e \in below[0]
  BY <1>1 DEF Grown
<1> QED BY <1>1, <1>2 DEF Near

NamesOf(tree) == DOMAIN tree \subseteq Nat /\ \A e \in DOMAIN tree : tree[e].name \in Nat /\ tree[e].left \in Nat /\ tree[e].right \in Nat

\* The side on which a name must be.
LEMMA SideOf ==
    ASSUME NEW tree, NamesOf(tree), NEW below \in [DOMAIN tree -> SUBSET DOMAIN tree], Grown(tree, below),
           NEW o \in DOMAIN tree, NEW e \in below[o]
    PROVE  /\ tree[e].name < tree[o].name => e \in Side(below, tree[o].left)
           /\ tree[e].name > tree[o].name => e \in Side(below, tree[o].right)
           /\ tree[e].name = tree[o].name => e = o
<1>1. /\ below[o] = {o} \cup Side(below, tree[o].left) \cup Side(below, tree[o].right)
      /\ \A f \in Side(below, tree[o].left) : tree[f].name < tree[o].name
      /\ \A f \in Side(below, tree[o].right) : tree[f].name > tree[o].name
  BY DEF Grown
<1>2. tree[o].name \in Nat /\ tree[e].name \in Nat
  BY DEF NamesOf
<1>3. CASE e = o
  BY <1>2, <1>3
<1>4. CASE e \in Side(below, tree[o].left)
  <2>1. tree[e].name < tree[o].name
    BY <1>1, <1>4
  <2> QED BY <1>2, <1>4, <2>1
<1>5. CASE e \in Side(below, tree[o].right)
  <2>1. tree[e].name > tree[o].name
    BY <1>1, <1>5
  <2> QED BY <1>2, <1>5, <2>1
<1> QED BY <1>1, <1>3, <1>4, <1>5

\* The child on that side, or none.
ChildFor(tree, o, name) == IF name < tree[o].name THEN tree[o].left ELSE tree[o].right

LEMMA NearChild ==
    ASSUME NEW tree, NamesOf(tree), NEW o \in DOMAIN tree, NEW name \in Nat, name # tree[o].name, Near(tree, name, o)
    PROVE  /\ ChildFor(tree, o, name) > o => Near(tree, name, ChildFor(tree, o, name))
           /\ ChildFor(tree, o, name) <= o => \A e \in DOMAIN tree : tree[e].name # name
<1>1. PICK below \in [DOMAIN tree -> SUBSET DOMAIN tree] :
        Grown(tree, below) /\ \A e \in DOMAIN tree : tree[e].name = name => e \in below[o]
  BY DEF Near
<1>2. PICK child \in Nat : child = ChildFor(tree, o, name)
  BY DEF ChildFor, NamesOf
<1>3. o \in Nat /\ tree[o].name \in Nat
  BY DEF NamesOf
<1>4. \A e \in DOMAIN tree : tree[e].name = name => e \in Side(below, child)
  <2> SUFFICES ASSUME NEW e \in DOMAIN tree, tree[e].name = name PROVE e \in Side(below, child)
    OBVIOUS
  <2>1. e \in below[o]
    BY <1>1
  <2>2. CASE name < tree[o].name
    <3>1. tree[e].name < tree[o].name
      BY <2>2
    <3> QED BY <1>1, <1>2, <2>1, <2>2, <3>1, SideOf DEF ChildFor
  <2>3. CASE ~(name < tree[o].name)
    <3>1. tree[e].name > tree[o].name
      BY <1>3, <2>3
    <3> QED BY <1>1, <1>2, <2>1, <2>3, <3>1, SideOf DEF ChildFor
  <2> QED BY <2>2, <2>3
<1>5. child # 0 => child \in DOMAIN tree /\ child > o
  BY <1>1, <1>2 DEF Grown, ChildFor
<1>6. CASE child > o
  <2>1. child # 0 /\ child \in DOMAIN tree
    BY <1>3, <1>5, <1>6
  <2>2. \A e \in DOMAIN tree : tree[e].name = name => child \in DOMAIN tree /\ e \in below[child]
    BY <1>4, <2>1 DEF Side
  <2>3. Near(tree, name, child)
    BY <1>1, <2>2 DEF Near
  <2> QED BY <1>2, <1>3, <1>6, <2>3
<1>7. CASE child <= o
  <2>1. child = 0
    BY <1>3, <1>5, <1>7
  <2>2. \A e \in DOMAIN tree : tree[e].name # name
    BY <1>4, <2>1 DEF Side
  <2> QED BY <1>2, <1>3, <1>7, <2>2
<1> QED BY <1>3, <1>6, <1>7

\* An entry by that name is the one that is looked at.
LEMMA NearSelf ==
    ASSUME NEW tree, NamesOf(tree), NEW o \in DOMAIN tree, Near(tree, tree[o].name, o)
    PROVE  {e \in DOMAIN tree : tree[e].name = tree[o].name} = {o}
<1>1. PICK below \in [DOMAIN tree -> SUBSET DOMAIN tree] :
        Grown(tree, below) /\ \A e \in DOMAIN tree : tree[e].name = tree[o].name => e \in below[o]
  BY DEF Near
<1>2. \A e \in DOMAIN tree : tree[e].name = tree[o].name => e = o
  <2> SUFFICES ASSUME NEW e \in DOMAIN tree, tree[e].name = tree[o].name PROVE e = o
    OBVIOUS
  <2>1. e \in below[o]
    BY <1>1
  <2> QED BY <1>1, <2>1, SideOf
<1> QED BY <1>2

\* The outcomes of a step: nothing by the name, the file, another directory.
LEMMA NoWalk ==
    ASSUME NEW l, Looking(l), NEW k \in Nat, Left(l, k), Came(l, k),
           \/ EntryOf(l.sector, l.path[k + 1]) = {}
           \/ Len(l.rest) # 1 /\ ~Named(l.sector, l.path[k + 1]).isDir
    PROVE  Resolves(l.path) = {}
<1>1. PICK path \in Seq(Names) : path = l.path
  BY XdvdfsAssumption DEF Looking
<1>2. PICK n \in Nat : n = Len(path) /\ DOMAIN path = 1 .. n
  BY <1>1
<1>3. k + 1 \in 1 .. n /\ (Len(l.rest) # 1 => k + 1 \in 1 .. n - 1)
  <2>1. PICK r \in Nat : r = Len(l.rest)
    BY DEF Looking
  <2>2. r > 0 /\ n = k + r
    BY <1>1, <1>2, <2>1 DEF Left
  <2>3. k + 1 \in 1 .. n /\ (r # 1 => k + 1 \in 1 .. n - 1)
    BY <2>2
  <2> QED BY <2>1, <2>3
<1>4. ASSUME NEW walk \in Walks(path) PROVE FALSE
  <2>1. walk[k + 1] = l.sector
    BY <1>1 DEF Came
  <2>2. EntryOf(walk[k + 1], path[k + 1]) # {}
    BY <1>2, <1>3 DEF Walks
  <2>3. Len(l.rest) # 1 => Named(walk[k + 1], path[k + 1]).isDir
    BY <1>2, <1>3 DEF Walks
  <2> QED BY <1>1, <2>1, <2>2, <2>3
<1> QED BY <1>1, <1>4 DEF Resolves

LEMMA LastWalk ==
    ASSUME NEW l, Looking(l), NEW k \in Nat, Left(l, k), Came(l, k), Len(l.rest) = 1,
           EntryOf(l.sector, l.path[k + 1]) # {}
    PROVE  Named(l.sector, l.path[k + 1]).sector \in Resolves(l.path)
<1>1. PICK path \in Seq(Names) : path = l.path
  BY XdvdfsAssumption DEF Looking
<1>2. k + 1 = Len(path) /\ DOMAIN path = 1 .. k + 1
  BY <1>1 DEF Left
<1>3. PICK walk : Trail(path, k, walk) /\ walk[k + 1] = l.sector
  BY <1>1 DEF Came
<1>4. walk \in Walks(path)
  <2>1. walk \in [DOMAIN path -> DOMAIN disc.image.dirs] /\ walk[1] = Root
    BY <1>2, <1>3 DEF Trail
  <2>2. ASSUME NEW i \in DOMAIN path PROVE EntryOf(walk[i], path[i]) # {}
    <3>1. CASE i = k + 1
      BY <1>1, <1>3, <3>1
    <3>2. CASE i # k + 1
      <4>1. i \in 1 .. k
        BY <1>2, <3>2
      <4> QED BY <1>3, <4>1 DEF Trail, Passes
    <3> QED BY <3>1, <3>2
  <2>3. ASSUME NEW i \in 1 .. Len(path) - 1
        PROVE  Named(walk[i], path[i]).isDir /\ walk[i + 1] = Named(walk[i], path[i]).sector
    <3>1. i \in 1 .. k
      BY <1>2
    <3> QED BY <1>3, <3>1 DEF Trail, Passes
  <2> QED BY <2>1, <2>2, <2>3 DEF Walks
<1>5. Named(walk[Len(path)], path[Len(path)]).sector \in Resolves(path)
  BY <1>4 DEF Resolves
<1> QED BY <1>1, <1>2, <1>3, <1>5

LEMMA OneFurther ==
    ASSUME NEW l, Looking(l), NEW k \in Nat, Left(l, k), Came(l, k), Len(l.rest) # 1,
           EntryOf(l.sector, l.path[k + 1]) # {}, Named(l.sector, l.path[k + 1]).isDir,
           NEW m, m.path = l.path, m.sector = Named(l.sector, l.path[k + 1]).sector, m.sector \in DOMAIN disc.image.dirs
    PROVE  Came(m, k + 1)
<1>1. PICK path \in Seq(Names) : path = l.path
  BY XdvdfsAssumption DEF Looking
<1>2. PICK n \in Nat : n = Len(path) /\ DOMAIN path = 1 .. n /\ k + 1 \in 1 .. n - 1
  <2>1. PICK r \in Nat : r = Len(l.rest)
    BY DEF Looking
  <2>2. r > 0 /\ r # 1 /\ Len(path) = k + r
    BY <1>1, <2>1 DEF Left
  <2>3. Len(path) \in Nat /\ DOMAIN path = 1 .. Len(path)
    BY <1>1
  <2>4. k + 1 \in 1 .. Len(path) - 1
    BY <2>2, <2>3
  <2> QED BY <2>3, <2>4
<1>3. PICK walk : Trail(path, k, walk) /\ walk[k + 1] = l.sector
  BY <1>1 DEF Came
<1>4. PICK longer : longer = [i \in 1 .. k + 2 |-> IF i = k + 2 THEN m.sector ELSE walk[i]]
  OBVIOUS
<1>5. longer \in [1 .. (k + 1) + 1 -> DOMAIN disc.image.dirs] /\ longer[k + 2] = m.sector /\ \A i \in 1 .. k + 1 : longer[i] = walk[i]
  BY <1>3, <1>4 DEF Trail
<1>6. longer[1] = Root
  BY <1>3, <1>5 DEF Trail
<1>7. ASSUME NEW i \in 1 .. k + 1 PROVE Passes(longer, path, i)
  <2>1. CASE i = k + 1
    <3>1. longer[i] = l.sector /\ longer[i + 1] = m.sector /\ path[i] = l.path[k + 1]
      BY <1>1, <1>3, <1>5, <2>1
    <3> QED BY <3>1 DEF Passes
  <2>2. CASE i # k + 1
    <3>1. i \in 1 .. k /\ longer[i] = walk[i] /\ longer[i + 1] = walk[i + 1]
      BY <1>5, <2>2
    <3> QED BY <1>3, <3>1 DEF Trail, Passes
  <2> QED BY <2>1, <2>2
<1>8. Trail(path, k + 1, longer) /\ longer[(k + 1) + 1] = m.sector
  BY <1>5, <1>6, <1>7 DEF Trail
<1>9. ASSUME NEW w \in Walks(path) PROVE w[(k + 1) + 1] = m.sector
  <2>1. w[k + 1] = l.sector
    BY <1>1 DEF Came
  <2>2. w[(k + 1) + 1] = Named(w[k + 1], path[k + 1]).sector
    BY <1>2 DEF Walks
  <2> QED BY <1>1, <2>1, <2>2
<1> QED BY <1>1, <1>8, <1>9 DEF Came

LEMMA TreeOf ==
    ASSUME NEW l, Looking(l), disc.image \in Images
    PROVE  NamesOf(disc.image.dirs[l.sector])
  BY ImageIs DEF Looking, NamesOf

LEMMA NameOf == ASSUME NEW l, Looking(l), NEW k \in Nat, Left(l, k) PROVE Head(l.rest) = l.path[k + 1] /\ Head(l.rest) \in Nat
<1>1. l.rest \in Seq(Names) /\ Len(l.rest) > 0
  BY DEF Looking, Left
<1>2. 1 \in 1 .. Len(l.rest)
  BY <1>1
<1>3. Head(l.rest) = l.rest[1] /\ l.rest[1] \in Names
  BY <1>1, <1>2
<1>4. l.rest[1] = l.path[k + 1]
  BY <1>2 DEF Left
<1> QED BY <1>3, <1>4, XdvdfsAssumption

\* What a step may make of a lookup.
Absent(l) == [l EXCEPT !.outcome = "absent"]
Found(l, file) == [l EXCEPT !.outcome = "found", !.file = file]
Further(l, sector) == [l EXCEPT !.rest = Tail(@), !.sector = sector, !.offset = 0]
Lower(l, child) == [l EXCEPT !.offset = child]

LEMMA AbsentOK ==
    ASSUME NEW l, LookupOK(l), l.outcome = "searching", disc.image.volume = "start" => Resolves(l.path) = {}
    PROVE  LookupOK(Absent(l))
<1>1. PICK m : m = Absent(l)
  OBVIOUS
<1>2. DOMAIN m = LookupFields /\ m.path = l.path /\ m.outcome = "absent"
  BY <1>1 DEF Absent, LookupOK, LookupFields
<1>3. LookupOK(m)
  BY <1>2 DEF LookupOK
<1> QED BY <1>1, <1>3

LEMMA FoundOK ==
    ASSUME NEW l, LookupOK(l), l.outcome = "searching", NEW file, file \in Resolves(l.path)
    PROVE  LookupOK(Found(l, file))
<1>1. PICK m : m = Found(l, file)
  OBVIOUS
<1>2. DOMAIN m = LookupFields /\ m.path = l.path /\ m.outcome = "found" /\ m.file = file
  BY <1>1 DEF Found, LookupOK, LookupFields
<1>3. LookupOK(m)
  BY <1>2 DEF LookupOK
<1> QED BY <1>1, <1>3

LEMMA LowerOK ==
    ASSUME NEW l, LookupOK(l), l.outcome = "searching", NEW k \in Nat, Left(l, k), Came(l, k), NEW child \in Nat,
           Near(disc.image.dirs[l.sector], l.path[k + 1], child)
    PROVE  LookupOK(Lower(l, child))
<1>1. PICK m : m = Lower(l, child)
  OBVIOUS
<1>2. /\ DOMAIN m = LookupFields /\ m.path = l.path /\ m.rest = l.rest /\ m.sector = l.sector /\ m.offset = child
      /\ m.outcome = "searching"
  BY <1>1 DEF Lower, LookupOK, LookupFields
<1>3. Left(m, k) /\ Came(m, k) /\ Here(m, m.path[k + 1])
  BY <1>2 DEF Left, Came, Here
<1>4. Looking(m)
  BY <1>2, <1>3 DEF Looking, LookupOK
<1>5. LookupOK(m)
  BY <1>2, <1>4 DEF LookupOK
<1> QED BY <1>1, <1>5

LEMMA FurtherOK ==
    ASSUME NEW l, LookupOK(l), l.outcome = "searching", NEW k \in Nat, Left(l, k), Came(l, k), Len(l.rest) # 1,
           EntryOf(l.sector, l.path[k + 1]) # {}, Named(l.sector, l.path[k + 1]).isDir,
           NEW sector \in DOMAIN disc.image.dirs, sector = Named(l.sector, l.path[k + 1]).sector
    PROVE  LookupOK(Further(l, sector))
<1>1. PICK m : m = Further(l, sector)
  OBVIOUS
<1>2. /\ DOMAIN m = LookupFields /\ m.path = l.path /\ m.rest = Tail(l.rest) /\ m.sector = sector /\ m.offset = 0
      /\ m.outcome = "searching"
  BY <1>1 DEF Further, LookupOK, LookupFields
<1>3. Looking(l) /\ disc.image \in Images
  BY DEF LookupOK
<1>4. PICK r \in Nat : r = Len(l.rest) /\ r > 1 /\ Len(l.path) = k + r
  <2>1. PICK r \in Nat : r = Len(l.rest)
    BY <1>3 DEF Looking
  <2>2. r > 0 /\ r # 1 /\ Len(l.path) = k + r
    BY <2>1 DEF Left
  <2>3. r > 1
    BY <2>2
  <2> QED BY <2>1, <2>2, <2>3
<1>5. m.rest \in Seq(Names) /\ Len(m.rest) = r - 1 /\ \A i \in 1 .. r - 1 : m.rest[i] = l.rest[i + 1]
  BY <1>2, <1>3, <1>4 DEF Looking
<1>6. Left(m, k + 1)
  <2>1. Len(m.rest) > 0 /\ Len(m.path) = (k + 1) + Len(m.rest)
    <3>0. r - 1 \in Nat
      BY <1>4
    <3>1. PICK q \in Nat : q = Len(m.rest) /\ q = r - 1
      BY <1>5, <3>0
    <3>2. r > 1 /\ q = r - 1
      BY <1>4, <3>1
    <3>3. q > 0 /\ k + r = (k + 1) + q
      BY <3>2
    <3> QED BY <1>2, <1>4, <3>1, <3>3
  <2>2. ASSUME NEW i \in 1 .. Len(m.rest) PROVE m.rest[i] = m.path[(k + 1) + i]
    <3>1. i \in 1 .. r - 1 /\ i + 1 \in 1 .. Len(l.rest) /\ k + (i + 1) = (k + 1) + i
      BY <1>4, <1>5
    <3>2. l.rest[i + 1] = l.path[k + (i + 1)]
      BY <3>1 DEF Left
    <3> QED BY <1>2, <1>5, <3>1, <3>2
  <2> QED BY <2>1, <2>2 DEF Left
<1>7. Came(m, k + 1)
  BY <1>2, <1>3, OneFurther
<1>8. Here(m, m.path[(k + 1) + 1])
  BY <1>2, <1>3, ImageIs, NearFirst DEF Here
<1>9. Looking(m)
  BY <1>2, <1>3, <1>5, <1>6, <1>7, <1>8 DEF Looking
<1>10. LookupOK(m)
  BY <1>2, <1>3, <1>9 DEF LookupOK
<1> QED BY <1>1, <1>10

LEMMA SearchStepOK == ASSUME DiscInv, SearchStep PROVE LookupOK(lookup')
<1>1. PICK l : l = lookup
  OBVIOUS
<1>2. LookupOK(l) /\ l.outcome = "searching" /\ Looking(l) /\ disc.image \in Images
  BY <1>1 DEF DiscInv, LookupOK, SearchStep
<1>3. PICK k \in Nat : Left(l, k) /\ Came(l, k) /\ Here(l, l.path[k + 1])
  BY <1>2 DEF Looking
<1>4. PICK tree : tree = disc.image.dirs[l.sector]
  OBVIOUS
<1>5. PICK name \in Nat : name = l.path[k + 1] /\ name = Head(l.rest)
  BY <1>2, <1>3, NameOf
<1>6. NamesOf(tree) /\ EntryOf(l.sector, name) = {e \in DOMAIN tree : tree[e].name = name}
  BY <1>2, <1>4, TreeOf DEF EntryOf
<1>7. disc.image.volume = "start" => Near(tree, name, l.offset)
  BY <1>3, <1>4, <1>5 DEF Here
<1>8. CASE ~Readable(l.sector, l.offset)
  <2>1. lookup' = Absent(l)
    BY <1>1, <1>8 DEF SearchStep, Absent
  <2>2. ASSUME disc.image.volume = "start" PROVE Resolves(l.path) = {}
    <3>1. l.offset \notin DOMAIN tree
      BY <1>4, <1>8, <2>2 DEF Readable
    <3>2. EntryOf(l.sector, name) = {}
      BY <1>6, <1>7, <2>2, <3>1 DEF Near
    <3> QED BY <1>2, <1>3, <1>5, <3>2, NoWalk
  <2> QED BY <1>2, <2>1, <2>2, AbsentOK
<1>9. CASE Readable(l.sector, l.offset)
  <2>1. PICK o \in DOMAIN tree : o = l.offset /\ Near(tree, name, o)
    BY <1>4, <1>7, <1>9 DEF Readable
  <2>2. PICK entry : entry = tree[o]
    OBVIOUS
  <2>3. entry.name \in Nat /\ entry.left \in Nat /\ entry.right \in Nat /\ o \in Nat
    BY <1>6, <2>2 DEF NamesOf
  <2>4. lookup' = IF name < entry.name THEN Descend(entry.left)
                  ELSE IF name > entry.name THEN Descend(entry.right) ELSE Enter(entry)
    BY <1>1, <1>4, <1>5, <1>9, <2>1, <2>2 DEF SearchStep
  <2>5. CASE name # entry.name
    <3>1. PICK child \in Nat : child = ChildFor(tree, o, name)
      BY <2>2, <2>3 DEF ChildFor
    <3>2. lookup' = Descend(child)
      BY <2>2, <2>3, <2>4, <2>5, <3>1 DEF ChildFor
    <3>3. CASE child <= o
      <4>1. lookup' = Absent(l)
        BY <1>1, <2>1, <3>2, <3>3 DEF Descend, Absent
      <4>2. EntryOf(l.sector, name) = {}
        BY <1>6, <2>1, <2>2, <2>5, <3>1, <3>3, NearChild
      <4>3. Resolves(l.path) = {}
        BY <1>2, <1>3, <1>5, <4>2, NoWalk
      <4> QED BY <1>2, <4>1, <4>3, AbsentOK
    <3>4. CASE child > o
      <4>1. lookup' = Lower(l, child)
        BY <1>1, <2>1, <2>3, <3>2, <3>4 DEF Descend, Lower
      <4>2. Near(tree, name, child)
        BY <1>6, <2>1, <2>2, <2>5, <3>1, <3>4, NearChild
      <4> QED BY <1>2, <1>3, <1>4, <1>5, <4>1, <4>2, LowerOK
    <3> QED BY <2>3, <3>3, <3>4
  <2>6. CASE name = entry.name
    <3>1. lookup' = Enter(entry)
      BY <2>3, <2>4, <2>6
    <3>2. EntryOf(l.sector, name) = {o}
      BY <1>6, <2>1, <2>2, <2>6, NearSelf
    <3>3. Named(l.sector, name) = entry
      BY <1>4, <2>2, <3>2 DEF Named
    <3>4. CASE Len(l.rest) = 1
      <4>1. lookup' = Found(l, entry.sector)
        BY <1>1, <3>1, <3>4 DEF Enter, Found
      <4>2. entry.sector \in Resolves(l.path)
        BY <1>2, <1>3, <1>5, <3>2, <3>3, <3>4, LastWalk
      <4> QED BY <1>2, <4>1, <4>2, FoundOK
    <3>5. CASE Len(l.rest) # 1 /\ entry.isDir
      <4>1. lookup' = Further(l, entry.sector)
        BY <1>1, <3>1, <3>5 DEF Enter, Further
      <4>2. entry.sector \in DOMAIN disc.image.dirs
        BY <1>2, <1>4, <2>2, <3>5, ImageIs DEF Looking
      <4>3. PICK sector \in DOMAIN disc.image.dirs : sector = entry.sector
        BY <4>2
      <4>4. LookupOK(Further(l, sector))
        BY <1>2, <1>3, <1>5, <3>2, <3>3, <3>5, <4>3, FurtherOK
      <4> QED BY <4>1, <4>3, <4>4
    <3>6. CASE Len(l.rest) # 1 /\ ~entry.isDir
      <4>1. lookup' = Absent(l)
        BY <1>1, <3>1, <3>6 DEF Enter, Absent
      <4>2. Resolves(l.path) = {}
        BY <1>2, <1>3, <1>5, <3>3, <3>6, NoWalk
      <4> QED BY <1>2, <4>1, <4>2, AbsentOK
    <3> QED BY <3>4, <3>5, <3>6
  <2> QED BY <2>5, <2>6
<1> QED BY <1>8, <1>9

LEMMA SearchOK == ASSUME DiscInv, NEW path \in Paths, Search(path) PROVE LookupOK(lookup')
<1>1. disc.image \in Images
  BY DEF DiscInv, Search
<1>2. PICK l : l = lookup'
  OBVIOUS
<1>3. /\ DOMAIN l = LookupFields /\ l.path = path /\ l.rest = path /\ l.sector = Root /\ l.offset = 0
      /\ l.outcome = "searching"
  BY <1>2 DEF Search, NoLookup, LookupFields
<1>4. path \in Seq(Names) /\ path # <<>> /\ Root \in DOMAIN disc.image.dirs
  BY <1>1, XdvdfsAssumption
<1>5. Left(l, 0)
  <2>1. Len(path) \in Nat /\ Len(path) > 0
    BY <1>4
  <2>2. \A i \in 1 .. Len(path) : 0 + i = i
    OBVIOUS
  <2> QED BY <1>3, <2>1, <2>2 DEF Left
<1>6. Came(l, 0)
  <2>1. PICK walk : walk = [i \in 1 .. 0 + 1 |-> Root]
    OBVIOUS
  <2>2. Trail(path, 0, walk) /\ walk[0 + 1] = Root
    BY <1>4, <2>1 DEF Trail
  <2>3. \A w \in Walks(path) : w[0 + 1] = Root
    BY DEF Walks
  <2> QED BY <1>3, <2>2, <2>3 DEF Came
<1>7. Here(l, l.path[0 + 1])
  BY <1>1, <1>3, <1>4, ImageIs, NearFirst DEF Here
<1>8. Looking(l)
  BY <1>3, <1>4, <1>5, <1>6, <1>7 DEF Looking
<1>9. LookupOK(l)
  BY <1>1, <1>3, <1>8 DEF LookupOK
<1> QED BY <1>2, <1>9

\* What is said of a lookup is said of the disc, which stays.
LEMMA SameDisc == ASSUME UNCHANGED disc, LookupOK(lookup'), disc.valid => disc.image \in Images PROVE DiscInv'
<1>1. PICK l : l = lookup'
  OBVIOUS
<1>2. \A s, n : EntryOf(s, n)' = EntryOf(s, n)
  BY DEF EntryOf
<1>3. \A s, n : Named(s, n)' = Named(s, n)
  BY <1>2 DEF Named
<1>4. \A path : Walks(path)' = Walks(path)
  BY <1>2, <1>3 DEF Walks
<1>5. \A path : Resolves(path)' = Resolves(path)
  BY <1>3, <1>4 DEF Resolves
<1>6. \A walk, path, i : Passes(walk, path, i) => Passes(walk, path, i)'
  BY <1>2, <1>3 DEF Passes
<1>7. \A path, k, walk : Trail(path, k, walk) => Trail(path, k, walk)'
  BY <1>6 DEF Trail
<1>8. Looking(l) => Looking(l)'
  BY <1>4, <1>7 DEF Looking, Came, Here
<1>9. LookupOK(l)'
  BY <1>1, <1>5, <1>8 DEF LookupOK
<1>10. (disc.valid => disc.image \in Images)'
  OBVIOUS
<1> QED BY <1>1, <1>9, <1>10 DEF DiscInv

LEMMA NoLookupOK == ASSUME disc.valid => disc.image \in Images, lookup = NoLookup PROVE DiscInv
  BY DEF DiscInv, LookupOK, NoLookup, LookupFields

LEMMA DiscStep == ASSUME DiscInv, DiscNext PROVE DiscInv'
<1>1. CASE \E image \in Images : Insert(image)
  <2>1. (disc.valid => disc.image \in Images)' /\ (lookup = NoLookup)'
    BY <1>1 DEF Insert, NoLookup
  <2>2. (disc.valid => disc.image \in Images)' /\ (lookup = NoLookup)' => DiscInv'
    BY DEF DiscInv, LookupOK, NoLookup, LookupFields
  <2> QED BY <2>1, <2>2
<1>2. CASE \E path \in Paths : Search(path)
  <2>1. UNCHANGED disc /\ LookupOK(lookup')
    BY <1>2, SearchOK DEF Search
  <2> QED BY <2>1, SameDisc DEF DiscInv
<1>3. CASE SearchStep
  <2>1. UNCHANGED disc /\ LookupOK(lookup')
    BY <1>3, SearchStepOK DEF SearchStep
  <2> QED BY <2>1, SameDisc DEF DiscInv
<1> QED BY <1>1, <1>2, <1>3 DEF DiscNext

LEMMA DiscStutter == ASSUME DiscInv, UNCHANGED xvars PROVE DiscInv'
<1>1. UNCHANGED disc /\ lookup' = lookup
  BY DEF xvars
<1> QED BY <1>1, SameDisc DEF DiscInv

\* Wherever the entries of a directory are in its tree, a search looks at one below
\* which the name must be.
THEOREM DiscInvariant == Spec => []DiscInv
<1>1. Init => DiscInv
  BY NoLookupOK DEF Init, DiscInit
<1>2. DiscInv /\ [Next]_<<part, tvars, svars, vvars, wvars, xvars>> => DiscInv'
  <2> SUFFICES ASSUME DiscInv, [Next]_<<part, tvars, svars, vvars, wvars, xvars>> PROVE DiscInv'
    OBVIOUS
  <2>1. DiscNext \/ UNCHANGED xvars
    BY DEF Next
  <2> QED BY <2>1, DiscStep, DiscStutter
<1> QED BY <1>1, <1>2, PTL DEF Spec

\* A search ends with the file its path names, or with none if there is none, in every
\* shape of the trees and for a path of any length (xdvdfs.cpp, search_file).
THEOREM SearchesFind == Spec => []SearchFinds
<1>1. DiscInv => SearchFinds
  BY DEF DiscInv, LookupOK, SearchFinds
<1> QED BY <1>1, DiscInvariant, PTL
=============================================================================
