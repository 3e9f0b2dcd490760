--------------------------------- MODULE Cmos ---------------------------------
(***************************************************************************)
(* The real time clock (cmos.cpp) as functions of a record: the periodic   *)
(* interrupt, the seconds, the interrupt flags and the hour register.      *)
(* Timers gives it its place among the other devices the CPU loop polls.   *)
(*                                                                         *)
(* Times are in ticks of the host clock.  m_periodic_ticks is not kept: it *)
(* is compared in the statement after the one that assigns it.  The other  *)
(* registers of the date are read and written as the minutes are.          *)
(***************************************************************************)
EXTENDS Naturals, Periodic

CONSTANTS
    Second,   \* g_ticks_per_second
    Freqs,    \* frequencies of the periodic interrupt, in Hz
    AlarmSecs \* the seconds at which an alarm is set

ASSUME CmosAssumption == Second \in Nat \ {0} /\ Freqs \subseteq 2 .. Second /\ Freqs # {} /\ AlarmSecs \subseteq Nat

\* the flags of register B that are used, and the reasons in register C
BFlags == {"SET", "PIE", "AIE", "UIE"}
CFlags == {"PF", "AF", "UF"}

CmosSet == [b : SUBSET BFlags, freq : Freqs \cup {0}, int : BOOLEAN, clock : BOOLEAN, period : Nat, max : Nat,
            lastInt : Nat, lastClock : Nat, lostTicks : Nat, lostUs : Nat, sys : Nat, alarm : AlarmSecs \cup {0},
            flags : SUBSET CFlags, binary : BOOLEAN, h24 : BOOLEAN, hour : Nat]

CmosInit ==
    [b |-> {}, freq |-> CHOOSE f \in Freqs : TRUE, int |-> FALSE, clock |-> TRUE, period |-> 0, max |-> 0, lastInt |-> 0, lastClock |-> 0,
     lostTicks |-> 0, lostUs |-> 0, sys |-> 0, alarm |-> 0, flags |-> {}, binary |-> FALSE, h24 |-> TRUE, hour |-> 0]

\* update_timer
UpdateTimer(c, t) ==
    LET int == c.freq # 0 /\ "PIE" \in c.b
        started == IF ~int \/ c.int THEN c
                   ELSE [c EXCEPT !.period = Second \div c.freq, !.max = c.freq, !.lastInt = t] IN
    [started EXCEPT !.int = int, !.clock = "SET" \notin c.b,
                    !.lastClock = IF ~c.clock /\ "SET" \notin c.b THEN t ELSE @]

\* update_timer has the CPU loop polled when something was started or stopped
TimerChanged(c, d) == c.int # d.int \/ c.clock # d.clock

\* update_clock
UpdateClock(c, elapsed) ==
    LET lost == c.lostUs + elapsed IN [c EXCEPT !.sys = @ + lost \div Second, !.lostUs = lost % Second]

AlarmMatches(c) == c.alarm = c.sys

\* the branch of getNextUpdateTime with a periodic interrupt.  Its interrupt
\* flags replace those the title has not read yet.
PeriodicPoll(c, t) ==
    LET next == c.lastInt + c.period
        passed == c.lostTicks + t - c.lastInt
        ticked == [c EXCEPT !.lostTicks = passed % c.period]
        why == {"PF"} \cup (IF "AIE" \in c.b /\ AlarmMatches(c) THEN {"AF"} ELSE {}) \cup (c.b \cap {"UIE"})
        reasons == {IF w = "UIE" THEN "UF" ELSE w : w \in why} IN
    IF t < next THEN Polled(c, next - t, FALSE)
    ELSE IF passed \div c.period # c.max
    THEN Polled([ticked EXCEPT !.lastInt = next, !.flags = {"PF"}], c.period, TRUE)
    ELSE Polled([UpdateClock(ticked, t - c.lastClock) EXCEPT !.lastClock = next, !.flags = reasons], c.period, TRUE)

\* the branch without one
ClockPoll(c, t) ==
    LET next == c.lastClock + Second IN
    IF t < next THEN Polled(c, next - t, FALSE)
    ELSE Polled([UpdateClock(c, t - c.lastClock) EXCEPT !.lastClock = next], Second, TRUE)

\* getNextUpdateTime
CmosPoll(c, t) ==
    IF c.int THEN PeriodicPoll(c, t) ELSE IF c.clock THEN ClockPoll(c, t) ELSE Polled(c, Never, FALSE)

CmosRunning(c) == c.int \/ c.clock
CmosPeriod(c) == IF c.int THEN c.period ELSE Second
CmosDue(c) == CmosPeriod(c) + IF c.int THEN c.lastInt ELSE c.lastClock

-----------------------------------------------------------------------------
(***************************************************************************)
(* The hour: tm_hour is kept by the host, the register is a byte, binary or *)
(* decimal, of 24 hours or of twice 12.  The seconds never reach it here.   *)
(***************************************************************************)

PM == 128
ToBcd(binary, v) == IF binary THEN v ELSE 16 * (v \div 10) + (v % 10)
FromBcd(binary, v) == IF binary THEN v ELSE 10 * (v \div 16) + (v % 16)

\* read(4): the hours from 1 to 11 are not converted in the 12 hour format
HourRegister(c) ==
    IF c.h24 THEN ToBcd(c.binary, c.hour)
    ELSE IF c.hour = 0 THEN ToBcd(c.binary, 12)
    ELSE IF c.hour > 12 THEN PM + ToBcd(c.binary, c.hour - 12)
    ELSE IF c.hour = 12 THEN PM + ToBcd(c.binary, c.hour) ELSE 0

\* write8 of register 4: the byte is compared before it is converted
HourWritten(c, v) ==
    LET masked == v % 128
        hour == FromBcd(c.binary, masked) IN
    IF c.h24 THEN hour
    ELSE IF v >= PM THEN IF masked < 12 THEN hour + 12 ELSE hour
    ELSE IF masked = 12 THEN 0 ELSE hour

\* the byte of an hour, as a title has it
HourByte(c, hour) ==
    IF c.h24 THEN ToBcd(c.binary, hour)
    ELSE (IF hour >= 12 THEN PM ELSE 0) + ToBcd(c.binary, IF hour % 12 = 0 THEN 12 ELSE hour % 12)
=============================================================================
