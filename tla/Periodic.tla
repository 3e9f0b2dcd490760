------------------------------- MODULE Periodic -------------------------------
(***************************************************************************)
(* What the devices with a timer answer to cpu::checkPeriodicEvents.       *)
(***************************************************************************)
EXTENDS Naturals

\* numeric_limits::max(): no event will come
Never == 1000000

\* the device afterwards, the time to its next event, and whether there was one
Polled(dev, in, event) == [dev |-> dev, in |-> in, event |-> event]

\* the shape of getNextIrqTime, getNextAlarmTime, getNextVblankTime and the
\* getNextUpdateTime of USB: an event that is due is raised, once, and the device
\* is then fired; the answer is a whole period, however late the poll is
Answer(running, dev, fired, next, period, t) ==
    IF ~running THEN Polled(dev, Never, FALSE)
    ELSE IF t >= next THEN Polled(fired, period, TRUE) ELSE Polled(dev, next - t, FALSE)
=============================================================================
