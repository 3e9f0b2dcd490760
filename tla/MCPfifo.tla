------------------------------ MODULE MCPfifo -------------------------------
(* Push buffers for Pfifo. *)
EXTENDS Pfifo, FiniteSets

\* Words, which would be data of no object if they were read as data.
Method(sub, kind, n) == [op |-> "method", sub |-> sub, kind |-> kind, count |-> n, param |-> "d1"]
GoTo(op, to) == [op |-> op, to |-> to, param |-> "d1"]
Other(op) == [op |-> op, param |-> "d1"]
Param(p) == [op |-> "data", param |-> p]
Sent(sub, kind, p) == [sub |-> sub, kind |-> kind, param |-> p]
At(words) == [i \in 0 .. Len(words) - 1 |-> words[i + 1]]

\* A graphics object, the two kinds of handles that fault, and plain data.
TheObjects == [object |-> "graphics", software |-> "sw", unknown |-> "invalid", d1 |-> "invalid", d2 |-> "invalid"]

\* A bind, a call, a method of two parameters in the subroutine, a jump to the
\* part after it and a plain method.  PUT stops in the middle of it once.
FlowWords == At(<<Method("s0", "bind", 1), Param("object"), GoTo("call", 4), GoTo("jump", 8),
                  Method("s0", "plain", 2), Param("d1"), Param("d2"), Other("return"),
                  Method("s0", "lookup", 1), Param("object")>>)
FlowStops == <<6, 10>>
FlowMeaning == <<Sent("s0", "bind", "object"), Sent("s0", "plain", "d1"), Sent("s0", "plain", "d2"),
                 Sent("s0", "lookup", "object")>>

\* A method of an object done by software, a word that is no command, a return
\* without a call, a bind that succeeds and one that does not.
FaultWords == At(<<Method("s0", "plain", 2), Param("d1"), Param("d2"), Other("unrecognised"), Other("return"),
                   Method("s1", "bind", 3), Param("object"), Param("software"), Param("unknown")>>)
FaultStops == <<2, 9>>
FaultMeaning == <<Sent("s0", "plain", "d1"), Sent("s0", "plain", "d2"), Sent("s1", "bind", "object"),
                  Sent("s1", "bind", "software"), Sent("s1", "bind", "unknown")>>

\* One bind of a handle the title has to add, between two binds that succeed.
RetryWords == At(<<Method("s0", "bind", 4), Param("object"), Param("unknown"), Param("object"), Param("object")>>)
RetryStops == <<3, 5>>
RetryMeaning == <<Sent("s0", "bind", "object"), Sent("s0", "bind", "unknown"), Sent("s0", "bind", "object"),
                  Sent("s0", "bind", "object")>>

\* One bind with two parameters.
ShortWords == At(<<Method("s0", "bind", 2), Param("object"), Param("object")>>)
ShortStops == <<2, 3>>
ShortMeaning == <<Sent("s0", "bind", "object"), Sent("s0", "bind", "object")>>

\* The reading goes through every word once.
ReadingOf(words) ==
    LET place[i \in 1 .. Cardinality(DOMAIN words) + 1] == IF i = 1 THEN FirstPlace ELSE After(words, place[i - 1]) IN place

Game(words, stops, meaning, does) ==
    [words |-> words, stops |-> stops, meaning |-> meaning, reading |-> ReadingOf(words), does |-> does]
Flow(does) == Game(FlowWords, FlowStops, FlowMeaning, does)
Fault(does) == Game(FaultWords, FaultStops, FaultMeaning, does)
Retry(does) == Game(RetryWords, RetryStops, RetryMeaning, does)
Short(does) == Game(ShortWords, ShortStops, ShortMeaning, does)

\* Accesses off and on, faults and the end, a repaired handle, a disabled engine.
AllGames == {Flow({"push", "pull", "toggle"}), Fault({}), Fault({"push", "stop"}),
             Fault({"push", "pull", "toggle", "stop"}), Retry({"push", "retry"}), Retry({"disable"}),
             Short({"push", "pull", "toggle", "stop"}), Short({"push", "disable"})}
=============================================================================
