---------------------------- MODULE BoundedFifo ----------------------------
(* What SPSCQueue promises its two threads: a first-in first-out queue of at *)
(* most Capacity elements.                                                   *)
EXTENDS Naturals, Sequences

CONSTANTS Values, Capacity

VARIABLES queue,    \* the elements put and not yet taken
          taken     \* the elements the last take delivered: none before the first

Init == queue = << >> /\ taken = << >>

Put(v) == /\ Len(queue) < Capacity
          /\ queue' = Append(queue, v)
          /\ UNCHANGED taken

Take == /\ queue # << >>
        /\ taken' = <<Head(queue)>>
        /\ queue' = Tail(queue)

Next == Take \/ \E v \in Values : Put(v)

Spec == Init /\ [][Next]_<<queue, taken>>
=============================================================================
