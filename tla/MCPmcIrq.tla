------------------------------ MODULE MCPmcIrq ------------------------------
(* Engines and the threads that raise their interrupts, for PmcIrq.          *)
EXTENDS PmcIrq

\* One engine of the CPU thread and one with a thread of its own.
TwoOrder == <<"pcrtc", "pgraph">>
TwoRaisers == [pcrtc |-> "cpu", pgraph |-> "graph"]

\* All three threads.
AllOrder == <<"pcrtc", "pfifo", "pgraph">>
AllRaisers == [pcrtc |-> "cpu", pfifo |-> "fifo", pgraph |-> "graph"]

=============================================================================
