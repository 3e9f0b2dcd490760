------------------------------- MODULE MCHostIo ------------------------------
(***************************************************************************)
(* Two guest threads, one file each, one handle each, one byte to move:    *)
(* enough for both packets to be in the queue, one in the queue and one    *)
(* put aside, one in the worker and one posted.                            *)
(***************************************************************************)
EXTENDS HostIo, TLC

MCDisc == <<>>

Packet(path, disp, size) ==
    [type |-> "open", dev |-> "hdd", path |-> path, handle |-> NoPath, disp |-> disp, attrs |-> {},
     size |-> size, access |-> {}, flags |-> "none", deleteOnClose |-> FALSE]

MCOpens == {Packet("save", "IO_OPEN_IF", 1), Packet("save", "IO_OVERWRITE", 0), Packet("udata", "IO_OPEN_IF", 1)}
MCNoOpens == {}
MCNoExtents == {}
MCNoRaw == {}
MCExtents == {<<0, 1>>}

\* threads and handles are interchangeable
MCSymmetry == Permutations(Clients) \cup Permutations(Handles)
=============================================================================
