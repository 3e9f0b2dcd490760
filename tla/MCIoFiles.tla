------------------------------ MODULE MCIoFiles ------------------------------
(***************************************************************************)
(* Small instances of IoFiles: two files, a directory on the disc, two     *)
(* handles, and one open packet per outcome the handlers tell apart.       *)
(***************************************************************************)
EXTENDS IoFiles, TLC

\* the handles are interchangeable
MCSymmetry == Permutations(Handles)

\* once a create has left its dirent out, or a raw write has gone over the
\* dirents, only the types and the agreement of the handles are claimed, and they
\* are proved for what follows: no need to go on from there
MCWhileIntact == intact

MCDisc == ("default.xbe" :> {}) @@ ("media" :> {"dir"})

Packet(path, disp, attrs, size) ==
    [type |-> "open", dev |-> DevOf(path), path |-> path, handle |-> NoPath, disp |-> disp, attrs |-> attrs,
     size |-> size, access |-> {}, flags |-> "none", deleteOnClose |-> FALSE]

RootAndDisc ==
    {Packet(Root, "IO_OPEN", {}, 0), Packet("default.xbe", "IO_OPEN", {}, 0),
     [Packet("default.xbe", "IO_OPEN", {}, 0) EXCEPT !.flags = "must_be_a_dir"],
     [Packet("media", "IO_OPEN", {}, 0) EXCEPT !.flags = "must_not_be_a_dir"]}

\* a byte that takes a cluster of an empty file, and stays in that of any other
MCExtents == {<<1, 1>>}

\* a raw write that leaves a directory where a dirent was
MCRaw == {[path |-> "save", attrs |-> {"dir"}, size |-> 0, live |-> TRUE]}

\* two names that compete for the slots: every disposition, a file that becomes
\* read-only, an access that is refused, a directory
MCFewOpens == {Packet("save", "IO_OPEN_IF", {}, 1), Packet("save", "IO_OVERWRITE", {}, 2)}
MCOpens ==
    {Packet("save", "IO_SUPERSEDE", {"ro"}, 0),
     [Packet("save", "IO_OPEN", {}, 0) EXCEPT !.access = {"write"}],
     Packet("udata", "IO_CREATE", {"dir"}, 0), Packet("udata", "IO_OVERWRITE_IF", {"dir"}, 0)}
    \cup MCFewOpens \cup RootAndDisc
=============================================================================
