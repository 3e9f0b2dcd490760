------------------------------ MODULE MCMachine ------------------------------
(***************************************************************************)
(* The parts of the machine that a title programs: each title uses one of  *)
(* them, and nothing that is modelled of the others depends on it.         *)
(***************************************************************************)
EXTENDS Timers, Smbus, Vga, Windows, Xdvdfs

VARIABLE part \* what the title uses

\* Titles of the timers.  Two devices together show that the deadline is the sooner
\* one of both; "late" has cpu_run_until return a tick too late.
MCUses == {{"pit", "late"}, {"cmos", "pit"}, {"cmos", "late"}, {"cmos", "periodic"}, {"cmos", "flags"}, {"hours"},
           {"alarm", "ratio"}, {"alarm", "late"}, {"vblank", "late"}, {"usb"}, {"hub"}}

MCSmbusUses == {{"cells", "session"}, {"cells", "loose"}, {"cells", "partial"}, {"blocks"}, {"manage"}, {"manage", "blocks"}}

MCWindowTitles == {{"ports"}, {"halves"}, {"ports", "mmio", "order"}, {"ramin", "order"}}

\* Titles of the VGA: the registers they write, and which bits of them.
None == [i \in {} |-> {}]
On(i, bits) == [j \in {i} |-> bits]
And(f, g) == [j \in DOMAIN f \cup DOMAIN g |-> IF j \in DOMAIN f THEN f[j] ELSE g[j]]
Title(does, seq, gfx, attr, crt) == [does |-> does, seq |-> seq, gfx |-> gfx, attr |-> attr, crt |-> crt]
Planar == And(On(2, {0, 1}), On(4, {2}))
Window == And(On(6, {2}), On(8, {0}))
MCTitles ==
    {\* modes and renderers
     Title({}, And(On(1, {3, 5}), On(4, {2, 3})), And(On(5, {0, 3, 4, 6}), On(6, {0, 2})), On(16, {0, 6}), None),
     Title({}, None, And(On(5, {5, 6}), On(6, {0})), On(16, {6}), None),
     \* the size, with registers that are protected; fonts
     Title({}, On(1, {0, 3}), None, None,
           And(On(1, {0}), And(On(2, {0, 1}), And(On(7, {1, 3}), And(On(9, {5}), And(On(17, {7}), And(On(18, {0}), On(21, {0})))))))),
     Title({"consoles"}, And(On(1, {0}), On(3, {0, 5})), None, None, And(On(1, {0}), On(17, {7}))),
     \* pens and ports, the DAC
     Title({"status"}, None, None, And(On(0, {0, 5}), And(On(16, {7}), And(On(19, {1}), On(20, {0, 2})))), On(2, {0})),
     Title({"dac"}, None, None, None, None),
     \* pixels, by write modes and by operations; bytes
     Title({"pixels"}, Planar, And(On(0, {0}), And(On(1, {0}), And(On(5, {0, 1}), Window))), None, None),
     Title({"pixels"}, Planar, And(On(3, {3, 4}), And(On(5, {1}), Window)), None, None),
     Title({"bytes"}, And(On(2, {0, 1}), On(4, {2, 3})), And(On(5, {4}), Window), None, None)}

\* Images whose root is any search tree of up to three names, with a directory below
\* it; one with a game partition and one that is no disc.
MCNames == 0 .. 3
MCPaths == {<<n>> : n \in MCNames} \cup {<<n, m>> : n \in {1, 2}, m \in {1, 2, 3}}
Entry(n, l, r, dir) == [name |-> n, left |-> l, right |-> r, isDir |-> dir, sector |-> IF dir THEN 2 ELSE 10 + n]
Links(k) == [0 .. k -> [left : 0 .. k, right : 0 .. k]]
Children(t, S) == UNION {{t[e].left, t[e].right} : e \in S} \ {0}
Under(t, e) == IF e = 0 THEN {} ELSE {e} \cup Children(t, {e}) \cup Children(t, Children(t, {e}))
Shapes ==
    {t \in UNION {Links(k) : k \in 0 .. 2} :
        /\ Children(t, DOMAIN t) \cup {0} = DOMAIN t
        /\ \A e \in DOMAIN t : Children(t, {e}) \subseteq {f \in DOMAIN t : f > e}}
Ordered(t, name) ==
    \A e \in DOMAIN t : /\ \A f \in Under(t, t[e].left) : name[f] < name[e]
                        /\ \A f \in Under(t, t[e].right) : name[f] > name[e]
TreesOf(t) ==
    {[e \in DOMAIN t |-> Entry(name[e], t[e].left, t[e].right, dir /\ name[e] = 2)] :
        name \in {n \in [DOMAIN t -> {1, 2, 3}] : Ordered(t, n)}, dir \in BOOLEAN}
Trees == UNION {TreesOf(t) : t \in Shapes}
Below == [e \in {0, 1} |-> Entry(IF e = 0 THEN 1 ELSE 3, 0, IF e = 0 THEN 1 ELSE 0, FALSE)]
Image(volume, root) == [volume |-> volume, dirs |-> [s \in {1, 2} |-> IF s = 1 THEN root ELSE Below]]
MCImages == {Image("start", t) : t \in Trees} \cup {Image("partition", Below), Image("none", Below)}

-----------------------------------------------------------------------------
NoTitle == Title({}, None, None, None, None)

Init ==
    /\ TimersInit /\ SmbusInit /\ VgaInit /\ WindowsInit /\ DiscInit
    /\ \/ part = "timers" /\ doing \in Uses /\ wants = {} /\ title = NoTitle /\ through = {}
       \/ part = "smbus" /\ doing = {} /\ wants \in SmbusUses /\ title = NoTitle /\ through = {}
       \/ part = "vga" /\ doing = {} /\ wants = {} /\ title \in Titles /\ through = {}
       \/ part = "windows" /\ doing = {} /\ wants = {} /\ title = NoTitle /\ through \in WindowTitles
       \/ part = "disc" /\ doing = {} /\ wants = {} /\ title = NoTitle /\ through = {}

Next ==
    /\ UNCHANGED part
    /\ \/ part = "timers" /\ TimersNext /\ UNCHANGED <<svars, vvars, wvars, xvars>>
       \/ part = "smbus" /\ SmbusNext /\ UNCHANGED <<tvars, vvars, wvars, xvars>>
       \/ part = "vga" /\ VgaNext /\ UNCHANGED <<tvars, svars, wvars, xvars>>
       \/ part = "windows" /\ WindowsNext /\ UNCHANGED <<tvars, svars, vvars, xvars>>
       \/ part = "disc" /\ DiscNext /\ UNCHANGED <<tvars, svars, vvars, wvars>>

Spec == Init /\ [][Next]_<<part, tvars, svars, vvars, wvars, xvars>>

-----------------------------------------------------------------------------
\* The interrupt line of USB is high exactly while the controller has something to
\* report; that of the SMBus is never high without a status, and high exactly while
\* there is one for a title that clears all of them in one write.
LinesFollow == UsbLineFollows /\ SmbusLineFollows

\* What the title stored, through whatever registers, bytes and windows, is what it
\* meant to store: the EEPROM and its file, the DAC's palette, the planes of the
\* VGA's memory, the registers behind the windows of the PCI bus.
StoredAsMeant == EepromAsMeant /\ PaletteFollows /\ MemoryAsMeant /\ WindowsAgree
=============================================================================
