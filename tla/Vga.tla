---------------------------------- MODULE Vga ----------------------------------
(***************************************************************************)
(* The VGA (video/vga.cpp): its registers, what is kept of them so that    *)
(* memory accesses need not look at the registers, the palette and the     *)
(* planes of its memory.                                                   *)
(*                                                                         *)
(* A register is the set of its bits that are one.  The title writes the   *)
(* sequencer, graphics and CRT registers as index and data at once         *)
(* (ioWrite16), and the attribute registers through their flip-flop.  A    *)
(* 16 bit access to the memory is two of 8 bits.  Nothing calls update(),  *)
(* which draws: what only drawing looks at is left out.                    *)
(***************************************************************************)
EXTENDS Naturals, FiniteSets, FiniteSetsExt

CONSTANTS
    Titles,    \* what each title does, and the bits of the registers it changes
    NumPlanes, \* planes of the memory
    NumBits,   \* bits of a byte of the memory
    Addresses, \* offsets into the memory window
    Colors     \* entries of the DAC

\* entries of the tables that are modelled: one pen stands for sixteen
SeqIndices == {1, 2, 3, 4}
GfxIndices == 0 .. 8
AttrIndices == {0, 16, 19, 20}
CrtIndices == {1, 2, 7, 9, 17, 18, 21}

ASSUME VgaAssumption ==
    /\ NumPlanes \in {2, 4} /\ NumBits \in 1 .. 8
    /\ IsFiniteSet(Addresses) /\ Addresses = 0 .. Cardinality(Addresses) - 1
    /\ IsFiniteSet(Colors) /\ Colors # {} /\ Colors = 0 .. Cardinality(Colors) - 1
    /\ \A t \in Titles : /\ t.does \subseteq {"status", "dac", "abandon", "pixels", "bytes", "latches", "consoles"}
                         /\ DOMAIN t.seq \subseteq SeqIndices /\ DOMAIN t.gfx \subseteq GfxIndices
                         /\ DOMAIN t.attr \subseteq AttrIndices /\ DOMAIN t.crt \subseteq CrtIndices
                         /\ \A table \in {t.seq, t.gfx, t.attr, t.crt} : \A i \in DOMAIN table : table[i] \subseteq 0 .. 7
                         /\ "pixels" \notin t.does \/ "bytes" \notin t.does
                         /\ NumPlanes = 2 /\ 4 \in DOMAIN t.gfx => 1 \notin t.gfx[4]

VARIABLES
    regs,   \* seq, gfx, attr, crt, misc and attr_index
    kept,   \* what update_mem_access and the like compute of them
    dac,    \* the DAC and its addresses
    vram,   \* the memory, and the latches
    canvas, \* what the title means the memory to hold (history)
    title   \* what the title does

vvars == <<regs, kept, dac, vram, canvas, title>>

Planes == 0 .. NumPlanes - 1
Bits == 0 .. NumBits - 1
Full == Bits

-----------------------------------------------------------------------------
(***************************************************************************)
(* What is kept of the registers                                           *)
(***************************************************************************)

Value(bits) == MapThenSumSet(LAMBDA b : 2 ^ b, bits)
Bit(b, bits, weight) == IF b \in bits THEN weight ELSE 0
Low2(bits) == Bit(0, bits, 1) + Bit(1, bits, 2)
Less(x, y) == IF x < y THEN x ELSE y
Changed(x, y) == (x \ y) \cup (y \ x)

\* update_mem_access
WriteAccess(r) == IF 3 \in r.seq[4] THEN "chain4" ELSE IF 2 \notin r.seq[4] THEN "oddeven" ELSE "normal"
ReadAccess(r) ==
    IF 3 \in r.gfx[5] THEN "readmode1" ELSE IF 3 \in r.seq[4] THEN "chain4"
    ELSE IF 4 \in r.gfx[5] THEN "oddeven" ELSE "normal"
UpdateMemAccess(r, k) ==
    [k EXCEPT !.write = WriteAccess(r), !.read = ReadAccess(r), !.mode = r.gfx[5] \cap {0, 1}, !.fresh = @ \ {"access"}]

\* change_renderer: 4bpp with the shift registers interleaved ends the emulation
Renderer(r) ==
    IF 5 \in r.seq[1] \/ ~r.index.shows THEN <<"blank", 3 \in r.seq[1]>>
    ELSE IF 0 \notin r.gfx[6] THEN <<"alphanumeric", 3 \in r.seq[1]>>
    ELSE IF 6 \in r.gfx[5] THEN <<"mode13h", 6 \in r.attr[16]>> ELSE <<"4bpp", 3 \in r.seq[1]>>
Unimplemented(r) == 5 \in r.gfx[5] /\ Renderer(r)[1] = "4bpp"
ChangeRenderer(r, k) == [k EXCEPT !.renderer = Renderer(r)]

\* update_size
Size(r, width) ==
    <<Less(Value(r.crt[1]) + 1, Value(r.crt[2])) * width,
      Less(Value(r.crt[18]) + Bit(1, r.crt[7], 256) + Bit(6, r.crt[7], 512) + 1,
           Value(r.crt[21]) + Bit(3, r.crt[7], 256) + Bit(5, r.crt[9], 512))>>
UpdateSize(r, k) == [k EXCEPT !.size = Size(r, k.width)]

\* change_attr_cache
Shifted(bits) == {b + 4 : b \in bits}
Pen(r) ==
    IF 7 \in r.attr[16] THEN (r.attr[0] \cap 0 .. 3) \cup Shifted(r.attr[20] \cap 0 .. 3)
    ELSE (r.attr[0] \cap 0 .. 5) \cup Shifted(r.attr[20] \cap {2, 3})

CharWidth(r) == IF 0 \in r.seq[1] THEN 8 ELSE 9
CharMap(r) == <<Bit(5, r.seq[3], 1) + Bit(2, r.seq[3], 2) + Bit(3, r.seq[3], 4),
                Bit(4, r.seq[3], 1) + Bit(0, r.seq[3], 2) + Bit(1, r.seq[3], 4)>>
Panning(r, k) == IF 6 \in r.gfx[5] THEN Value(r.attr[19]) \div 2 ELSE (Value(r.attr[19]) % 8) + (k.width % 2)

-----------------------------------------------------------------------------
(***************************************************************************)
(* Writes to the registers                                                 *)
(***************************************************************************)

SeqReserved == [i \in SeqIndices |-> CASE i = 1 -> {1, 6, 7} [] i = 2 -> 4 .. 7 [] i = 3 -> {6, 7} [] i = 4 -> {0} \cup 4 .. 7]
GfxReserved == [i \in GfxIndices |->
    CASE i \in {0, 1, 2, 6, 7} -> 4 .. 7 [] i = 3 -> 5 .. 7 [] i = 4 -> 2 .. 7 [] i = 5 -> {2, 7} [] i = 8 -> {}]

\* the sequencer: of the clocking mode, bit 3 and bit 0 change the size
SeqKept(i, d, r) ==
    CASE i = 1 -> LET shown == IF d \cap {3, 5} # {} THEN ChangeRenderer(r, kept) ELSE kept
                      wide == IF 0 \in d THEN [shown EXCEPT !.width = CharWidth(r)] ELSE shown IN
                  IF d \cap {0, 3} # {} THEN UpdateSize(r, wide) ELSE wide
      [] i = 2 -> kept
      [] i = 3 -> [kept EXCEPT !.map = CharMap(r)]
      [] i = 4 -> IF d \cap {2, 3} # {} THEN UpdateMemAccess(r, kept) ELSE kept

WriteSeq(i, v) ==
    LET value == v \ SeqReserved[i]
        d == Changed(regs.seq[i], value)
        r == [regs EXCEPT !.seq[i] = value] IN
    /\ d # {} /\ ~Unimplemented(r)
    /\ regs' = r /\ kept' = SeqKept(i, d, r)
    /\ UNCHANGED <<dac, vram, canvas, title>>

\* the graphics registers
GfxKept(i, d, r) ==
    CASE i = 5 -> LET shown == IF d \cap {5, 6} # {} THEN ChangeRenderer(r, kept) ELSE kept IN
                  IF d \cap {0, 1, 3, 4} # {} THEN UpdateMemAccess(r, shown) ELSE shown
      [] i = 6 -> LET moved == [kept EXCEPT !.window = r.gfx[6] \cap {2, 3}, !.fresh = @ \ {"window"}] IN
                  IF 0 \in d THEN ChangeRenderer(r, moved) ELSE moved
      [] OTHER -> kept

WriteGfx(i, v) ==
    LET value == v \ GfxReserved[i]
        d == Changed(regs.gfx[i], value)
        r == [regs EXCEPT !.gfx[i] = value] IN
    /\ d # {} /\ ~Unimplemented(r)
    /\ regs' = r /\ kept' = GfxKept(i, d, r)
    /\ UNCHANGED <<dac, vram, canvas, title>>

\* the attribute registers, first the index with the bit that turns the screen on
WriteAttrIndex(i, shows) ==
    LET r == [regs EXCEPT !.index = [at |-> i, shows |-> shows, data |-> TRUE]] IN
    /\ ~regs.index.data /\ ~Unimplemented(r)
    /\ regs' = r
    /\ kept' = IF shows # regs.index.shows THEN ChangeRenderer(r, kept) ELSE kept
    /\ UNCHANGED <<dac, vram, canvas, title>>

\* Variant: the width of a pixel is not looked at.
AttrKeptOneBit(i, d, r) ==
    CASE i \in {0, 20} -> [kept EXCEPT !.pen = Pen(r)]
      [] i = 16 -> LET shown == IF 0 \in d THEN ChangeRenderer(r, kept) ELSE kept IN
                   IF 7 \in d THEN [shown EXCEPT !.pen = Pen(r)] ELSE shown
      [] i = 19 -> [kept EXCEPT !.panning = Panning(r, kept)]

\* a value; those of the pens and of the mode are kept in another form
AttrKept(i, d, r) ==
    CASE i = 0 -> IF d \cap 0 .. 5 # {} THEN [kept EXCEPT !.pen = Pen(r)] ELSE kept
      [] i = 16 -> LET shown == IF d \cap {0, 6} # {} THEN ChangeRenderer(r, kept) ELSE kept IN
                   IF 7 \in d THEN [shown EXCEPT !.pen = Pen(r)] ELSE shown
      [] i = 19 -> [kept EXCEPT !.panning = Panning(r, kept)]
      [] i = 20 -> IF d \cap 0 .. 3 # {} THEN [kept EXCEPT !.pen = Pen(r)] ELSE kept

WriteAttrData(v) ==
    LET i == regs.index.at
        d == Changed(regs.attr[i], v)
        r == [regs EXCEPT !.attr[i] = v, !.index.data = FALSE] IN
    /\ regs.index.data /\ ~Unimplemented(r)
    /\ i = 19 => Value(v) <= 8
    /\ regs' = r
    /\ kept' = IF d = {} THEN kept ELSE AttrKept(i, d, r)
    /\ UNCHANGED <<dac, vram, canvas, title>>

\* MISC decides at which of two ports the CRT and the status registers are
Answers(port) == (port = "color") = (0 \in regs.misc)

WriteMisc(v) ==
    /\ regs' = [regs EXCEPT !.misc = v]
    /\ UNCHANGED <<kept, dac, vram, canvas, title>>

\* a read of the status resets the flip-flop
ReadStatus(port) ==
    /\ regs' = IF Answers(port) THEN [regs EXCEPT !.index.data = FALSE] ELSE regs
    /\ UNCHANGED <<kept, dac, vram, canvas, title>>

\* the bits of the CRT registers that may be written; bit 7 of the register 0x11
\* protects the first eight of them, in a table that outlives the VGA
CrtReserved == {4, 5}
Writable(i) == IF i <= 7 THEN kept.open[i] ELSE IF i = 17 THEN 0 .. 7 \ CrtReserved ELSE 0 .. 7
Protect(r, k) ==
    LET fill == IF 7 \in r.crt[17] THEN {} ELSE 0 .. 7 IN
    [k EXCEPT !.open = [i \in DOMAIN @ |-> IF i = 7 THEN fill \ {4} ELSE fill]]

CrtKept(i, d, r) ==
    IF i \in {1, 2, 7, 18, 21} \/ (i = 9 /\ 5 \in d) THEN UpdateSize(r, kept)
    ELSE IF i = 17 /\ 7 \in d THEN Protect(r, kept) ELSE kept

WriteCrt(port, i, v) ==
    LET old == regs.crt[i]
        value == (v \cap Writable(i)) \cup (old \ Writable(i))
        r == [regs EXCEPT !.crt[i] = value] IN
    /\ Answers(port) /\ value # old
    /\ regs' = r /\ kept' = CrtKept(i, Changed(old, value), r)
    /\ UNCHANGED <<dac, vram, canvas, title>>

-----------------------------------------------------------------------------
(***************************************************************************)
(* The DAC: three components for each entry, one counter for reads and     *)
(* writes.  A title starts over only after whole entries.                  *)
(***************************************************************************)

Wrapped(entry) == (entry + 1) % Cardinality(Colors)
Whole == dac.color = 0 \/ "abandon" \in title.does

DacReadAddress(entry) ==
    /\ Whole
    /\ dac' = [dac EXCEPT !.reads = entry, !.color = 0]
    /\ UNCHANGED <<regs, kept, vram, canvas, title>>

DacWriteAddress(entry) ==
    /\ Whole
    /\ dac' = [dac EXCEPT !.writes = entry, !.color = 0]
    /\ UNCHANGED <<regs, kept, vram, canvas, title>>

DacWrite(v) ==
    LET entry == [dac.entries[dac.writes] EXCEPT ![dac.color] = v]
        written == [dac EXCEPT !.entries[dac.writes] = entry, !.writing = TRUE] IN
    /\ dac.color = 0 \/ dac.writing
    /\ IF dac.color < 2
       THEN dac' = [written EXCEPT !.color = @ + 1] /\ UNCHANGED kept
       ELSE /\ dac' = [written EXCEPT !.color = 0, !.writes = Wrapped(@)]
            /\ kept' = [kept EXCEPT !.palette[dac.writes] = entry, !.unset = @ \ {dac.writes}]
    /\ UNCHANGED <<regs, vram, canvas, title>>

DacRead ==
    /\ dac.color = 0 \/ ~dac.writing
    /\ dac' = IF dac.color < 2 THEN [dac EXCEPT !.color = @ + 1, !.writing = FALSE]
              ELSE [dac EXCEPT !.color = 0, !.reads = Wrapped(@), !.writing = FALSE]
    /\ UNCHANGED <<regs, kept, vram, canvas, title>>

-----------------------------------------------------------------------------
(***************************************************************************)
(* The memory: memWrite8 and memRead8                                      *)
(***************************************************************************)

Mode == Low2(kept.mode)
Filled(p, planes) == IF p \in planes THEN Full ELSE {}

\* alu_rotate: to the right
Rotated(v) == LET n == Low2(regs.gfx[3]) + Bit(2, regs.gfx[3], 4) IN {(b + 8 * NumBits - n) % NumBits : b \in v \cap Bits}

Data(p, v) ==
    CASE Mode = 0 -> IF p \in regs.gfx[1] THEN Filled(p, regs.gfx[0]) ELSE Rotated(v)
      [] Mode = 1 -> vram.latch[p]
      [] Mode = 2 -> Filled(p, v)
      [] Mode = 3 -> Filled(p, regs.gfx[0])

Operation == regs.gfx[3] \cap {3, 4}
Combined(x, y) ==
    CASE Operation = {} -> x [] Operation = {3} -> x \cap y [] Operation = {4} -> x \cup y [] OTHER -> Changed(x, y)

Mask(v) == (regs.gfx[8] \cap Bits) \cap IF Mode = 3 THEN Rotated(v) ELSE Full

\* the byte that goes to a plane
Stored(p, v) ==
    IF Mode = 1 THEN vram.latch[p]
    ELSE (Combined(Data(p, v), vram.latch[p]) \cap Mask(v)) \cup (vram.latch[p] \ Mask(v))

PlaneAddress(access, a) ==
    CASE access = "chain4" -> a \div NumPlanes [] access = "oddeven" -> a - (a % 2) [] OTHER -> a
WritePlanes(a) ==
    regs.seq[2] \cap CASE kept.write = "chain4" -> {a % NumPlanes}
                       [] kept.write = "oddeven" -> {p \in Planes : p % 2 = a % 2} [] OTHER -> Planes

\* the bytes of the memory after a write
MemWritten(a, v) ==
    [vram EXCEPT !.bytes[PlaneAddress(kept.write, a)] =
        [p \in Planes |-> IF p \in WritePlanes(a) THEN Stored(p, v) ELSE @[p]]]

ReadPlane(a) ==
    CASE kept.read = "chain4" -> a % NumPlanes
      [] kept.read = "oddeven" -> (a % 2) + Bit(1, regs.gfx[4], 2)
      [] OTHER -> Low2(regs.gfx[4])
ByteRead(a) == vram.bytes[PlaneAddress(kept.read, a)][ReadPlane(a)]

\* read mode 1: the bits that have the colour of register 2
Compared ==
    {b \in Bits : \A p \in Planes : (b \in vram.latch[p] /\ p \in regs.gfx[7]) = (p \in regs.gfx[2])}

\* Before the title has chosen a window, accesses are ignored; afterwards it has all
\* planes written.  A title that draws pixels has each address for one, whose colour
\* is the set of the planes with its bit; a title that stores bytes has chosen the
\* same mode for writes and reads, and keeps it.
Opened == "window" \notin kept.fresh /\ regs.seq[2] = Planes
Pixels == Opened /\ "pixels" \in title.does /\ kept.write = "normal"
Linear == Opened /\ "bytes" \in title.does /\ "access" \notin kept.fresh /\ kept.write = kept.read

\* the pixel that is meant: painted over, combined with the one there or copied
Masked(v) == regs.gfx[8] \cap Bits = {} \/ (Mode = 3 /\ v = {})
Paint(v) ==
    CASE Mode = 0 -> {p \in Planes : IF p \in regs.gfx[1] THEN p \in regs.gfx[0] ELSE v # {}}
      [] Mode = 2 -> v [] OTHER -> regs.gfx[0] \cap Planes
Drawn(a, v) ==
    IF Mode = 1 THEN canvas.copy ELSE IF Masked(v) THEN canvas.cell[a] ELSE Combined(Paint(v), canvas.cell[a])

\* a pixel that is combined was read just before; all bits of an address are one pixel
Draws(a, v) ==
    /\ Pixels /\ regs.gfx[8] \cap Bits \in {{}, Bits}
    /\ IF Mode = 2 THEN v \subseteq Planes ELSE v \in {{}, Full}
    /\ CASE Mode = 1 -> canvas.read # {} [] Operation = {} /\ ~Masked(v) -> TRUE [] OTHER -> canvas.read = {a}

Stores(v) ==
    /\ Linear /\ canvas.mode \in {"none", kept.write} /\ v \subseteq Bits
    /\ regs.gfx[1] = {} /\ regs.gfx[3] = {} /\ Bits \subseteq regs.gfx[8]
    /\ Mode = 0 \/ (Mode = 1 /\ canvas.read # {} /\ "latches" \in title.does)

MemWrite(a, v) ==
    /\ Draws(a, v) \/ Stores(v)
    /\ vram' = MemWritten(a, v)
    /\ canvas' = [canvas EXCEPT !.cell[a] = IF Pixels THEN Drawn(a, v) ELSE IF Mode = 1 THEN canvas.copy ELSE v,
                                !.read = IF Mode = 1 THEN @ ELSE @ \ {a},
                                !.mode = kept.write]
    /\ UNCHANGED <<regs, kept, dac, title>>

\* the latches get the double word with the number of the byte
MemRead(a) ==
    /\ Pixels \/ (Linear /\ "latches" \in title.does)
    /\ vram' = [vram EXCEPT !.latch = vram.bytes[a]]
    /\ canvas' = [canvas EXCEPT !.copy = canvas.cell[a], !.read = {a}]
    /\ UNCHANGED <<regs, kept, dac, title>>

-----------------------------------------------------------------------------
\* reset; "fresh" is what it leaves unlike the registers, "unset" the entries of the
\* palette that are black without an alpha
FreshRegs ==
    [seq |-> [i \in SeqIndices |-> {}], gfx |-> [i \in GfxIndices |-> {}], attr |-> [i \in AttrIndices |-> {}],
     crt |-> [i \in CrtIndices |-> {}], misc |-> {0}, index |-> [at |-> 0, shows |-> FALSE, data |-> FALSE]]
FreshKept(open) ==
    [write |-> "chain4", read |-> "chain4", mode |-> {}, window |-> {}, renderer |-> <<"blank", FALSE>>, size |-> <<0, 0>>,
     width |-> 9, map |-> <<0, 0>>, pen |-> {}, panning |-> 0, open |-> open,
     palette |-> [e \in Colors |-> [c \in 0 .. 2 |-> 0]], fresh |-> {"access", "window"}, unset |-> Colors]
FreshDac == [entries |-> [e \in Colors |-> [c \in 0 .. 2 |-> 0]], reads |-> 0, writes |-> 0, color |-> 0, writing |-> FALSE]
FreshVram == [bytes |-> [a \in Addresses |-> [p \in Planes |-> {}]], latch |-> [p \in Planes |-> {}]]

VgaInit ==
    /\ regs = FreshRegs /\ kept = FreshKept([i \in {1, 2, 7} |-> 0 .. 7]) /\ dac = FreshDac /\ vram = FreshVram
    /\ canvas = [cell |-> [a \in Addresses |-> {}], copy |-> {}, read |-> {}, mode |-> "none"]

\* the next console
NewVga ==
    /\ "consoles" \in title.does
    /\ regs' = FreshRegs /\ kept' = FreshKept(kept.open) /\ dac' = FreshDac
    /\ UNCHANGED <<vram, canvas, title>>

VgaNext ==
    \/ \E i \in DOMAIN title.seq : \E v \in SUBSET title.seq[i] : WriteSeq(i, v)
    \/ \E i \in DOMAIN title.gfx : \E v \in SUBSET title.gfx[i] : WriteGfx(i, v)
    \/ \E i \in DOMAIN title.attr, shows \in BOOLEAN : WriteAttrIndex(i, shows)
    \/ regs.index.at \in DOMAIN title.attr /\ \E v \in SUBSET title.attr[regs.index.at] : WriteAttrData(v)
    \/ \E i \in DOMAIN title.crt, port \in {"mono", "color"} : \E v \in SUBSET title.crt[i] : WriteCrt(port, i, v)
    \/ "status" \in title.does /\ ((\E v \in {{}, {0}} : WriteMisc(v)) \/ \E port \in {"mono", "color"} : ReadStatus(port))
    \/ "dac" \in title.does /\ \/ \E e \in Colors : DacReadAddress(e) \/ DacWriteAddress(e)
                               \/ \E v \in {0, 1} : DacWrite(v)
                               \/ DacRead
    \/ \E a \in Addresses : MemRead(a) \/ \E v \in SUBSET (Planes \cup Bits) : MemWrite(a, v)
    \/ NewVga

-----------------------------------------------------------------------------
\* Whatever the order of the writes, what is kept of the registers is what they mean:
\* the access modes, the window, the renderer, the size, the fonts, the pens, and which
\* registers are protected.  Right after a reset the modes and the window are not,
\* and with a second console neither is the protection.
VgaFollows ==
    /\ "access" \notin kept.fresh =>
         kept.write = WriteAccess(regs) /\ kept.read = ReadAccess(regs) /\ kept.mode = regs.gfx[5] \cap {0, 1}
    /\ "window" \notin kept.fresh => kept.window = regs.gfx[6] \cap {2, 3}
    /\ kept.renderer = Renderer(regs) /\ kept.width = CharWidth(regs) /\ kept.size = Size(regs, kept.width)
    /\ kept.map = CharMap(regs) /\ kept.pen = Pen(regs)
    /\ "consoles" \notin title.does => \A i \in {1, 2} : kept.open[i] = IF 7 \in regs.crt[17] THEN {} ELSE 0 .. 7

\* An entry of the palette is what the DAC holds, but for the one that is just being
\* written.  A title that starts over in the middle of an entry refutes it.
PaletteFollows ==
    "abandon" \notin title.does => \A e \in Colors \ kept.unset :
        (e = dac.writes /\ dac.color > 0 /\ dac.writing) \/ kept.palette[e] = dac.entries[e]

\* The planes of the memory hold the pixels that were drawn and the bytes that were
\* stored, in whichever way: the latches bring a pixel unharmed through a write that
\* masks it or combines it.  A copy with the latches refutes it for bytes.
MemoryAsMeant ==
    /\ Pixels => \A a \in Addresses : canvas.cell[a] = {p \in Planes : vram.bytes[a][p] = Full}
    /\ Linear /\ canvas.mode = kept.write /\ "latches" \notin title.does =>
         \A a \in Addresses : ByteRead(a) = canvas.cell[a]

\* Refuted: the panning follows the mode and the width of characters.
PanningFollows == kept.panning = Panning(regs, kept)

\* Refuted: a plane that is not to be looked at does not change the comparison.
CompareIgnores == Compared = {b \in Bits : \A p \in regs.gfx[7] : (b \in vram.latch[p]) = (p \in regs.gfx[2])}
=============================================================================
