-------------------------------- MODULE Windows --------------------------------
(***************************************************************************)
(* The windows through which the title sees the configuration space of the *)
(* GPU and the instance memory: the ports of the PCI bus (pci.cpp), the    *)
(* copy of the space in PBUS (gpu/pbus.cpp), PRAMIN (gpu/pramin.cpp) and   *)
(* the byte order of the registers (PMC BOOT_1, gpu/pmc.cpp).              *)
(*                                                                         *)
(* The only device on the bus is the GPU, at bus 1, device 0.  Its write   *)
(* callback lets every write pass.                                         *)
(***************************************************************************)
EXTENDS Naturals, Sequences

CONSTANTS
    Dwords,      \* double words of the configuration space
    Units,       \* blocks of the instance memory, which is all of the RAM here
    UnitSize,    \* RAMIN_UNIT_SIZE
    Contents,    \* values of a byte
    WindowTitles \* what the title does: one of these sets of words

\* a title writes the address at once or by halves, not both
ASSUME WindowsAssumption ==
    /\ Dwords \in 1 .. 32 /\ Units \in Nat \ {0} /\ UnitSize \in Nat \ {0} /\ UnitSize % 4 = 0
    /\ Contents \subseteq 0 .. 255 /\ 0 \in Contents
    /\ \A w \in WindowTitles : w \subseteq {"ports", "mmio", "ramin", "order", "halves"} /\ ~({"ports", "halves"} \subseteq w)

VARIABLES
    port,   \* configuration_address_register, by bytes; configuration_cycle is its bit 31
    space,  \* the configuration space and the RAM
    order,  \* m_endianness: is the GPU big endian?
    aim,    \* the double word the title means to reach through the ports (history)
    ideal,  \* what it means the space, the RAM and the order to be (history)
    through \* what the title does

wvars == <<port, space, order, aim, ideal, through>>

ConfigBytes == 0 .. 4 * Dwords - 1
RamSize == Units * UnitSize
Gpu == <<0, 1>>  \* device and function, bus

-----------------------------------------------------------------------------
\* the bits of the address that are not reserved
Clean(lane, v) == CASE lane = 0 -> v - (v % 4) [] lane = 3 -> v - (v % 128) [] OTHER -> v

\* write8, of the ports 0 to 3 of the address and 4 to 7 of the data.  Wider accesses
\* are several of these.
Lane(q) == q % 4
WriteByte(s, q, v) ==
    IF q < 4 THEN [s EXCEPT !.port[q] = Clean(q, v)]
    ELSE IF s.port[3] >= 128 /\ <<s.port[1], s.port[2]>> = Gpu /\ s.port[0] + Lane(q) \in ConfigBytes
    THEN [s EXCEPT !.config[s.port[0] + Lane(q)] = v] ELSE s

State == [port |-> port, config |-> space.config]
WriteBytes(q, bytes) ==
    LET first == WriteByte(State, q, bytes[1])
        second == IF Len(bytes) = 1 THEN first ELSE WriteByte(first, q + 1, bytes[2])
        third == IF Len(bytes) < 4 THEN second ELSE WriteByte(second, q + 2, bytes[3]) IN
    IF Len(bytes) < 4 THEN third ELSE WriteByte(third, q + 3, bytes[4])

\* write8, write16 and write32
PortWrite(q, bytes) ==
    \E s \in {WriteBytes(q, bytes)} :
        /\ port' = s.port /\ space' = [space EXCEPT !.config = s.config]
        /\ UNCHANGED <<order, through>>

\* the title chooses a double word, at once or with 16 bit accesses, its enable bit last
Choose(target, dword, reserved) ==
    /\ "ports" \in through
    /\ PortWrite(0, <<4 * dword + reserved, target[1], target[2], 128 + reserved>>)
    /\ aim' = IF target = Gpu THEN dword ELSE Dwords
    /\ UNCHANGED ideal
ChooseHalf(upper, dword) ==
    /\ "halves" \in through
    /\ IF upper THEN PortWrite(2, <<Gpu[2], 128>>) ELSE PortWrite(0, <<4 * dword, Gpu[1]>>)
    /\ aim' = IF upper THEN port[0] \div 4 ELSE Dwords
    /\ UNCHANGED ideal

\* and accesses a part of it; of the address it writes no more meanwhile
PortData(lane, bytes) ==
    /\ "ports" \in through \/ ("halves" \in through /\ aim # Dwords)
    /\ PortWrite(4 + lane, bytes)
    /\ ideal' = IF aim = Dwords THEN ideal
                ELSE [ideal EXCEPT !.config = [c \in ConfigBytes |->
                        IF c \div 4 = aim /\ c % 4 \in lane .. lane + Len(bytes) - 1 THEN bytes[(c % 4) - lane + 1] ELSE @[c]]]
    /\ UNCHANGED aim

-----------------------------------------------------------------------------
\* nv2a_write: the bytes of a value as the engines see them
Swapped(bytes) == IF order THEN [i \in DOMAIN bytes |-> bytes[Len(bytes) + 1 - i]] ELSE bytes

\* pciWrite32
PbusWrite(dword, bytes) ==
    /\ "mmio" \in through
    /\ space' = [space EXCEPT !.config = [c \in ConfigBytes |-> IF c \div 4 = dword THEN Swapped(bytes)[(c % 4) + 1] ELSE @[c]]]
    /\ ideal' = [ideal EXCEPT !.config = [c \in ConfigBytes |->
                   IF c \div 4 # dword THEN @[c] ELSE IF ideal.order THEN bytes[4 - (c % 4)] ELSE bytes[(c % 4) + 1]]]
    /\ UNCHANGED <<port, order, aim, through>>

\* ramin_to_ram_addr: the blocks are in reverse order
RaminToRam(a) == RamSize - (a - (a % UnitSize)) - UnitSize + (a % UnitSize)

\* pramin::write, of a double word that does not cross a block, and a write of the CPU
\* to the RAM
RaminWrite(a, bytes) ==
    /\ "ramin" \in through /\ a % 4 = 0
    /\ space' = [space EXCEPT !.ram = [r \in 0 .. RamSize - 1 |->
                    IF r \in RaminToRam(a) .. RaminToRam(a) + 3 THEN Swapped(bytes)[r - RaminToRam(a) + 1] ELSE @[r]]]
    /\ ideal' = [ideal EXCEPT !.ramin = [m \in 0 .. RamSize - 1 |->
                    IF m \div 4 # a \div 4 THEN @[m] ELSE IF ideal.order THEN bytes[4 - (m % 4)] ELSE bytes[(m % 4) + 1]]]
    /\ UNCHANGED <<port, order, aim, through>>

RamWrite(unit, i, v) ==
    /\ "ramin" \in through
    /\ space' = [space EXCEPT !.ram[unit * UnitSize + i] = v]
    /\ ideal' = [ideal EXCEPT !.ramin[(Units - 1 - unit) * UnitSize + i] = v]
    /\ UNCHANGED <<port, order, aim, through>>

\* BOOT_1: of the value the title writes, its own bits 24 and 0 choose the order; a
\* title sets both or none
WriteBoot1(bit24, bit0) ==
    /\ "order" \in through /\ bit24 = bit0
    /\ order' = IF order THEN ~bit0 ELSE ~bit24
    /\ ideal' = [ideal EXCEPT !.order = ~bit24]
    /\ UNCHANGED <<port, space, aim, through>>

-----------------------------------------------------------------------------
WindowsInit ==
    /\ port = [q \in 0 .. 3 |-> 0] /\ order = FALSE /\ aim = Dwords
    /\ space = [config |-> [c \in ConfigBytes |-> 0], ram |-> [r \in 0 .. RamSize - 1 |-> 0]]
    /\ ideal = [config |-> [c \in ConfigBytes |-> 0], ramin |-> [r \in 0 .. RamSize - 1 |-> 0], order |-> FALSE]

Quads == [1 .. 4 -> Contents]
WindowsNext ==
    \/ \E target \in {Gpu, <<8, 1>>, <<0, 0>>}, dword \in 0 .. Dwords - 1, reserved \in {0, 2} : Choose(target, dword, reserved)
    \/ \E upper \in BOOLEAN, dword \in 0 .. Dwords - 1 : ChooseHalf(upper, dword)
    \/ \E lane \in 0 .. 3, v \in Contents : PortData(lane, <<v>>)
    \/ \E lane \in {0, 2}, v, w \in Contents : PortData(lane, <<v, w>>)
    \/ \E bytes \in Quads : PortData(0, bytes)
    \/ \E dword \in 0 .. Dwords - 1, bytes \in Quads : PbusWrite(dword, bytes)
    \/ \E a \in 0 .. RamSize - 1, bytes \in Quads : RaminWrite(a, bytes)
    \/ \E unit \in 0 .. Units - 1, i \in 0 .. UnitSize - 1, v \in Contents : RamWrite(unit, i, v)
    \/ \E bit24, bit0 \in BOOLEAN : WriteBoot1(bit24, bit0)

\* Whichever window and byte order a title uses, and in parts of whatever width, the
\* configuration space and the instance memory hold what it meant to write there.
WindowsAgree ==
    /\ order = ideal.order
    /\ space.config = ideal.config
    /\ \A unit \in 0 .. Units - 1, i \in 0 .. UnitSize - 1 :
         space.ram[unit * UnitSize + i] = ideal.ramin[(Units - 1 - unit) * UnitSize + i]
=============================================================================
