-------------------------------- MODULE Smbus ---------------------------------
(***************************************************************************)
(* The SMBus host (smbus.cpp) and its devices: the EEPROM with its file    *)
(* (eeprom.cpp), the system management controller (smc.cpp), the           *)
(* thermometer (adm1032.cpp) and the video encoder (video/conexant.cpp).   *)
(*                                                                         *)
(* A cycle runs to its end in the write that starts it.  Only the commands *)
(* the devices handle are sent: any other ends the emulation.              *)
(***************************************************************************)
EXTENDS Naturals, Sequences

CONSTANTS
    Cells,     \* bytes of the EEPROM and of the encoder's registers
    Ring,      \* bytes of m_block_data
    Bytes,     \* values of a byte
    Counts,    \* how many bytes a block transfer asks for
    SmbusUses  \* what the title does: one of these sets of words

ASSUME SmbusAssumption ==
    /\ Cells \in Nat \ {0} /\ Ring \in Nat \ {0} /\ Bytes \subseteq Nat /\ 0 \in Bytes /\ Counts \subseteq Nat
    /\ \A u \in SmbusUses : u \subseteq {"cells", "blocks", "manage", "session", "loose", "partial"}

VARIABLES
    bus,   \* m_regs, m_block_data and m_block_off
    chips, \* the members of the devices, the EEPROM's file and the tray
    meant, \* what the title means the EEPROM and its file to hold (history)
    sent,  \* the bytes of the FIFO the title wrote since anything else used it (history)
    wants  \* what the title does

svars == <<bus, chips, meant, sent, wants>>

Statuses == {"ABRT", "PRERR", "HCYC"}
Targets == {"eeprom", "smc", "adm1032", "conexant", "none"}
Memories == {"eeprom", "conexant"}

\* registers of the controller
VERSION_STR == 1
TRAY_STATE == 3
FAN_MODE == 5
FAN_SPEED == 6
LED_OVERRIDE == 7
LED_STATES == 8
CPU_TEMPERATURE == 9
MB_TEMPERATURE == 10
READ_FAN_SPEED == 16
SolidGreen == 15
MaxSpeed == 50

BusInit ==
    [type |-> 0, en |-> FALSE, gs |-> {}, target |-> "eeprom", read |-> FALSE, command |-> 0, data0 |-> 0, data1 |-> 0,
     block |-> [i \in 0 .. Ring - 1 |-> 0], off |-> 0, line |-> FALSE]

SmcInit == [mode |-> 0, speed |-> 0, override |-> 0, led |-> SolidGreen, version |-> 1]
Blank == [c \in 0 .. Cells - 1 |-> 0]

-----------------------------------------------------------------------------
(***************************************************************************)
(* The devices                                                             *)
(***************************************************************************)

\* smc::write_byte of the values w to their commands, from the lowest on
SmcWritten(s, w) ==
    LET Has(c) == c \in DOMAIN w IN
    [mode |-> IF Has(FAN_MODE) THEN w[FAN_MODE] % 2 ELSE s.mode,
     speed |-> IF Has(FAN_SPEED) /\ w[FAN_SPEED] <= MaxSpeed THEN w[FAN_SPEED] ELSE s.speed,
     override |-> IF Has(LED_OVERRIDE) THEN w[LED_OVERRIDE] % 2 ELSE s.override,
     led |-> IF Has(LED_STATES) THEN w[LED_STATES]
             ELSE IF Has(LED_OVERRIDE) /\ w[LED_OVERRIDE] % 2 = 0 THEN SolidGreen ELSE s.led,
     version |-> IF Has(VERSION_STR) /\ w[VERSION_STR] = 0 THEN 1 ELSE s.version]

\* adm1032::read_byte
Temperature(command) == IF command = 0 THEN 40 ELSE 45

\* smc::read_byte: the answer, and the controller afterwards
SmcByte(command) ==
    CASE command = VERSION_STR -> chips.smc.version
      [] command = TRAY_STATE -> chips.tray
      [] command = CPU_TEMPERATURE -> Temperature(1)
      [] command = MB_TEMPERATURE -> Temperature(0)
      [] command = READ_FAN_SPEED -> IF chips.smc.mode = 1 THEN chips.smc.speed ELSE 0

SmcRead(s, commands) == [s EXCEPT !.version = IF VERSION_STR \in commands THEN 1 + (@ % 3) ELSE @]

SmcReads == {VERSION_STR, TRAY_STATE, CPU_TEMPERATURE, MB_TEMPERATURE, READ_FAN_SPEED}
SmcWrites == {VERSION_STR, FAN_MODE, FAN_SPEED, LED_OVERRIDE, LED_STATES}

-----------------------------------------------------------------------------
(***************************************************************************)
(* Cycles: start_cycle and end_cycle                                       *)
(***************************************************************************)

Begun(b, status) == [b EXCEPT !.gs = @ \cup {status}]
Index(i) == (i + Ring) % Ring

\* Variant: the bytes are taken from the oldest on.
SentFromNext(i, n) == bus.block[Index(bus.off + i)]

\* the i-th of the n bytes of a block that was written before the cycle
SentBefore(i, n) == bus.block[Index(bus.off + Ring - n + i)]

Bounded(n) == IF n > Ring THEN Ring ELSE n
InBlock(c, n) == c >= bus.command /\ c < bus.command + n

\* the byte that a device answers to the i-th command of a block; those of the memories
\* wrap like bytes do
BlockAnswer(b, i) ==
    CASE b.target \in Memories -> chips[b.target][(b.command + i) % Cells]
      [] b.target = "smc" -> SmcByte(b.command + i)
      [] b.target = "adm1032" -> Temperature(b.command + i)

BlockRead(b, n) ==
    /\ bus' = [Begun(b, "HCYC") EXCEPT !.block =
                 [i \in 0 .. Ring - 1 |-> IF Index(i + Ring - b.off) < n THEN BlockAnswer(b, Index(i + Ring - b.off)) ELSE @[i]]]
    /\ chips' = IF b.target # "smc" THEN chips
                ELSE [chips EXCEPT !.smc = SmcRead(@, {c \in SmcReads : InBlock(c, n)})]
    /\ sent' = <<>> /\ UNCHANGED meant

\* which of the bytes of a block goes to a command of a memory
Part(b, c) == (c + Cells - b.command) % Cells

BlockWritten(b, n) ==
    /\ bus' = Begun(b, "HCYC")
    /\ chips' = CASE b.target \in Memories ->
                      [chips EXCEPT ![b.target] = [c \in 0 .. Cells - 1 |-> IF Part(b, c) < n THEN SentBefore(Part(b, c), n) ELSE @[c]]]
                  [] b.target = "smc" ->
                      [chips EXCEPT !.smc = SmcWritten(@, [c \in {x \in SmcWrites : InBlock(x, n)} |-> SentBefore(c - b.command, n)])]
                  [] b.target = "adm1032" -> chips
    /\ meant' = IF b.target # "eeprom" THEN meant
                ELSE IF Len(sent) < n THEN [meant EXCEPT !.cells = chips'.eeprom]
                ELSE [meant EXCEPT !.cells = [c \in 0 .. Cells - 1 |-> IF Part(b, c) < n THEN sent[Len(sent) - n + 1 + Part(b, c)] ELSE @[c]]]
    /\ UNCHANGED sent

BlockCycle(b) == IF b.read THEN BlockRead(b, Bounded(b.data0)) ELSE BlockWritten(b, Bounded(b.data0))

\* a byte or a word, which the memories store low byte first
MemoryCycle(b) ==
    LET memory == chips[b.target]
        width == b.type - 1
        value(c) == IF c = b.command THEN b.data0 ELSE b.data1
        written == [c \in 0 .. Cells - 1 |-> IF InBlock(c, width) THEN value(c) ELSE memory[c]] IN
    /\ bus' = IF ~b.read THEN Begun(b, "HCYC")
              ELSE [Begun(b, "HCYC") EXCEPT !.data0 = memory[b.command], !.data1 = IF width = 2 THEN memory[b.command + 1] ELSE @]
    /\ chips' = IF b.read THEN chips ELSE [chips EXCEPT ![b.target] = written]
    /\ meant' = IF b.read \/ b.target # "eeprom" THEN meant
                ELSE [meant EXCEPT !.cells[b.command] = b.data0, !.cells[b.command + width - 1] = IF width = 2 THEN b.data1 ELSE b.data0]
    /\ UNCHANGED sent

SmcCycle(b) ==
    /\ UNCHANGED <<meant, sent>>
    /\ IF b.read
       THEN /\ bus' = [Begun(b, "HCYC") EXCEPT !.data0 = SmcByte(b.command)]
            /\ chips' = [chips EXCEPT !.smc = SmcRead(@, {b.command})]
       ELSE bus' = Begun(b, "HCYC") /\ chips' = [chips EXCEPT !.smc = SmcWritten(@, [c \in {b.command} |-> b.data0])]

\* a command the device does not know (smbus_device), or no device at all
Refused(b) ==
    /\ bus' = [Begun(b, "PRERR") EXCEPT !.block = IF b.type = 5 /\ b.target # "none" THEN [i \in 0 .. Ring - 1 |-> 0] ELSE @]
    /\ sent' = IF b.type = 5 /\ b.target # "none" THEN <<>> ELSE sent
    /\ UNCHANGED <<chips, meant>>

\* which commands the devices implement, a block being as many bytes; the encoder
\* ignores the short ones
Knows(target, type, read) ==
    CASE target = "eeprom" -> type \in {2, 3, 5} [] target = "conexant" -> type \in {0, 1, 2, 3, 5}
      [] target = "smc" -> type \in {2, 5} [] target = "adm1032" -> type \in {2, 5} /\ read [] target = "none" -> FALSE

\* a block of no bytes asks nothing of a device that exists
Succeeds(b) == Knows(b.target, b.type, b.read) \/ (b.type = 5 /\ b.data0 = 0 /\ b.target # "none")

\* start_cycle
Cycle(b) ==
    IF ~Succeeds(b) THEN Refused(b)
    ELSE IF b.type \in {0, 1}
    THEN bus' = [Begun(b, "HCYC") EXCEPT !.data0 = IF b.type = 1 /\ b.read THEN 0 ELSE @] /\ UNCHANGED <<chips, meant, sent>>
    ELSE IF b.type = 5 THEN BlockCycle(b)
    ELSE IF b.target = "smc" THEN SmcCycle(b)
    ELSE IF b.target = "adm1032"
    THEN bus' = [Begun(b, "HCYC") EXCEPT !.data0 = Temperature(b.command)] /\ UNCHANGED <<chips, meant, sent>>
    ELSE MemoryCycle(b)

-----------------------------------------------------------------------------
(***************************************************************************)
(* The title's accesses                                                    *)
(***************************************************************************)

\* write8 of STATUS
Cleared(clear) ==
    [bus EXCEPT !.gs = @ \ clear, !.line = IF bus.en /\ clear \cap bus.gs # {} THEN FALSE ELSE @]

WriteStatus(clear) ==
    /\ clear = Statuses \/ "partial" \in wants
    /\ bus' = Cleared(clear)
    /\ UNCHANGED <<chips, meant, sent, wants>>

\* write8 of CONTROL: enabled interrupts raise the line after a cycle and without one
Raised(b) == [b EXCEPT !.line = b.en \/ @]

Control(type, en) == Raised([bus EXCEPT !.type = type, !.en = en])

WriteControl(type, en, start) ==
    /\ start \/ "loose" \in wants
    /\ en \/ "loose" \in wants
    /\ IF start THEN Cycle(Control(type, en)) ELSE bus' = Control(type, en) /\ UNCHANGED <<chips, meant, sent>>
    /\ UNCHANGED wants

Abort(en) ==
    /\ "loose" \in wants
    /\ bus' = Begun(Control(bus.type, en), "ABRT")
    /\ UNCHANGED <<chips, meant, sent, wants>>

\* write8 of ADDRESS, COMMAND, DATA0 and DATA1
Address(target, read) ==
    /\ bus' = [bus EXCEPT !.target = target, !.read = read, !.command = 0]
    /\ UNCHANGED <<chips, meant, sent, wants>>

Arguments(command, data0, data1) ==
    /\ bus' = [bus EXCEPT !.command = command, !.data0 = data0, !.data1 = data1]
    /\ UNCHANGED <<chips, meant, sent, wants>>

\* write8 and read8 of the FIFO: one offset for both directions
LastSent(s) == IF Len(s) > Ring THEN Tail(s) ELSE s
WriteFifo(byte) ==
    /\ bus' = [bus EXCEPT !.block[bus.off] = byte, !.off = (@ + 1) % Ring]
    /\ sent' = LastSent(Append(sent, byte))
    /\ UNCHANGED <<chips, meant, wants>>

ReadFifo ==
    /\ bus' = [bus EXCEPT !.off = (@ + 1) % Ring]
    /\ sent' = <<>>
    /\ UNCHANGED <<chips, meant, wants>>

\* console::update_tray_state, from another thread
TrayMoves(state) ==
    /\ "manage" \in wants
    /\ chips' = [chips EXCEPT !.tray = state]
    /\ UNCHANGED <<bus, meant, sent, wants>>

\* smbus::deinit writes the EEPROM's file; a process that is killed does not.  The
\* next console reads it.
NextSession(file, cells) ==
    /\ "session" \in wants
    /\ bus' = BusInit /\ sent' = <<>>
    /\ chips' = [eeprom |-> file, conexant |-> Blank, smc |-> SmcInit, tray |-> 1, file |-> file]
    /\ meant' = [cells |-> cells, file |-> cells]
    /\ UNCHANGED wants
Restart == NextSession(chips.eeprom, meant.cells)
Kill == NextSession(chips.file, meant.file)

SmcCommands == IF bus.read THEN SmcReads ELSE SmcWrites

\* values of the controller's registers, or how many bytes a block has
Amounts == IF "blocks" \in wants THEN Counts ELSE {0, 1, MaxSpeed + 1}

\* the title's arguments fit the device
TitleArguments ==
    \/ /\ wants \cap {"cells", "blocks"} # {} /\ bus.target \in Memories
       /\ \E command \in 0 .. Cells - 1, data0 \in IF "blocks" \in wants THEN Counts ELSE Bytes, data1 \in Bytes :
            Arguments(command, data0, IF "blocks" \in wants THEN 0 ELSE data1)
    \/ /\ "manage" \in wants /\ bus.target = "smc"
       /\ \E command \in SmcCommands, data0 \in Amounts :
            (data0 > MaxSpeed => command = FAN_SPEED) /\ Arguments(command, data0, 0)
    \/ "manage" \in wants /\ bus.target = "adm1032" /\ \E command \in {0, 1}, data0 \in Amounts : Arguments(command, data0, 0)

Reach == IF "manage" \in wants THEN {"smc", "adm1032", "none"} ELSE IF "blocks" \in wants THEN {"eeprom", "adm1032"} ELSE {"eeprom", "conexant"}
Types == IF "blocks" \in wants THEN {5} ELSE IF "manage" \in wants THEN {2, 3} ELSE {1, 2, 3}

SmbusInit ==
    /\ bus = BusInit /\ sent = <<>>
    /\ chips = [eeprom |-> Blank, conexant |-> Blank, smc |-> SmcInit, tray |-> 1, file |-> Blank]
    /\ meant = [cells |-> Blank, file |-> Blank]

\* the controller knows some commands only, the thermometer two, and there is no byte
\* behind the last command of a memory for a word
Sensible(type) ==
    /\ bus.target = "smc" /\ type \in {2, 5} =>
           \A i \in 0 .. Ring - 1 : i < (IF type = 2 THEN 1 ELSE bus.data0) => bus.command + i \in SmcCommands
    /\ bus.target = "adm1032" /\ type = 5 /\ bus.read => bus.command + bus.data0 <= 2
    /\ [bus EXCEPT !.type = type].type = 3 => bus.command + 1 < Cells \/ bus.target \notin Memories

\* A title that moves the blocks of the controller and of the thermometer leaves the
\* FIFO alone.
SmbusNext ==
    \/ \E clear \in SUBSET Statuses : WriteStatus(clear)
    \/ \E type \in Types, en, start \in BOOLEAN : Sensible(type) /\ WriteControl(type, en, start)
    \/ \E en \in BOOLEAN : Abort(en)
    \/ \E target \in Reach, read \in BOOLEAN : Address(target, read)
    \/ TitleArguments
    \/ "blocks" \in wants /\ "manage" \notin wants /\ ((\E byte \in Bytes : WriteFifo(byte)) \/ ReadFifo)
    \/ \E state \in {0, 1} : TrayMoves(state)
    \/ Restart \/ Kill

-----------------------------------------------------------------------------
\* The EEPROM holds the bytes the title meant to store: those of a block are the
\* last ones it wrote to the FIFO, wherever the ring's offset stood, and a session
\* that is killed takes all its changes with it.
EepromAsMeant == chips.eeprom = meant.cells /\ chips.file = meant.file

\* The title is not interrupted without a status, and it is interrupted exactly while
\* one is set if it clears all of them in one write: clearing one of the statuses
\* that two cycles left lowers the line with the other one still set.  A title that
\* writes CONTROL for anything but a cycle refutes both.
SmbusLineFollows ==
    "loose" \notin wants =>
        /\ bus.line => bus.gs # {}
        /\ "partial" \notin wants => bus.line = (bus.gs # {})
=============================================================================
