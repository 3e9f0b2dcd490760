----------------------------- MODULE PicProofs ------------------------------
(***************************************************************************)
(* For every number of lines, every set of devices, masks and trigger      *)
(* modes, the controllers only hold requests that are asserted, forget no  *)
(* deliverable request but in the three listed ways, and send the one with *)
(* the highest priority.                                                   *)
(*                                                                         *)
(* The invariants of the runs are inductive when they are taken together:  *)
(* an acknowledge may lower the CPU line because, by SendsHighest, what it *)
(* puts in service blocks everything else that could be delivered.         *)
(* Acknowledges nest because what they may take was chosen when the CPU    *)
(* line, or the announcement of the slave, went up, and only they put      *)
(* lines in service.                                                       *)
(***************************************************************************)
EXTENDS Pic, WellFoundedInduction, TLAPS

PicInv == TypeOK /\ PendingIsAsserted /\ NothingForgotten /\ SendsHighest

-----------------------------------------------------------------------------
(***************************************************************************)
(* Priorities                                                              *)
(***************************************************************************)

\* The rank of a line is a distance within the controller.
LEMMA RankType ==
    ASSUME NEW p \in Chip, NEW i \in Lines
    PROVE  Rank(p, i) \in Nat
<1>1. i \in Nat /\ p.base \in Nat /\ i < Width /\ p.base < Width
  BY WidthAssumption DEF Chip, Lines
<1> QED BY <1>1, WidthAssumption DEF Rank

\* The loop of updateState finds a line: a set of lines has a highest priority.
LEMMA HighestExists ==
    ASSUME NEW p \in Chip, NEW S \in SUBSET Lines, S # {}
    PROVE  Highest(p, S) \in S /\ \A j \in S : Rank(p, Highest(p, S)) <= Rank(p, j)
<1> DEFINE T == {Rank(p, i) : i \in S}
<1>1. T \in SUBSET Nat /\ T # {} BY RankType
<1>2. \E x \in T : \A y \in T : <<y, x>> \notin OpToRel(<, Nat)
  BY <1>1, NatLessThanWellFounded, WFMin, Zenon
<1>3. PICK x \in T : \A y \in T : <<y, x>> \notin OpToRel(<, Nat) BY <1>2
<1>4. \A y \in T : x <= y
  <2> TAKE y \in T
  <2>1. x \in Nat /\ y \in Nat BY <1>1
  <2>2. ~(y < x) BY <1>3, <2>1 DEF OpToRel
  <2> QED BY <2>1, <2>2
<1>5. \E i \in S : \A j \in S : Rank(p, i) <= Rank(p, j) BY <1>4
<1> QED BY <1>5, Zenon DEF Highest

\* What updateState leaves in a controller: the same requests, and the line to
\* send is the one with the highest priority.
LEMMA UpdatedFacts ==
    ASSUME NEW p \in Chip
    PROVE  LET q == Updated(p) IN
           /\ q \in Chip
           /\ q.irr = p.irr /\ q.pin = p.pin /\ q.inInit = p.inInit /\ q.icw = p.icw
           /\ Deliverable(q) = Deliverable(p)
           /\ Deliverable(q) # {} =>
                q.send \in Deliverable(q) /\ \A j \in Deliverable(q) : Rank(q, q.send) <= Rank(q, j)
<1>1. Deliverable(p) \in SUBSET Lines BY DEF Deliverable, Chip
<1>2. CASE Deliverable(p) = {}
  BY <1>2 DEF Updated
<1>3. CASE Deliverable(p) # {}
  <2> DEFINE h == Highest(p, Deliverable(p))
             q == [p EXCEPT !.send = h]
  <2>1. h \in Deliverable(p) /\ \A j \in Deliverable(p) : Rank(p, h) <= Rank(p, j)
    BY <1>1, <1>3, HighestExists
  <2>2. h \in Lines BY <1>1, <2>1
  <2> HIDE DEF h
  <2>3. /\ q \in Chip /\ q.send = h
        /\ q.irr = p.irr /\ q.imr = p.imr /\ q.isr = p.isr /\ q.pin = p.pin /\ q.base = p.base
        /\ q.inInit = p.inInit /\ q.icw = p.icw
    BY <2>2 DEF Chip
  <2>4. \A i \in Lines : Rank(q, i) = Rank(p, i) BY <2>3 DEF Rank
  <2> HIDE DEF q
  <2>5. Deliverable(q) = Deliverable(p)
    BY <2>3 DEF Deliverable, Rank
  <2>6. Updated(p) = q BY <1>3 DEF Updated, q, h
  <2>7. \A j \in Deliverable(q) : Rank(q, q.send) <= Rank(q, j)
    BY <2>1, <2>2, <2>3, <2>4, <2>5, <1>1
  <2> QED BY <2>1, <2>3, <2>5, <2>6, <2>7
<1> QED BY <1>2, <1>3

\* The slave's announcement is a request of the master.
LEMMA AnnouncedFacts ==
    ASSUME NEW m \in Chip, m.irr \subseteq m.pin
    PROVE  LET q == Announced(m) IN
           q \in Chip /\ q.irr \subseteq q.pin /\ Cascade \in q.irr /\ q.inInit = m.inInit /\ q.icw = m.icw
<1>1. Cascade \in Lines BY WidthAssumption DEF Lines, Cascade
<1> QED BY <1>1 DEF Announced, Raised, Lowered, Chip

-----------------------------------------------------------------------------
(***************************************************************************)
(* The inductive invariant                                                 *)
(***************************************************************************)

\* what the invariant says of the registers of one controller
ChipOK(p) == p \in Chip /\ p.irr \subseteq p.pin /\ (p.inInit => p.icw \in {2, 3, 4})
SendOK(p) == Deliverable(p) # {} /\ Genuine(p)
                => p.send \in Deliverable(p) /\ \A j \in Deliverable(p) : Rank(p, p.send) <= Rank(p, j)

\* what it says of the two together, with the CPU line and the history
Known(m, s, line, why) ==
    /\ Deliverable(m) # {} => line \/ why["master"]
    /\ Deliverable(s) # {} => Cascade \in m.irr \/ why["slave"]

PairInv(m, s, line, why) ==
    /\ ChipOK(m) /\ ChipOK(s) /\ line \in BOOLEAN /\ why \in [Chips -> BOOLEAN]
    /\ ~why["master"] => SendOK(m)
    /\ ~why["slave"] => SendOK(s)
    /\ Known(m, s, line, why)

LEMMA InvParts ==
    PicInv <=> pic \in [Chips -> Chip] /\ PairInv(pic["master"], pic["slave"], intLine, stale)
BY DEF PicInv, TypeOK, PendingIsAsserted, SendsHighest, NothingForgotten, PairInv, ChipOK, SendOK, Known,
       Chips

\* the same for the next state
LEMMA InvPartsNext ==
    ASSUME NEW m, NEW s, pic' = [x \in Chips |-> IF x = "master" THEN m ELSE s],
           PairInv(m, s, intLine', stale')
    PROVE  PicInv'
<1>1. pic'["master"] = m /\ pic'["slave"] = s BY DEF Chips
<1>2. pic' \in [Chips -> Chip] BY DEF Chips, PairInv, ChipOK
<1> QED BY <1>1, <1>2
      DEF PicInv, TypeOK, PendingIsAsserted, SendsHighest, NothingForgotten, PairInv, ChipOK, SendOK, Known,
          Chips

\* changing one controller, written as the pair
LEMMA ExceptIsPair ==
    ASSUME pic \in [Chips -> Chip], NEW p
    PROVE  /\ [pic EXCEPT !["master"] = p] = [x \in Chips |-> IF x = "master" THEN p ELSE pic["slave"]]
           /\ [pic EXCEPT !["slave"] = p] = [x \in Chips |-> IF x = "master" THEN pic["master"] ELSE p]
BY DEF Chips

\* Whatever registers an access leaves in a controller, running updateState on
\* it restores the invariant.
LEMMA SettleKeeps ==
    ASSUME PicInv, NEW c \in Chips, NEW p, ChipOK(p), Settle(c, p),
           c = "master" => (Cascade \in pic["master"].irr => Cascade \in p.irr)
    PROVE  PicInv'
<1> DEFINE m == pic["master"]
           s == pic["slave"]
           u == Updated(p)
           n == Announced(m)
<1>1. pic \in [Chips -> Chip] /\ PairInv(m, s, intLine, stale)
  BY InvParts
<1>2. ChipOK(u) /\ SendOK(u) /\ u.irr = p.irr /\ Deliverable(u) = Deliverable(p)
  BY UpdatedFacts DEF ChipOK, SendOK
<1>3. ChipOK(n) /\ Cascade \in n.irr
  BY <1>1, AnnouncedFacts DEF PairInv, ChipOK
<1>4. LET v == Updated(n) IN ChipOK(v) /\ SendOK(v) /\ v.irr = n.irr /\ Deliverable(v) = Deliverable(n)
  BY <1>3, UpdatedFacts DEF ChipOK, SendOK
<1> HIDE DEF m, s, u, n
<1>5. CASE /\ c = "master"
           /\ pic' = [pic EXCEPT !["master"] = Updated(p)]
           /\ intLine' = (intLine \/ Deliverable(p) # {})
           /\ stale' = [stale EXCEPT !["master"] = FALSE]
  <2>1. pic' = [x \in Chips |-> IF x = "master" THEN u ELSE s] BY <1>1, <1>5, ExceptIsPair DEF u, s
  <2>2. stale' \in [Chips -> BOOLEAN] /\ stale'["slave"] = stale["slave"]
    BY <1>1, <1>5 DEF Chips, PairInv
  <2>3. Cascade \in m.irr => Cascade \in u.irr BY <1>2, <1>5 DEF m
  <2>4. PairInv(u, s, intLine', stale')
    BY <1>1, <1>2, <1>5, <2>2, <2>3 DEF PairInv, Known
  <2> QED BY <2>1, <2>4, InvPartsNext
<1>6. CASE /\ c = "slave" /\ Deliverable(p) = {}
           /\ pic' = [pic EXCEPT !["slave"] = p]
           /\ stale' = [stale EXCEPT !["slave"] = FALSE]
           /\ UNCHANGED intLine
  <2>1. pic' = [x \in Chips |-> IF x = "master" THEN m ELSE p] BY <1>1, <1>6, ExceptIsPair DEF m
  <2>2. stale' \in [Chips -> BOOLEAN] /\ stale'["master"] = stale["master"]
    BY <1>1, <1>6 DEF Chips, PairInv
  <2>3. PairInv(m, p, intLine', stale')
    BY <1>1, <1>6, <2>2 DEF PairInv, Known, SendOK
  <2> QED BY <2>1, <2>3, InvPartsNext
<1>7. CASE /\ c = "slave" /\ Deliverable(p) # {}
           /\ pic' = [x \in Chips |-> IF x = "master" THEN Updated(n) ELSE Updated(p)]
           /\ intLine' = (intLine \/ Deliverable(n) # {})
           /\ stale' = [x \in Chips |-> FALSE]
  <2>1. stale' \in [Chips -> BOOLEAN] BY <1>7 
  <2>2. PairInv(Updated(n), u, intLine', stale')
    BY <1>1, <1>2, <1>3, <1>4, <1>7, <2>1 DEF PairInv, Known
  <2> QED BY <1>7, <2>2, InvPartsNext DEF u
<1> QED BY <1>5, <1>6, <1>7 DEF Settle, n, m

-----------------------------------------------------------------------------
(***************************************************************************)
(* Every access keeps it                                                   *)
(***************************************************************************)

LEMMA InitEstablishes == Init => PicInv
<1> SUFFICES ASSUME Init PROVE PicInv OBVIOUS
<1>1. ChipOK(ResetChip)
  BY WidthAssumption DEF ChipOK, ResetChip, Chip, Lines, Cascade
<1>2. Deliverable(ResetChip) = {} BY DEF Deliverable, ResetChip
<1>3. PairInv(ResetChip, ResetChip, intLine, stale)
  BY <1>1, <1>2 DEF Init, PairInv, Known, SendOK, Chips
<1>4. pic["master"] = ResetChip /\ pic["slave"] = ResetChip /\ pic \in [Chips -> Chip]
  BY <1>1 DEF Init, Chips, ChipOK
<1> QED BY <1>3, <1>4, InvParts

\* A device raises its line.
LEMMA RaiseKeeps ==
    ASSUME PicInv, NEW c \in Chips, NEW i \in DeviceLines[c], RaiseIrq(c, i)
    PROVE  PicInv'
<1>1. i \in Lines BY LinesAssumption
<1>2. ChipOK(pic[c]) BY InvParts DEF PairInv, Chips
<1>3. ChipOK(Raised(pic[c], i)) BY <1>1, <1>2 DEF ChipOK, Raised, Chip
<1>4. pic[c].irr \subseteq Raised(pic[c], i).irr BY <1>2 DEF Raised, ChipOK, Chip
<1> QED BY <1>3, <1>4, SettleKeeps DEF RaiseIrq

\* Losing a request takes nothing from what was deliverable but the request.
LEMMA LoweredFacts ==
    ASSUME NEW p, ChipOK(p), NEW i \in Lines
    PROVE  LET q == Lowered(p, i) IN
           /\ ChipOK(q) /\ (SendOK(p) => SendOK(q))
           /\ q.irr = p.irr \ {i} /\ Deliverable(q) \subseteq Deliverable(p)
<1> DEFINE q == Lowered(p, i)
<1>1. /\ q \in Chip /\ q.irr = p.irr \ {i} /\ q.pin = p.pin \ {i} /\ q.imr = p.imr /\ q.isr = p.isr
      /\ q.base = p.base /\ q.send = p.send /\ q.inInit = p.inInit /\ q.icw = p.icw
  BY DEF ChipOK, Lowered, Chip
<1> HIDE DEF q
<1>2. \A k \in Lines : Rank(q, k) = Rank(p, k) BY <1>1 DEF Rank
<1>3. ChipOK(q) BY <1>1 DEF ChipOK
<1>4. Deliverable(q) = Deliverable(p) \ {i} BY <1>1, <1>2 DEF Deliverable, Rank
<1>5. SendOK(p) => SendOK(q)
  <2> SUFFICES ASSUME SendOK(p), Deliverable(q) # {}, Genuine(q)
               PROVE  q.send \in Deliverable(q) /\ \A j \in Deliverable(q) : Rank(q, q.send) <= Rank(q, j)
    BY DEF SendOK
  <2>1. p.send \in Deliverable(p) /\ \A j \in Deliverable(p) : Rank(p, p.send) <= Rank(p, j)
    BY <1>1, <1>4 DEF SendOK, Genuine
  <2>2. q.send \in Deliverable(q) BY <1>1, <1>4, <2>1 DEF Genuine
  <2>3. Deliverable(q) \subseteq Lines BY <1>1 DEF Deliverable, Chip
  <2> QED BY <1>1, <1>2, <1>4, <2>1, <2>2, <2>3
<1> QED BY <1>1, <1>3, <1>4, <1>5 DEF q

\* A device lowers its line.
LEMMA LowerKeeps ==
    ASSUME PicInv, NEW c \in Chips, NEW i \in DeviceLines[c], LowerIrq(c, i)
    PROVE  PicInv'
<1> DEFINE m == pic["master"]
           s == pic["slave"]
           p == Lowered(pic[c], i)
           n == Lowered(m, Cascade)
<1>1. pic \in [Chips -> Chip] /\ PairInv(m, s, intLine, stale) BY InvParts
<1>2. i \in Lines /\ Cascade \in Lines /\ (c = "master" => i # Cascade)
  BY LinesAssumption, WidthAssumption DEF Lines, Cascade
<1>3. ChipOK(pic[c]) /\ (~stale[c] => SendOK(pic[c])) BY <1>1 DEF PairInv, Chips
<1>4. /\ ChipOK(p) /\ (~stale[c] => SendOK(p))
      /\ p.irr = pic[c].irr \ {i} /\ Deliverable(p) \subseteq Deliverable(pic[c])
  BY <1>2, <1>3, LoweredFacts
<1>5. /\ ChipOK(n) /\ (~stale["master"] => SendOK(n)) /\ Deliverable(n) \subseteq Deliverable(m)
  BY <1>1, <1>2, LoweredFacts DEF PairInv
<1>6. p.irr = {} => Deliverable(p) = {} BY DEF Deliverable
<1>7. UNCHANGED <<intLine, stale>> BY DEF LowerIrq
<1>8. c = "master" \/ c = "slave" BY DEF Chips
<1> HIDE DEF p, n
<1>9. CASE c = "slave" /\ p.irr = {}
  <2>1. pic' = [x \in Chips |-> IF x = "master" THEN n ELSE p]
    BY <1>9 DEF LowerIrq, p, n, m, Chips
  <2>2. PairInv(n, p, intLine', stale')
    BY <1>1, <1>4, <1>5, <1>6, <1>7, <1>9 DEF PairInv, Known
  <2> QED BY <2>1, <2>2, InvPartsNext
<1>10. CASE c = "slave" /\ p.irr # {}
  <2>1. pic' = [x \in Chips |-> IF x = "master" THEN m ELSE p]
    BY <1>1, <1>10, ExceptIsPair DEF LowerIrq, p, m
  <2>2. PairInv(m, p, intLine', stale')
    BY <1>1, <1>4, <1>7, <1>10 DEF PairInv, Known
  <2> QED BY <2>1, <2>2, InvPartsNext
<1>11. CASE c = "master"
  <2>1. pic' = [x \in Chips |-> IF x = "master" THEN p ELSE s]
    BY <1>1, <1>11, ExceptIsPair DEF LowerIrq, p, s
  <2>2. Cascade \in m.irr => Cascade \in p.irr BY <1>2, <1>4, <1>11
  <2>3. PairInv(p, s, intLine', stale')
    BY <1>1, <1>4, <1>7, <1>11, <2>2 DEF PairInv, Known
  <2> QED BY <2>1, <2>3, InvPartsNext
<1> QED BY <1>8, <1>9, <1>10, <1>11

\* Putting the line to send in service blocks all that could be delivered.
LEMMA ServedFacts ==
    ASSUME NEW p, ChipOK(p), Genuine(p)
    PROVE  LET q == Served(p) IN
           /\ ChipOK(q) /\ q.irr \in {p.irr, p.irr \ {p.send}}
           /\ SendOK(p) => Deliverable(q) = {} /\ SendOK(q)
<1> DEFINE q == Served(p)
<1>1. /\ q \in Chip /\ q.irr \in {p.irr, p.irr \ {p.send}} /\ q.isr = p.isr \cup {p.send}
      /\ q.imr = p.imr /\ q.pin = p.pin /\ q.base = p.base /\ q.send = p.send
      /\ q.inInit = p.inInit /\ q.icw = p.icw
  BY DEF ChipOK, Served, Chip
<1> HIDE DEF q
<1>2. ChipOK(q) BY <1>1 DEF ChipOK
<1>3. SendOK(p) => Deliverable(q) = {}
  <2> SUFFICES ASSUME SendOK(p), NEW k \in Deliverable(q) PROVE FALSE OBVIOUS
  <2>1. k \in Lines /\ p.send \in Lines BY <1>1 DEF Deliverable, Chip, ChipOK
  <2>2. Rank(p, k) \in Nat /\ Rank(p, p.send) \in Nat BY <2>1, RankType DEF ChipOK
  <2>3. Rank(q, k) < Rank(q, p.send) BY <1>1 DEF Deliverable
  <2>4. Rank(p, k) < Rank(p, p.send) BY <1>1, <2>3 DEF Rank
  <2>5. k \in Deliverable(p) BY <1>1 DEF Deliverable, Rank
  <2>6. Rank(p, p.send) <= Rank(p, k) BY <2>5 DEF SendOK
  <2> QED BY <2>2, <2>4, <2>6
<1> QED BY <1>1, <1>2, <1>3 DEF q, SendOK

\* The CPU acknowledges an interrupt.
LEMMA AcknowledgeKeeps ==
    ASSUME PicInv, Acknowledge
    PROVE  PicInv'
<1> DEFINE m == pic["master"]
           s == pic["slave"]
           sm == Served(m)
           ss == Served(s)
<1>1. pic \in [Chips -> Chip] /\ PairInv(m, s, intLine, stale) BY InvParts
<1>2. Genuine(m) => /\ ChipOK(sm) /\ sm.irr \in {m.irr, m.irr \ {m.send}}
                    /\ SendOK(m) => Deliverable(sm) = {} /\ SendOK(sm)
  BY <1>1, ServedFacts DEF PairInv
<1>3. Genuine(s) => /\ ChipOK(ss)
                    /\ SendOK(s) => Deliverable(ss) = {} /\ SendOK(ss)
  BY <1>1, ServedFacts DEF PairInv
<1>4. intLine' = FALSE BY DEF Acknowledge
<1> HIDE DEF m, s, sm, ss
<1>5. CASE /\ ~Genuine(m)
           /\ stale' = [stale EXCEPT !["master"] = TRUE]
           /\ UNCHANGED pic
  <2>1. pic' = [x \in Chips |-> IF x = "master" THEN m ELSE s] BY <1>1, <1>5 DEF m, s, Chips
  <2>2. stale' \in [Chips -> BOOLEAN] /\ stale'["slave"] = stale["slave"] /\ stale'["master"]
    BY <1>1, <1>5 DEF PairInv, Chips
  <2>3. PairInv(m, s, intLine', stale') BY <1>1, <1>4, <2>2 DEF PairInv, Known
  <2> QED BY <2>1, <2>3, InvPartsNext
<1>6. CASE /\ Genuine(m) /\ m.send # Cascade
           /\ pic' = [pic EXCEPT !["master"] = Served(m)]
           /\ UNCHANGED stale
  <2>1. pic' = [x \in Chips |-> IF x = "master" THEN sm ELSE s] BY <1>1, <1>6, ExceptIsPair DEF s, sm
  <2>2. Cascade \in m.irr => Cascade \in sm.irr BY <1>2, <1>6
  <2>3. PairInv(sm, s, intLine', stale') BY <1>1, <1>2, <1>4, <1>6, <2>2 DEF PairInv, Known
  <2> QED BY <2>1, <2>3, InvPartsNext
<1>7. CASE /\ Genuine(m) /\ m.send = Cascade /\ Genuine(s)
           /\ pic' = [x \in Chips |-> Served(pic[x])]
           /\ UNCHANGED stale
  <2>1. pic' = [x \in Chips |-> IF x = "master" THEN sm ELSE ss] BY <1>7 DEF m, s, sm, ss, Chips
  <2>2. PairInv(sm, ss, intLine', stale')
    BY <1>1, <1>2, <1>3, <1>4, <1>7 DEF PairInv, Known
  <2> QED BY <2>1, <2>2, InvPartsNext
<1>8. CASE /\ Genuine(m) /\ m.send = Cascade /\ ~Genuine(s)
           /\ pic' = [pic EXCEPT !["master"] = Served(m)]
           /\ stale' = [stale EXCEPT !["slave"] = TRUE]
  <2>1. pic' = [x \in Chips |-> IF x = "master" THEN sm ELSE s] BY <1>1, <1>8, ExceptIsPair DEF s, sm
  <2>2. stale' \in [Chips -> BOOLEAN] /\ stale'["master"] = stale["master"] /\ stale'["slave"]
    BY <1>1, <1>8 DEF PairInv, Chips
  <2>3. PairInv(sm, s, intLine', stale') BY <1>1, <1>2, <1>4, <1>8, <2>2 DEF PairInv, Known
  <2> QED BY <2>1, <2>3, InvPartsNext
<1> QED BY <1>5, <1>6, <1>7, <1>8 DEF Acknowledge, m, s

\* Changing anything else than the requests of a controller, then updateState.
LEMMA CommandKeeps ==
    ASSUME PicInv, NEW c \in Chips, NEW p, Settle(c, p), p \in Chip,
           p.irr = pic[c].irr, p.pin = pic[c].pin, p.inInit = pic[c].inInit, p.icw = pic[c].icw
    PROVE  PicInv'
<1>1. ChipOK(pic[c]) BY InvParts DEF PairInv, Chips
<1>2. ChipOK(p) BY <1>1 DEF ChipOK
<1> QED BY <1>2, SettleKeeps

LEMMA WriteMaskKeeps ==
    ASSUME PicInv, NEW c \in Chips, NEW mask \in SUBSET Lines, WriteMask(c, mask)
    PROVE  PicInv'
<1>1. pic[c] \in Chip BY DEF PicInv, TypeOK
<1> QED BY <1>1, CommandKeeps DEF WriteMask, Chip

LEMMA SpecificEoiKeeps ==
    ASSUME PicInv, NEW c \in Chips, NEW i \in Lines, NEW rotate \in BOOLEAN, SpecificEoi(c, i, rotate)
    PROVE  PicInv'
<1>1. pic[c] \in Chip BY DEF PicInv, TypeOK
<1> QED BY <1>1, CommandKeeps DEF SpecificEoi, Chip

LEMMA NonSpecificEoiKeeps ==
    ASSUME PicInv, NEW c \in Chips, NEW i \in Lines, NEW rotate \in BOOLEAN, NonSpecificEoi(c, i, rotate)
    PROVE  PicInv'
<1> DEFINE ended == IF pic[c].isr = {} THEN {} ELSE {Highest(pic[c], pic[c].isr)}
           p == [pic[c] EXCEPT !.isr = @ \ ended, !.base = IF rotate THEN i ELSE @]
<1>1. pic[c] \in Chip BY DEF PicInv, TypeOK
<1>2. Settle(c, p) BY <1>1 DEF NonSpecificEoi, Chip
<1> HIDE DEF ended
<1>3. p \in Chip /\ p.irr = pic[c].irr /\ p.pin = pic[c].pin /\ p.inInit = pic[c].inInit /\ p.icw = pic[c].icw
  BY <1>1 DEF Chip
<1> HIDE DEF p
<1> QED BY <1>2, <1>3, CommandKeeps

\* A register is written and updateState does not run: the invariant needs
\* nothing more when no request becomes deliverable, or when c is stale.
LEMMA RegisterKeeps ==
    ASSUME PicInv, NEW c \in Chips, NEW p, ChipOK(p), pic' = [pic EXCEPT ![c] = p],
           UNCHANGED intLine, stale' \in [Chips -> BOOLEAN], stale'[Other(c)] = stale[Other(c)],
           p.irr = pic[c].irr,
           \/ stale' = stale /\ Deliverable(p) = Deliverable(pic[c]) /\ (SendOK(pic[c]) => SendOK(p))
           \/ stale'[c]
    PROVE  PicInv'
<1> DEFINE m == pic["master"]
           s == pic["slave"]
<1>1. pic \in [Chips -> Chip] /\ PairInv(m, s, intLine, stale) BY InvParts
<1>2. CASE c = "master"
  <2>1. pic' = [x \in Chips |-> IF x = "master" THEN p ELSE s] BY <1>1, <1>2, ExceptIsPair
  <2>2. PairInv(p, s, intLine', stale') BY <1>1, <1>2 DEF PairInv, Known, Other
  <2> QED BY <2>1, <2>2, InvPartsNext
<1>3. CASE c = "slave"
  <2>1. pic' = [x \in Chips |-> IF x = "master" THEN m ELSE p] BY <1>1, <1>3, ExceptIsPair
  <2>2. PairInv(m, p, intLine', stale') BY <1>1, <1>3 DEF PairInv, Known, Other
  <2> QED BY <2>1, <2>2, InvPartsNext
<1> QED BY <1>2, <1>3 DEF Chips

\* Registers that no decision of the controller reads.
LEMMA SameRequests ==
    ASSUME NEW p, NEW q, q.irr = p.irr, q.imr = p.imr, q.isr = p.isr, q.base = p.base, q.send = p.send
    PROVE  Deliverable(q) = Deliverable(p) /\ (SendOK(p) => SendOK(q))
BY DEF Deliverable, Rank, SendOK, Genuine

LEMMA SetPriorityKeeps ==
    ASSUME PicInv, NEW c \in Chips, NEW i \in Lines, SetPriority(c, i)
    PROVE  PicInv'
<1> DEFINE p == [pic[c] EXCEPT !.base = i]
<1>1. pic \in [Chips -> Chip] /\ ChipOK(pic[c]) /\ stale \in [Chips -> BOOLEAN]
  BY InvParts DEF PairInv, Chips
<1>2. ChipOK(p) /\ p.irr = pic[c].irr BY <1>1 DEF ChipOK, Chip
<1>3. pic' = [pic EXCEPT ![c] = p] BY <1>1 DEF SetPriority
<1>4. stale' \in [Chips -> BOOLEAN] /\ stale'[Other(c)] = stale[Other(c)] /\ stale'[c]
  BY <1>1 DEF SetPriority, Chips, Other
<1> HIDE DEF p
<1> QED BY <1>2, <1>3, <1>4, RegisterKeeps DEF SetPriority

LEMMA SelectRegisterKeeps ==
    ASSUME PicInv, NEW c \in Chips, NEW isr \in ReadSelects, SelectRegister(c, isr)
    PROVE  PicInv'
<1> DEFINE p == [pic[c] EXCEPT !.readIsr = isr]
<1>1. pic \in [Chips -> Chip] /\ ChipOK(pic[c]) /\ stale \in [Chips -> BOOLEAN]
  BY InvParts DEF PairInv, Chips
<1>2. ChipOK(p) /\ p.irr = pic[c].irr BY <1>1, CommandsAssumption DEF ChipOK, Chip
<1>3. pic' = [pic EXCEPT ![c] = p] BY <1>1 DEF SelectRegister
<1>4. Deliverable(p) = Deliverable(pic[c]) /\ (SendOK(pic[c]) => SendOK(p))
  <2>1. /\ p.irr = pic[c].irr /\ p.imr = pic[c].imr /\ p.isr = pic[c].isr /\ p.base = pic[c].base
        /\ p.send = pic[c].send
    BY <1>1 DEF ChipOK, Chip
  <2> HIDE DEF p
  <2> QED BY <2>1, SameRequests
<1> HIDE DEF p
<1> QED BY <1>1, <1>2, <1>3, <1>4, RegisterKeeps DEF SelectRegister

LEMMA WriteElcrKeeps ==
    ASSUME PicInv, NEW c \in Chips, NEW lines \in SUBSET Lines, WriteElcr(c, lines)
    PROVE  PicInv'
<1> DEFINE p == [pic[c] EXCEPT !.elcr = lines]
<1>1. pic \in [Chips -> Chip] /\ ChipOK(pic[c]) /\ stale \in [Chips -> BOOLEAN]
  BY InvParts DEF PairInv, Chips
<1>2. ChipOK(p) /\ p.irr = pic[c].irr BY <1>1 DEF ChipOK, Chip
<1>3. pic' = [pic EXCEPT ![c] = p] BY <1>1 DEF WriteElcr
<1>4. Deliverable(p) = Deliverable(pic[c]) /\ (SendOK(pic[c]) => SendOK(p))
  <2>1. /\ p.irr = pic[c].irr /\ p.imr = pic[c].imr /\ p.isr = pic[c].isr /\ p.base = pic[c].base
        /\ p.send = pic[c].send
    BY <1>1 DEF ChipOK, Chip
  <2> HIDE DEF p
  <2> QED BY <2>1, SameRequests
<1> HIDE DEF p
<1> QED BY <1>1, <1>2, <1>3, <1>4, RegisterKeeps DEF WriteElcr

LEMMA ContinueInitKeeps ==
    ASSUME PicInv, NEW c \in Chips, ContinueInit(c)
    PROVE  PicInv'
<1> DEFINE p == [pic[c] EXCEPT !.icw = @ + 1, !.inInit = pic[c].icw # 4]
<1>1. pic \in [Chips -> Chip] /\ ChipOK(pic[c]) /\ stale \in [Chips -> BOOLEAN]
  BY InvParts DEF PairInv, Chips
<1>2. pic[c].icw \in {2, 3, 4} BY <1>1 DEF ContinueInit, ChipOK
<1>3. ChipOK(p) /\ p.irr = pic[c].irr
  <2>1. pic[c].icw + 1 \in {3, 4, 5} /\ (pic[c].icw # 4 => pic[c].icw + 1 \in {2, 3, 4}) BY <1>2
  <2> QED BY <1>1, <2>1 DEF ChipOK, Chip
<1>4. pic' = [pic EXCEPT ![c] = p] BY DEF ContinueInit
<1>5. Deliverable(p) = Deliverable(pic[c]) /\ (SendOK(pic[c]) => SendOK(p))
  <2>1. /\ p.irr = pic[c].irr /\ p.imr = pic[c].imr /\ p.isr = pic[c].isr /\ p.base = pic[c].base
        /\ p.send = pic[c].send
    BY <1>1 DEF ChipOK, Chip
  <2> HIDE DEF p
  <2> QED BY <2>1, SameRequests
<1> HIDE DEF p
<1> QED BY <1>1, <1>3, <1>4, <1>5, RegisterKeeps DEF ContinueInit

\* The first initialisation word empties its controller, and takes the CPU
\* line or the cascade line away from the other.
LEMMA StartInitKeeps ==
    ASSUME PicInv, NEW c \in Chips, StartInit(c)
    PROVE  PicInv'
<1> DEFINE m == pic["master"]
           s == pic["slave"]
           p == [pic[c] EXCEPT !.irr = {}, !.isr = {}, !.imr = {}, !.base = Width - 1, !.inInit = TRUE, !.icw = 2]
<1>1. pic \in [Chips -> Chip] /\ PairInv(m, s, intLine, stale) /\ ChipOK(pic[c])
  BY InvParts DEF PairInv, Chips
<1>2. Width - 1 \in Lines BY WidthAssumption DEF Lines, Cascade
<1>3. ChipOK(p) /\ p.irr = {} BY <1>1, <1>2 DEF ChipOK, Chip
<1>4. pic' = [pic EXCEPT ![c] = p] BY <1>1 DEF StartInit
<1>5. /\ stale' \in [Chips -> BOOLEAN] /\ stale'[Other(c)] /\ stale'[c] = stale[c]
      /\ intLine' = FALSE
  BY <1>1 DEF StartInit, PairInv, Chips, Other
<1> HIDE DEF p
<1>6. Deliverable(p) = {} /\ SendOK(p) BY <1>3 DEF Deliverable, SendOK
<1>7. CASE c = "master"
  <2>1. pic' = [x \in Chips |-> IF x = "master" THEN p ELSE s] BY <1>1, <1>4, <1>7, ExceptIsPair
  <2>2. PairInv(p, s, intLine', stale') BY <1>1, <1>3, <1>5, <1>6, <1>7 DEF PairInv, Known, Other
  <2> QED BY <2>1, <2>2, InvPartsNext
<1>8. CASE c = "slave"
  <2>1. pic' = [x \in Chips |-> IF x = "master" THEN m ELSE p] BY <1>1, <1>4, <1>8, ExceptIsPair
  <2>2. PairInv(m, p, intLine', stale') BY <1>1, <1>3, <1>5, <1>6, <1>8 DEF PairInv, Known, Other
  <2> QED BY <2>1, <2>2, InvPartsNext
<1> QED BY <1>7, <1>8 DEF Chips

\* Which guest runs does not change, and what it writes is lines.
LEMMA GuestStays == Spec => [](guest \in Guests)
<1>1. Init => guest \in Guests BY DEF Init
<1>2. guest \in Guests /\ [Next]_vars => (guest \in Guests)' BY DEF Next, vars
<1> QED BY <1>1, <1>2, PTL DEF Spec

LEMMA GuestWritesLines ==
    ASSUME guest \in Guests, NEW c \in Chips
    PROVE  guest.masks[c] \subseteq SUBSET Lines /\ guest.levels[c] \subseteq SUBSET Lines
<1>1. /\ guest.masks \in [Chips -> SUBSET SUBSET Lines]
      /\ guest.levels \in [Chips -> SUBSET SUBSET (Lines \ {Cascade})]
  BY GuestsAssumption
<1> QED BY <1>1

LEMMA StepKeeps == PicInv /\ guest \in Guests /\ [Next]_vars => PicInv'
<1> SUFFICES ASSUME PicInv, guest \in Guests, [Next]_vars PROVE PicInv' OBVIOUS
<1>1. CASE Acknowledge BY <1>1, AcknowledgeKeeps
<1>2. CASE \E c \in Chips : Device(c)
  BY <1>2, RaiseKeeps, LowerKeeps DEF Device
<1>3. CASE \E c \in Chips : Guest(c)
  <2> PICK c \in Chips : Guest(c) BY <1>3
  <2>1. CASE \E mask \in guest.masks[c] : WriteMask(c, mask) BY <2>1, WriteMaskKeeps, GuestWritesLines
  <2>2. CASE \E i \in Lines, rotate \in Rotations(c) : SpecificEoi(c, i, rotate) \/ NonSpecificEoi(c, i, rotate)
    <3>1. Rotations(c) \subseteq BOOLEAN BY DEF Rotations
    <3> QED BY <2>2, <3>1, SpecificEoiKeeps, NonSpecificEoiKeeps
  <2>3. CASE \E i \in Lines : SetPriority(c, i) BY <2>3, SetPriorityKeeps
  <2>4. CASE \E isr \in ReadSelects : SelectRegister(c, isr) BY <2>4, SelectRegisterKeeps
  <2>5. CASE StartInit(c) BY <2>5, StartInitKeeps
  <2>6. CASE ContinueInit(c) BY <2>6, ContinueInitKeeps
  <2>7. CASE \E lines \in guest.levels[c] : WriteElcr(c, lines) BY <2>7, WriteElcrKeeps, GuestWritesLines
  <2> QED BY <2>1, <2>2, <2>3, <2>4, <2>5, <2>6, <2>7 DEF Guest
<1>4. CASE UNCHANGED vars
  BY <1>4 DEF vars, PicInv, TypeOK, PendingIsAsserted, NothingForgotten, SendsHighest
<1> QED BY <1>1, <1>2, <1>3, <1>4 DEF Next

-----------------------------------------------------------------------------
(***************************************************************************)
(* Theorems                                                                *)
(***************************************************************************)

THEOREM InvHolds == Spec => []PicInv
BY InitEstablishes, StepKeeps, GuestStays, PTL DEF Spec

\* Both controllers keep well-formed registers and take their initialisation
\* words in order (pic.cpp, writeIcw), for any number of lines.
THEOREM RegistersTyped == Spec => []TypeOK
<1>1. PicInv => TypeOK BY DEF PicInv
<1> QED BY <1>1, InvHolds, PTL

\* A pending request is always one that its device still asserts (raiseIrq,
\* lowerIrq, getInterrupt).
THEOREM RequestsAsserted == Spec => []PendingIsAsserted
<1>1. PicInv => PendingIsAsserted BY DEF PicInv
<1> QED BY <1>1, InvHolds, PTL

\* A deliverable request is announced to the CPU or to the master unless one
\* of the three listed steps dropped the announcement (updateState and every
\* place that does not call it).
THEOREM NeverForgotten == Spec => []NothingForgotten
<1>1. PicInv => NothingForgotten BY DEF PicInv
<1> QED BY <1>1, InvHolds, PTL

\* What the next acknowledge takes has the highest priority (updateState).
THEOREM HighestIsSent == Spec => []SendsHighest
<1>1. PicInv => SendsHighest BY DEF PicInv
<1> QED BY <1>1, InvHolds, PTL

-----------------------------------------------------------------------------
(***************************************************************************)
(* Acknowledges nest                                                       *)
(***************************************************************************)

\* The line to send is above those in service.
Nests(p) == \A j \in p.isr : Rank(p, p.send) < Rank(p, j)

\* It is wherever an acknowledge could take it: on the master while the CPU
\* line is high, on the slave while the master has its announcement, which no
\* acknowledge leaves pending because the cascade line is never level triggered.
NestPair(m, s, line) ==
    /\ Cascade \notin m.elcr
    /\ line /\ "master" \notin guest.rotated => Nests(m)
    /\ Cascade \in m.irr /\ "slave" \notin guest.rotated => Nests(s)

NestInv == NestPair(pic["master"], pic["slave"], intLine)

\* No line goes in service.
NoneServed == \A c \in Chips : pic'[c].isr \subseteq pic[c].isr

LEMMA NestInvNext ==
    ASSUME NEW m, NEW s, pic' = [x \in Chips |-> IF x = "master" THEN m ELSE s], UNCHANGED guest,
           NestPair(m, s, intLine')
    PROVE  /\ NestInv'
           /\ m.isr \subseteq pic["master"].isr /\ s.isr \subseteq pic["slave"].isr => NoneServed
<1>1. pic'["master"] = m /\ pic'["slave"] = s BY DEF Chips
<1> QED BY <1>1 DEF NestInv, NestPair, Nests, Rank, NoneServed, Chips

\* updateState puts a line that nests in the place of the one to send.
LEMMA UpdatedNests ==
    ASSUME NEW p \in Chip
    PROVE  LET q == Updated(p) IN
           /\ q.irr = p.irr /\ q.isr = p.isr /\ q.elcr = p.elcr
           /\ Nests(p) \/ Deliverable(p) # {} => Nests(q)
<1> DEFINE q == Updated(p)
<1>1. q.irr = p.irr /\ q.isr = p.isr /\ q.elcr = p.elcr /\ (Deliverable(p) = {} => q = p)
  BY DEF Updated, Chip
<1>2. Deliverable(p) # {} => q.send \in Deliverable(q)
  BY UpdatedFacts
<1>3. Deliverable(p) # {} => Nests(q)
  BY <1>2 DEF Deliverable, Nests
<1> QED BY <1>1, <1>3

LEMMA AnnouncedNests ==
    ASSUME NEW m \in Chip
    PROVE  LET q == Announced(m) IN
           /\ q \in Chip /\ q.isr = m.isr /\ q.elcr = m.elcr /\ (Nests(m) => Nests(q))
<1> DEFINE q == Announced(m)
<1>1. Cascade \in Lines BY WidthAssumption DEF Lines, Cascade
<1>2. q \in Chip /\ q.isr = m.isr /\ q.elcr = m.elcr /\ q.send = m.send /\ q.base = m.base
  BY <1>1 DEF Announced, Raised, Lowered, Chip
<1> HIDE DEF q
<1>3. Nests(m) => Nests(q) BY <1>2 DEF Nests, Rank
<1> QED BY <1>2, <1>3 DEF q

\* Registers that do not put the line to send below one in service.
LEMMA NestsKept ==
    ASSUME NEW p, NEW q, Nests(p), q.isr \subseteq p.isr, q.send = p.send, q.base = p.base
    PROVE  Nests(q)
BY DEF Nests, Rank

\* Whatever an access leaves in a controller without putting a line in service.
LEMMA SettleNests ==
    ASSUME PicInv, NestInv, UNCHANGED guest, NEW c \in Chips, NEW p \in Chip, Settle(c, p),
           p.elcr = pic[c].elcr, p.isr \subseteq pic[c].isr,
           c = "master" /\ Cascade \in p.irr => Cascade \in pic[c].irr,
           c \notin guest.rotated => p.send = pic[c].send /\ p.base = pic[c].base
    PROVE  NestInv' /\ NoneServed
<1> DEFINE m == pic["master"]
           s == pic["slave"]
           u == Updated(p)
           n == Announced(m)
           v == Updated(n)
<1>1. pic \in [Chips -> Chip] /\ NestPair(m, s, intLine) /\ m \in Chip /\ s \in Chip
  BY DEF PicInv, TypeOK, NestInv, Chips
<1>2. c \notin guest.rotated /\ Nests(pic[c]) => Nests(p)
  BY NestsKept
<1>3. u.irr = p.irr /\ u.isr = p.isr /\ u.elcr = p.elcr /\ (Nests(p) \/ Deliverable(p) # {} => Nests(u))
  BY UpdatedNests
<1>4. n \in Chip /\ n.isr = m.isr /\ n.elcr = m.elcr /\ (Nests(m) => Nests(n))
  BY <1>1, AnnouncedNests
<1>5. v.isr = n.isr /\ v.elcr = n.elcr /\ (Nests(n) \/ Deliverable(n) # {} => Nests(v))
  BY <1>4, UpdatedNests
<1>6. CASE /\ c = "master"
           /\ pic' = [pic EXCEPT !["master"] = Updated(p)]
           /\ intLine' = (intLine \/ Deliverable(p) # {})
  <2>1. pic' = [x \in Chips |-> IF x = "master" THEN u ELSE s] BY <1>1, <1>6, ExceptIsPair
  <2> HIDE DEF m, s, u
  <2>2. NestPair(u, s, intLine') BY <1>1, <1>2, <1>3, <1>6 DEF NestPair, m
  <2> QED BY <1>3, <1>6, <2>1, <2>2, NestInvNext DEF m, s
<1>7. CASE /\ c = "slave" /\ Deliverable(p) = {}
           /\ pic' = [pic EXCEPT !["slave"] = p]
           /\ UNCHANGED intLine
  <2>1. pic' = [x \in Chips |-> IF x = "master" THEN m ELSE p] BY <1>1, <1>7, ExceptIsPair
  <2> HIDE DEF m, s
  <2>2. NestPair(m, p, intLine') BY <1>1, <1>2, <1>7 DEF NestPair, s
  <2> QED BY <1>7, <2>1, <2>2, NestInvNext DEF m, s
<1>8. CASE /\ c = "slave" /\ Deliverable(p) # {}
           /\ pic' = [x \in Chips |-> IF x = "master" THEN Updated(n) ELSE Updated(p)]
           /\ intLine' = (intLine \/ Deliverable(n) # {})
  <2>1. pic' = [x \in Chips |-> IF x = "master" THEN v ELSE u] BY <1>8
  <2> HIDE DEF m, s, u, n, v
  <2>2. NestPair(v, u, intLine') BY <1>1, <1>3, <1>4, <1>5, <1>8 DEF NestPair
  <2> QED BY <1>3, <1>4, <1>5, <1>8, <2>1, <2>2, NestInvNext DEF m, s
<1> QED BY <1>6, <1>7, <1>8 DEF Settle, n, m

\* A register written without updateState, on one controller.
LEMMA RegisterNests ==
    ASSUME PicInv, NestInv, UNCHANGED guest, NEW c \in Chips, NEW p, pic' = [pic EXCEPT ![c] = p],
           intLine' => intLine,
           c = "master" => Cascade \notin p.elcr, p.isr \subseteq pic[c].isr, p.irr \subseteq pic[c].irr,
           c \in guest.rotated \/ p.isr = {} \/ (p.send = pic[c].send /\ p.base = pic[c].base)
    PROVE  NestInv' /\ NoneServed
<1> DEFINE m == pic["master"]
           s == pic["slave"]
<1>1. pic \in [Chips -> Chip] /\ NestPair(m, s, intLine)
  BY DEF PicInv, TypeOK, NestInv
<1>2. c \notin guest.rotated /\ Nests(pic[c]) => Nests(p)
  BY NestsKept DEF Nests
<1>3. p.isr = {} => Nests(p)
  BY DEF Nests
<1>4. CASE c = "master"
  <2>1. pic' = [x \in Chips |-> IF x = "master" THEN p ELSE s] BY <1>1, <1>4, ExceptIsPair
  <2>2. NestPair(p, s, intLine') BY <1>1, <1>2, <1>3, <1>4 DEF NestPair
  <2> QED BY <1>4, <2>1, <2>2, NestInvNext
<1>5. CASE c = "slave"
  <2>1. pic' = [x \in Chips |-> IF x = "master" THEN m ELSE p] BY <1>1, <1>5, ExceptIsPair
  <2>2. NestPair(m, p, intLine') BY <1>1, <1>2, <1>3, <1>5 DEF NestPair
  <2> QED BY <1>5, <2>1, <2>2, NestInvNext
<1> QED BY <1>4, <1>5 DEF Chips

LEMMA DeviceNests ==
    ASSUME PicInv, NestInv, UNCHANGED guest, NEW c \in Chips, NEW i \in DeviceLines[c], RaiseIrq(c, i) \/ LowerIrq(c, i)
    PROVE  NestInv' /\ NoneServed
<1>1. pic \in [Chips -> Chip] /\ pic[c] \in Chip BY DEF PicInv, TypeOK
<1>2. i \in Lines /\ (c = "master" => i # Cascade) BY LinesAssumption
<1>3. CASE RaiseIrq(c, i)
  <2> DEFINE p == Raised(pic[c], i)
  <2>1. /\ p \in Chip /\ p.elcr = pic[c].elcr /\ p.isr = pic[c].isr /\ p.irr = pic[c].irr \cup {i}
        /\ p.send = pic[c].send /\ p.base = pic[c].base
    BY <1>1, <1>2 DEF Raised, Chip
  <2>2. Settle(c, p) BY <1>3 DEF RaiseIrq
  <2> HIDE DEF p
  <2> QED BY <1>2, <2>1, <2>2, SettleNests
<1>4. CASE LowerIrq(c, i)
  <2> DEFINE m == pic["master"]
             s == pic["slave"]
             p == Lowered(pic[c], i)
             n == Lowered(m, Cascade)
  <2>1. /\ p.elcr = pic[c].elcr /\ p.isr = pic[c].isr /\ p.irr \subseteq pic[c].irr
        /\ p.send = pic[c].send /\ p.base = pic[c].base
    BY <1>1 DEF Lowered, Chip
  <2>2. /\ n.elcr = m.elcr /\ n.isr = m.isr /\ n.irr = m.irr \ {Cascade}
        /\ n.send = m.send /\ n.base = m.base
    BY <1>1 DEF Lowered, Chip, Chips
  <2>3. intLine' = intLine BY <1>4 DEF LowerIrq
  <2>4. NestPair(m, s, intLine) BY DEF NestInv
  <2>5. CASE c = "slave" /\ p.irr = {}
    <3>1. pic' = [x \in Chips |-> IF x = "master" THEN n ELSE p] BY <1>4, <2>5 DEF LowerIrq, Chips
    <3> HIDE DEF n, p, m, s
    <3>2. Nests(m) => Nests(n) BY <2>2, NestsKept
    <3>3. NestPair(n, p, intLine') BY <2>2, <2>3, <2>4, <3>2 DEF NestPair
    <3> QED BY <2>1, <2>2, <2>5, <3>1, <3>3, NestInvNext DEF m, s
  <2>6. CASE ~(c = "slave" /\ p.irr = {})
    <3>1. pic' = [pic EXCEPT ![c] = p] BY <1>4, <2>6 DEF LowerIrq
    <3>2. c = "master" => Cascade \notin p.elcr BY <2>1, <2>4 DEF NestPair, Chips
    <3> HIDE DEF p, m, s, n
    <3> QED BY <2>1, <2>3, <3>1, <3>2, RegisterNests
  <2> QED BY <2>5, <2>6
<1> QED BY <1>3, <1>4

LEMMA AcknowledgeNests ==
    ASSUME PicInv, NestInv, UNCHANGED guest, Acknowledge
    PROVE  /\ NestInv'
           /\ \A c \in Chips \ guest.rotated : \A i \in pic'[c].isr \ pic[c].isr :
                 \A j \in pic[c].isr : Rank(pic[c], i) < Rank(pic[c], j)
<1> DEFINE m == pic["master"]
           s == pic["slave"]
           sm == Served(m)
           ss == Served(s)
<1>1. pic \in [Chips -> Chip] /\ NestPair(m, s, intLine) /\ m \in Chip /\ s \in Chip
  BY DEF PicInv, TypeOK, NestInv, Chips
<1>2. /\ sm.isr = m.isr \cup {m.send} /\ sm.elcr = m.elcr
      /\ sm.irr \subseteq m.irr /\ (m.send = Cascade => Cascade \notin sm.irr)
  BY <1>1 DEF Served, Chip, NestPair
<1>3. ss.isr = s.isr \cup {s.send} /\ ss.elcr = s.elcr
  BY <1>1 DEF Served, Chip
<1>4. intLine /\ intLine' = FALSE
  BY DEF Acknowledge
<1> HIDE DEF m, s, sm, ss
<1>5. "master" \notin guest.rotated => \A i \in sm.isr \ m.isr : \A j \in m.isr : Rank(m, i) < Rank(m, j)
  BY <1>1, <1>2, <1>4 DEF NestPair, Nests
<1>6. Cascade \in m.irr /\ "slave" \notin guest.rotated
        => \A i \in ss.isr \ s.isr : \A j \in s.isr : Rank(s, i) < Rank(s, j)
  BY <1>1, <1>3 DEF NestPair, Nests
<1>7. CASE UNCHANGED pic
  <2>1. pic' = [x \in Chips |-> IF x = "master" THEN m ELSE s] BY <1>1, <1>7 DEF m, s, Chips
  <2>2. NestPair(m, s, intLine') BY <1>1, <1>4 DEF NestPair
  <2> QED BY <1>7, <2>1, <2>2, NestInvNext
<1>8. CASE Genuine(m) /\ pic' = [pic EXCEPT !["master"] = Served(m)]
  <2>1. pic' = [x \in Chips |-> IF x = "master" THEN sm ELSE s] BY <1>1, <1>8, ExceptIsPair DEF s, sm
  <2>2. NestPair(sm, s, intLine') BY <1>1, <1>2, <1>4 DEF NestPair
  <2>3. NestInv' BY <2>1, <2>2, NestInvNext
  <2>4. pic'["master"] = sm /\ pic'["slave"] = pic["slave"] BY <2>1 DEF Chips, s
  <2>5. \A c \in Chips \ guest.rotated : \A i \in pic'[c].isr \ pic[c].isr :
           \A j \in pic[c].isr : Rank(pic[c], i) < Rank(pic[c], j)
    BY <1>5, <2>4 DEF Chips, m
  <2> QED BY <2>3, <2>5
<1>9. CASE Genuine(m) /\ m.send = Cascade /\ pic' = [x \in Chips |-> Served(pic[x])]
  <2>1. pic' = [x \in Chips |-> IF x = "master" THEN sm ELSE ss] BY <1>9 DEF m, s, sm, ss, Chips
  <2>2. NestPair(sm, ss, intLine') BY <1>1, <1>2, <1>4, <1>9 DEF NestPair
  <2>3. NestInv' BY <2>1, <2>2, NestInvNext
  <2>4. pic'["master"] = sm /\ pic'["slave"] = ss BY <2>1 DEF Chips
  <2>5. Cascade \in m.irr BY <1>9 DEF Genuine
  <2>6. \A c \in Chips \ guest.rotated : \A i \in pic'[c].isr \ pic[c].isr :
           \A j \in pic[c].isr : Rank(pic[c], i) < Rank(pic[c], j)
    BY <1>5, <1>6, <2>4, <2>5 DEF Chips, m, s
  <2> QED BY <2>3, <2>6
<1> QED BY <1>7, <1>8, <1>9 DEF Acknowledge, m, s

LEMMA CommandNests ==
    ASSUME PicInv, NestInv, UNCHANGED guest, guest \in Guests, NEW c \in Chips, Guest(c)
    PROVE  NestInv' /\ NoneServed
<1>1. pic \in [Chips -> Chip] /\ pic[c] \in Chip BY DEF PicInv, TypeOK
<1>2. c = "master" => Cascade \notin pic[c].elcr BY DEF NestInv, NestPair
<1>3. guest.masks[c] \subseteq SUBSET Lines /\ \A lines \in guest.levels[c] : Cascade \notin lines
  <2>1. /\ guest.masks \in [Chips -> SUBSET SUBSET Lines]
        /\ guest.levels \in [Chips -> SUBSET SUBSET (Lines \ {Cascade})]
    BY GuestsAssumption
  <2> QED BY <2>1
<1>4. ASSUME NEW mask \in guest.masks[c], WriteMask(c, mask) PROVE NestInv' /\ NoneServed
  <2> DEFINE p == [pic[c] EXCEPT !.imr = mask]
  <2>1. /\ p \in Chip /\ p.elcr = pic[c].elcr /\ p.isr = pic[c].isr /\ p.irr = pic[c].irr
        /\ p.send = pic[c].send /\ p.base = pic[c].base
    BY <1>1, <1>3 DEF Chip
  <2>2. Settle(c, p) BY <1>4 DEF WriteMask
  <2> HIDE DEF p
  <2> QED BY <2>1, <2>2, SettleNests
<1>5. ASSUME NEW i \in Lines, NEW rotate \in Rotations(c), NEW ended, ended \subseteq Lines,
             Settle(c, [pic[c] EXCEPT !.isr = @ \ ended, !.base = IF rotate THEN i ELSE @])
      PROVE  NestInv' /\ NoneServed
  <2> DEFINE p == [pic[c] EXCEPT !.isr = @ \ ended, !.base = IF rotate THEN i ELSE @]
  <2>1. /\ p \in Chip /\ p.elcr = pic[c].elcr /\ p.isr \subseteq pic[c].isr /\ p.irr = pic[c].irr
        /\ p.send = pic[c].send /\ (~rotate => p.base = pic[c].base)
    BY <1>1 DEF Chip
  <2>2. c \notin guest.rotated => ~rotate BY DEF Rotations
  <2>3. Settle(c, p) BY <1>5
  <2> HIDE DEF p
  <2> QED BY <2>1, <2>2, <2>3, SettleNests
<1>6. ASSUME NEW i \in Lines, NEW rotate \in Rotations(c), SpecificEoi(c, i, rotate) PROVE NestInv' /\ NoneServed
  <2>1. {i} \subseteq Lines OBVIOUS
  <2> QED BY <1>5, <1>6, <2>1 DEF SpecificEoi
<1>7. ASSUME NEW i \in Lines, NEW rotate \in Rotations(c), NonSpecificEoi(c, i, rotate) PROVE NestInv' /\ NoneServed
  <2> DEFINE ended == IF pic[c].isr = {} THEN {} ELSE {Highest(pic[c], pic[c].isr)}
  <2>1. ended \subseteq Lines
    <3>1. pic[c].isr \in SUBSET Lines BY <1>1 DEF Chip
    <3> QED BY <1>1, <3>1, HighestExists
  <2>2. Settle(c, [pic[c] EXCEPT !.isr = @ \ ended, !.base = IF rotate THEN i ELSE @])
    BY <1>1, <1>7 DEF NonSpecificEoi, Chip
  <2> HIDE DEF ended
  <2> QED BY <1>5, <2>1, <2>2
<1>8. ASSUME c \in guest.rotated, NEW i \in Lines, SetPriority(c, i) PROVE NestInv' /\ NoneServed
  <2> DEFINE p == [pic[c] EXCEPT !.base = i]
  <2>1. p.elcr = pic[c].elcr /\ p.isr = pic[c].isr /\ p.irr = pic[c].irr BY <1>1 DEF Chip
  <2>2. pic' = [pic EXCEPT ![c] = p] /\ (intLine' => intLine) BY <1>1, <1>8 DEF SetPriority
  <2> HIDE DEF p
  <2> QED BY <1>2, <1>8, <2>1, <2>2, RegisterNests
<1>9. ASSUME NEW isr \in ReadSelects, SelectRegister(c, isr) PROVE NestInv' /\ NoneServed
  <2> DEFINE p == [pic[c] EXCEPT !.readIsr = isr]
  <2>1. /\ p.elcr = pic[c].elcr /\ p.isr = pic[c].isr /\ p.irr = pic[c].irr
        /\ p.send = pic[c].send /\ p.base = pic[c].base
    BY <1>1 DEF Chip
  <2>2. pic' = [pic EXCEPT ![c] = p] /\ (intLine' => intLine) BY <1>1, <1>9 DEF SelectRegister
  <2> HIDE DEF p
  <2> QED BY <1>2, <2>1, <2>2, RegisterNests
<1>10. ASSUME StartInit(c) PROVE NestInv' /\ NoneServed
  <2> DEFINE p == [pic[c] EXCEPT !.irr = {}, !.isr = {}, !.imr = {}, !.base = Width - 1, !.inInit = TRUE, !.icw = 2]
  <2>1. p.elcr = pic[c].elcr /\ p.isr = {} /\ p.irr = {} BY <1>1 DEF Chip
  <2>2. pic' = [pic EXCEPT ![c] = p] /\ (intLine' => intLine) BY <1>1, <1>10 DEF StartInit
  <2> HIDE DEF p
  <2> QED BY <1>2, <2>1, <2>2, RegisterNests
<1>11. ASSUME ContinueInit(c) PROVE NestInv' /\ NoneServed
  <2> DEFINE p == [pic[c] EXCEPT !.icw = @ + 1, !.inInit = pic[c].icw # 4]
  <2>1. /\ p.elcr = pic[c].elcr /\ p.isr = pic[c].isr /\ p.irr = pic[c].irr
        /\ p.send = pic[c].send /\ p.base = pic[c].base
    BY <1>1 DEF Chip
  <2>2. pic' = [pic EXCEPT ![c] = p] /\ (intLine' => intLine) BY <1>11 DEF ContinueInit
  <2> HIDE DEF p
  <2> QED BY <1>2, <2>1, <2>2, RegisterNests
<1>12. ASSUME NEW lines \in guest.levels[c], WriteElcr(c, lines) PROVE NestInv' /\ NoneServed
  <2> DEFINE p == [pic[c] EXCEPT !.elcr = lines]
  <2>1. /\ p.elcr = lines /\ p.isr = pic[c].isr /\ p.irr = pic[c].irr
        /\ p.send = pic[c].send /\ p.base = pic[c].base
    BY <1>1 DEF Chip
  <2>2. pic' = [pic EXCEPT ![c] = p] /\ (intLine' => intLine) BY <1>1, <1>12 DEF WriteElcr
  <2> HIDE DEF p
  <2> QED BY <1>3, <2>1, <2>2, RegisterNests
<1> QED BY <1>4, <1>6, <1>7, <1>8, <1>9, <1>10, <1>11, <1>12 DEF Guest

\* An acknowledge puts a line in service, and it is above those that are.
AckStep == \A c \in Chips \ guest.rotated : \A i \in pic'[c].isr \ pic[c].isr :
              \A j \in pic[c].isr : Rank(pic[c], i) < Rank(pic[c], j)

LEMMA StepNests == PicInv /\ guest \in Guests /\ NestInv /\ [Next]_vars => NestInv' /\ AckStep
<1> SUFFICES ASSUME PicInv, guest \in Guests, NestInv, [Next]_vars PROVE NestInv' /\ AckStep
  OBVIOUS
<1>1. UNCHANGED guest
  BY DEF Next, vars
<1>2. CASE Acknowledge
  BY <1>1, <1>2, AcknowledgeNests DEF AckStep
<1>3. CASE \E c \in Chips : Device(c) \/ Guest(c)
  <2>1. NestInv' /\ NoneServed
    BY <1>1, <1>3, DeviceNests, CommandNests DEF Device
  <2> QED BY <2>1 DEF NoneServed, AckStep
<1>4. CASE UNCHANGED vars
  BY <1>4 DEF vars, NestInv, NestPair, Nests, Rank, AckStep
<1> QED BY <1>2, <1>3, <1>4 DEF Next

LEMMA NestInit == Init => NestInv
BY DEF Init, Chips, ResetChip, NestInv, NestPair, Nests

\* However the guest masks, ends, initialises and changes trigger modes, an
\* acknowledge (getInterrupt) interrupts only what has a lower priority, on a
\* controller whose priorities it leaves alone.
THEOREM AcknowledgesNest == Spec => AckNests
<1>1. PicInv /\ guest \in Guests /\ NestInv /\ [Next]_vars => [AckStep]_vars
  BY StepNests
<1>2. PicInv /\ guest \in Guests /\ NestInv /\ [Next]_vars => NestInv'
  BY StepNests
<1> QED BY <1>1, <1>2, NestInit, InvHolds, GuestStays, PTL DEF Spec, AckNests, AckStep
=============================================================================
