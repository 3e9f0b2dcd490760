--------------------------------- MODULE Fatx ---------------------------------
(***************************************************************************)
(* The driver of one FATX partition (fatx.cpp): the cluster table, the FAT *)
(* and the directory streams kept in files of the host, and the packets of *)
(* the I/O worker that change them.                                        *)
(*                                                                         *)
(* Abstractions.  An operation is the sequence of writes it makes; a write *)
(* may fail, and the process may be killed between two of them.  The part  *)
(* of PartitionN.bin after the FAT is an array of directory clusters: the  *)
(* paths that are appended for files take no room in it.  The whole FAT    *)
(* fits in the buffer it is read through.  Time stamps, attributes and the *)
(* bytes of files are left out; raw accesses to the partition are not      *)
(* modelled.                                                               *)
(***************************************************************************)
EXTENDS Naturals, Sequences, FiniteSets

CONSTANTS
    Paths,       \* sequences of names, below the root directory
    Dirs,        \* those that are directories
    TotClusters, \* clusters that fit in the partition
    Padding,     \* entries of the FAT behind them, which fill its last page
    PerStream,   \* dirents in a cluster
    ClusterSize, \* m_cluster_size
    Sizes,       \* sizes files are created with and grown to, in bytes
    MaxStreams,  \* bound on the directory clusters appended to the file
    MaxCount,    \* bound on m_cluster_free_num
    Fat16,       \* IS_FATX16(): are the entries of the FAT 16 bits wide?
    Uses         \* what is done with the partition: one of these sets of words

ASSUME DirsAssumption == /\ Dirs \subseteq Paths /\ \A p \in Paths : Len(p) > 0
                         /\ \A p \in Paths : Len(p) > 1 => SubSeq(p, 1, Len(p) - 1) \in Dirs
ASSUME SizesAssumption == /\ Sizes \subseteq Nat \ {0} /\ ClusterSize \in Nat \ {0} /\ PerStream \in Nat \ {0}
                          /\ TotClusters \in Nat /\ TotClusters > 2 /\ Padding \in Nat \ {0}
                          /\ MaxStreams \in Nat \ {0} /\ MaxCount \in Nat
ASSUME UsesAssumption == \A u \in Uses : u \subseteq
    {"empty", "large", "append", "extend", "remove", "truncate", "resize", "restart", "sync", "fault", "kill"}

VARIABLES
    disk,   \* the two files of the partition
    mem,    \* the members of the driver
    opened, \* s_xbox_handle_map: the cached dirent of each open path
    listed, \* the paths the guest has created and not removed (history)
    use     \* what is done in this behaviour

vars == <<disk, mem, opened, listed, use>>

FatLength == TotClusters + Padding
Clusters == 1 .. FatLength
FREE == 0
EOC == FatLength + 1
ROOT == FatLength + 2
NoSlot == <<0, 0>>

Freed == [type |-> "freed", at |-> 0, of |-> <<>>]
Unused == [name |-> "", dir |-> FALSE, first |-> FREE, size |-> 0, mark |-> "end"]
Closed == [at |-> NoSlot, dirent |-> Unused]

\* CLUSTER_DATA_ENTRY: where the cluster is found, or what file it is part of
Entries == [type : {"freed", "file", "directory"}, at : 0 .. FatLength + MaxStreams, of : Paths \cup {<<>>}]

\* DIRENT: mark stands for name_length, whose special values are end and deleted
DirentSet == [name : {p[Len(p)] : p \in Paths} \cup {""}, dir : BOOLEAN, first : 0 .. FatLength,
              size : Sizes \cup {0}, mark : {"live", "deleted", "end"}]

LastOf(s) == s[Len(s)]
Smallest(S) == CHOOSE i \in S : \A j \in S : i <= j
ClustersOf(size) == (size + ClusterSize - 1) \div ClusterSize
Parent(p) == SubSeq(p, 1, Len(p) - 1)

\* f(x), where x is evaluated once
With(x, f(_)) == CHOOSE r \in {f(y) : y \in {x}} : TRUE

-----------------------------------------------------------------------------
(***************************************************************************)
(* The FAT                                                                 *)
(***************************************************************************)

\* the clusters of a chain in order; a cyclic one is cut short
ChainOf(fat, first) ==
    LET next == [c \in 0 .. ROOT |-> IF c \in Clusters THEN fat[c] ELSE c]
        at[k \in Clusters] == IF k = 1 THEN first ELSE next[at[k - 1]] IN
    [k \in 1 .. Cardinality({k \in Clusters : at[k] \in Clusters}) |-> at[k]]

ChainEnds(fat, first) == \E s \in {ChainOf(fat, first)} : s # <<>> /\ fat[LastOf(s)] = EOC

FreeClusters(fat) == {c \in Clusters : fat[c] = FREE}

\* the order in which free clusters are looked for: from the last one allocated
\* to the end of the FAT, then from its beginning
Distance(c, last) == (c + FatLength - last) % FatLength

FoundClusters(fat, last, n) == With(FreeClusters(fat), LAMBDA free :
    [i \in 1 .. n |-> CHOOSE c \in free : Cardinality({b \in free : Distance(b, last) < Distance(c, last)}) = i - 1])

\* Variant: a cluster that ends a chain is taken for a free one.
ChainedOverEoc(fat, last, n) ==
    LET over == [c \in Clusters |-> IF fat[c] = EOC THEN FREE ELSE fat[c]] IN
    With(FoundClusters(over, last, n), LAMBDA found :
        [fat |-> [c \in Clusters |-> IF \E i \in 1 .. n : found[i] = c THEN EOC ELSE fat[c]], found |-> found])

\* the entries of the clusters found.  The entry of the last cluster before the
\* end of the FAT is not written when the chain goes on at its beginning: the link
\* to the first one found there goes to the start of the buffer, the root's entry.
Linked(fat, last, found) ==
    LET n == Len(found)
        split(i) == i < n /\ found[i] >= last /\ found[i + 1] < last
        after(i) == IF i = n THEN EOC ELSE IF split(i) THEN FREE ELSE found[i + 1] IN
    [c \in Clusters |->
        IF \E i \in 1 .. n : found[i] = c THEN after(CHOOSE i \in 1 .. n : found[i] = c)
        ELSE IF c = 1 /\ \E i \in 1 .. n : split(i) THEN found[1 + CHOOSE i \in 1 .. n : split(i)]
        ELSE fat[c]]

\* allocate_free_clusters
Chained(fat, last, n) ==
    With(FoundClusters(fat, last, n), LAMBDA found : [fat |-> Linked(fat, last, found), found |-> found])

\* free_allocated_clusters: the end of the chain becomes a new end when clusters
\* are left; the entry of the last cluster keeps its end of chain mark
Unchained(fat, chain, left) ==
    [c \in Clusters |->
        IF left > 0 /\ c = chain[left] THEN EOC
        ELSE IF \E i \in left + 1 .. Len(chain) - 1 : chain[i] = c THEN FREE ELSE fat[c]]

-----------------------------------------------------------------------------
(***************************************************************************)
(* Directory streams                                                       *)
(***************************************************************************)

\* what scan_dirent_stream keeps between two clusters, and finds
Visits == [status : {"searching", "SUCCESS", "OBJECT_NAME_NOT_FOUND", "OBJECT_PATH_NOT_FOUND",
                     "FILE_CORRUPT_ERROR", "IO_DEVICE_ERROR"},
           cluster : Nat, depth : Nat, num : Nat, stream : Nat, boundary : BOOLEAN, dirent : DirentSet,
           free : Nat \X Nat, at : Nat \X Nat]

\* Variant: the mark of a deleted dirent ends the stream, too.
VisitedShort(d, tot, path, p) ==
    IF p.cluster \notin 1 .. tot \/ p.num >= FatLength * PerStream THEN [p EXCEPT !.status = "FILE_CORRUPT_ERROR"]
    ELSE LET slots == d.streams[d.table[p.cluster].at]
             stop == {i \in 1 .. PerStream : slots[i].mark # "live" \/ slots[i].name = path[p.depth]} IN
         IF stop = {} THEN [p EXCEPT !.cluster = d.fat[p.cluster], !.num = @ + PerStream]
         ELSE [p EXCEPT !.status = IF slots[Smallest(stop)].mark = "live" THEN "SUCCESS" ELSE "OBJECT_NAME_NOT_FOUND",
                        !.at = <<d.table[p.cluster].at, Smallest(stop)>>, !.stream = p.cluster,
                        !.dirent = slots[Smallest(stop)], !.boundary = Smallest(stop) = PerStream]

\* scan_dirent_stream, one cluster: up to the entry that is looked for, to the end
\* of the stream, or on to the next cluster, which at an end of chain is not one
Visited(d, tot, path, p) ==
    IF p.cluster \notin 1 .. tot \/ p.num >= FatLength * PerStream THEN [p EXCEPT !.status = "FILE_CORRUPT_ERROR"]
    ELSE IF d.table[p.cluster].type # "directory" THEN [p EXCEPT !.status = "IO_DEVICE_ERROR"]
    ELSE LET at == d.table[p.cluster].at
             slots == d.streams[at]
             final == p.depth = Len(path)
             matches(i) == slots[i].mark = "live" /\ slots[i].name = path[p.depth] /\ (final \/ slots[i].dir)
             stop == {i \in 1 .. PerStream : slots[i].mark = "end" \/ matches(i)}
             here == IF stop = {} THEN PerStream + 1 ELSE Smallest(stop)
             vacant == {i \in 1 .. PerStream : i <= here /\ slots[i].mark # "live"}
             free == IF p.free = NoSlot /\ vacant # {} THEN <<at, Smallest(vacant)>> ELSE p.free IN
         IF stop = {} THEN [p EXCEPT !.cluster = d.fat[p.cluster], !.num = @ + PerStream, !.free = free]
         ELSE IF slots[here].mark = "end"
         THEN [p EXCEPT !.status = IF final THEN "OBJECT_NAME_NOT_FOUND" ELSE "OBJECT_PATH_NOT_FOUND",
                        !.at = free, !.stream = p.cluster, !.boundary = p.num + here = PerStream]
         ELSE IF final THEN [p EXCEPT !.status = "SUCCESS", !.at = <<at, here>>, !.dirent = slots[here]]
         ELSE [p EXCEPT !.cluster = slots[here].first, !.depth = @ + 1, !.num = 0, !.free = NoSlot]

\* find_dirent_for_file
Scan(d, tot, path) ==
    LET start == [status |-> "searching", cluster |-> 1, depth |-> 1, num |-> 0, free |-> NoSlot,
                  at |-> NoSlot, stream |-> 0, boundary |-> FALSE, dirent |-> Unused]
        scan[p \in Visits] == IF p.status = "searching" THEN scan[Visited(d, tot, path, p)] ELSE p
    IN scan[start]

Search(path) == Scan(disk, mem.tot, path)

PutDirent(d, slot, e) == [d EXCEPT !.streams[slot[1]][slot[2]] = e]
PutFat(d, fat) == [d EXCEPT !.fat = fat]

\* what the overloads of update_cluster_table share: cluster cs[i] gets entry es[i]
PutTable(d, cs, es) ==
    [d EXCEPT !.table = With(@, LAMBDA table : [c \in Clusters |->
        IF \E i \in DOMAIN cs : cs[i] = c THEN es[CHOOSE i \in DOMAIN cs : cs[i] = c] ELSE table[c]])]

BlankStream == [i \in 1 .. PerStream |-> Unused]

\* a cluster of free dirents is written where the file ends
AppendStream(d) == With(d, LAMBDA e : [e EXCEPT !.streams[e.end + 1] = BlankStream, !.end = @ + 1])

-----------------------------------------------------------------------------
(***************************************************************************)
(* Operations as sequences of writes.  Each write comes with the members   *)
(* of the driver at that moment.                                           *)
(***************************************************************************)

Write(d, m) == [disk |-> d, mem |-> m]
DirectoryAt(n) == [type |-> "directory", at |-> n, of |-> <<>>]

\* Variant: the clusters of a file are counted from one.
PutFileFromOne(d, found, path, base) ==
    PutTable(d, found, [i \in DOMAIN found |-> [type |-> "file", at |-> base + i, of |-> path]])

\* the overload of update_cluster_table for files
PutFile(d, found, path, base) ==
    PutTable(d, found, [i \in DOMAIN found |-> [type |-> "file", at |-> base + i - 1, of |-> path]])

\* a cluster for the directory itself: extend_dirent_stream.  Its own entry of
\* the FAT is an end of chain already.
StreamWrites(d, m, stream) == With(Chained(d.fat, m.last, 1), LAMBDA a :
    LET c == a.found[1]
        m1 == [m EXCEPT !.last = c]
        d1 == PutFat(d, a.fat)
        d2 == AppendStream(d1)
        d3 == [d2 EXCEPT !.fat[stream] = c]
        d4 == PutTable(d3, a.found, [i \in DOMAIN a.found |-> DirectoryAt(m.size + 1)]) IN
    <<Write(d1, m1), Write(d2, m1), Write(d3, m1), Write(d4, m1)>>)

\* Variant: the clusters are taken from the count here, too.
FileWritesCounted(d, m, path, entry, slot, need) == With(Chained(d.fat, m.last, need), LAMBDA a :
    LET m1 == [m EXCEPT !.last = LastOf(a.found), !.free = @ - need]
        d1 == PutFat(d, a.fat)
        d2 == PutDirent(d1, slot, [entry EXCEPT !.first = a.found[1]])
        d3 == IF entry.dir THEN AppendStream(d2) ELSE d2
        d4 == IF entry.dir THEN PutTable(d3, a.found, [i \in DOMAIN a.found |-> DirectoryAt(m.size + 1)])
              ELSE PutFile(d3, a.found, path, 0) IN
    <<Write(d1, m1), Write(d2, m1), Write(d3, m1), Write(d4, m1)>>)

\* the clusters of a new file or directory, its dirent, its stream or path
FileWrites(d, m, path, entry, slot, need) == With(Chained(d.fat, m.last, need), LAMBDA a :
    LET m1 == [m EXCEPT !.last = LastOf(a.found)]
        d1 == PutFat(d, a.fat)
        d2 == PutDirent(d1, slot, [entry EXCEPT !.first = a.found[1]])
        d3 == IF entry.dir THEN AppendStream(d2) ELSE d2
        d4 == IF entry.dir THEN PutTable(d3, a.found, [i \in DOMAIN a.found |-> DirectoryAt(m.size + 1)])
              ELSE PutFile(d3, a.found, path, 0) IN
    <<Write(d1, m1), Write(d2, m1), Write(d3, m1), Write(d4, m1)>>)

\* create_dirent_for_file.  When only the directory needs a cluster the dirent
\* is not written.
CreateWrites(path, entry, s, need) ==
    IF need = 0
    THEN IF s.boundary THEN StreamWrites(disk, mem, s.stream)
         ELSE <<Write(PutDirent(disk, s.at, entry), mem)>>
    ELSE With(FileWrites(disk, mem, path, entry, s.at, need), LAMBDA own :
             LET m == [LastOf(own).mem EXCEPT !.size = @ + IF entry.dir THEN 1 ELSE 0] IN
             IF s.boundary THEN own \o StreamWrites(LastOf(own).disk, m, s.stream) ELSE own)

\* free_allocated_clusters and the overload of update_cluster_table that frees
FreeWrites(m, chain, left) ==
    LET m1 == [m EXCEPT !.free = @ + Len(chain) - left]
        d1 == PutFat(disk, Unchained(disk.fat, chain, left))
        freed == SubSeq(chain, left + 1, Len(chain))
        d2 == PutTable(d1, freed, [i \in DOMAIN freed |-> Freed]) IN
    <<Write(d1, m), Write(d2, m1)>>

\* extend_cluster_chain: the buffer that was read before the clusters were
\* allocated is written back from the lowest cluster of the chain on
ExtendWrites(path, chain, n) == With(Chained(disk.fat, mem.last, n), LAMBDA a :
    LET m1 == [mem EXCEPT !.last = LastOf(a.found)]
        lowest == Smallest({chain[i] : i \in DOMAIN chain})
        d1 == PutFat(disk, a.fat)
        d2 == PutFat(d1, [c \in Clusters |-> IF c = LastOf(chain) THEN a.found[1]
                                             ELSE IF c >= lowest THEN disk.fat[c] ELSE a.fat[c]])
        d3 == PutFile(d2, a.found, path, Len(chain) - 1) IN
    <<Write(d1, m1), Write(d2, m1), Write(d3, m1)>>)

-----------------------------------------------------------------------------
(***************************************************************************)
(* Packets of the worker                                                   *)
(***************************************************************************)

Running == mem.run = "up"

Before(writes, k) == IF k = 1 THEN disk ELSE writes[k - 1].disk

\* all writes succeed
Done(writes, m) == disk' = LastOf(writes).disk /\ mem' = m

\* metadata_set_corrupted_state, but for the writes whose failure only ends the operation
Fails(writes, quiet, k) ==
    /\ "fault" \in use
    /\ disk' = Before(writes, k)
    /\ mem' = [writes[k].mem EXCEPT !.corrupted = @ \/ k \notin quiet]

\* the process ends without flush(); some of the writes were made
Killed(writes) ==
    /\ "kill" \in use
    /\ \E k \in DOMAIN writes : disk' = Before(writes, k)
    /\ mem' = [mem EXCEPT !.run = "killed"]
    /\ opened' = [p \in Paths |-> Closed]
    /\ UNCHANGED listed

\* std::unreachable: the driver counts more free clusters than the FAT has
Undefined == mem' = [mem EXCEPT !.run = "undefined"] /\ UNCHANGED <<disk, opened, listed>>

Corrupted == mem' = [mem EXCEPT !.corrupted = TRUE] /\ UNCHANGED <<disk, opened, listed>>

\* the kernel does not open a path again while it is open or being removed
Idle(p) == opened[p] = Closed

Create(p, size) == Running /\ Idle(p) /\ \E s \in {Search(p)} :
    LET need == IF p \in Dirs THEN 1 ELSE ClustersOf(size)
        extra == IF s.boundary THEN 1 ELSE 0
        streams == extra + IF p \in Dirs THEN 1 ELSE 0
        entry == [name |-> LastOf(p), dir |-> p \in Dirs, first |-> FREE, size |-> size, mark |-> "live"]
        quiet == IF need = 0 THEN {1 + extra} ELSE {6}
        first == IF need = 0 THEN FREE ELSE Chained(disk.fat, mem.last, need).found[1] IN
    /\ s.status = "OBJECT_NAME_NOT_FOUND"
    /\ p \in Dirs => size = 0
    /\ need = 0 => "empty" \in use
    /\ need > 1 => "large" \in use
    /\ mem.free >= need + extra
    /\ IF Cardinality(FreeClusters(disk.fat)) < need + extra THEN Undefined
       ELSE /\ disk.end + streams <= MaxStreams
            /\ \E writes \in {CreateWrites(p, entry, s, need)} :
               \/ /\ Done(writes, [LastOf(writes).mem EXCEPT !.free = @ - need - extra, !.size = mem.size + streams])
                  /\ opened' = [opened EXCEPT ![p] = [at |-> s.at, dirent |-> [entry EXCEPT !.first = first]]]
                  /\ listed' = listed \cup {p}
               \/ (\E k \in DOMAIN writes : Fails(writes, quiet, k)) /\ UNCHANGED <<opened, listed>>
               \/ Killed(writes)
    /\ UNCHANGED use

Open(p) == Running /\ Idle(p) /\ \E s \in {Search(p)} :
    /\ s.status = "SUCCESS"
    /\ opened' = [opened EXCEPT ![p] = [at |-> s.at, dirent |-> s.dirent]]
    /\ UNCHANGED <<disk, mem, listed, use>>

\* what is left of the growth of a file when its clusters are found: the free
\* clusters are counted here only when the chain is extended
Grown(p, size, all, m) == \E writes \in {all} :
    \/ /\ Done(writes, m)
       /\ opened' = [opened EXCEPT ![p].dirent.size = size,
                                   ![p].dirent.first = IF @ = FREE THEN Chained(disk.fat, mem.last, ClustersOf(size)).found[1] ELSE @]
       /\ UNCHANGED listed
    \/ (\E k \in DOMAIN writes : Fails(writes, {}, k)) /\ UNCHANGED <<opened, listed>>
    \/ Killed(writes)

AppendFirst(p, size) ==
    LET n == ClustersOf(size)
        a == Chained(disk.fat, mem.last, n)
        m == [mem EXCEPT !.last = LastOf(a.found)]
        d == PutFat(disk, a.fat) IN
    /\ "append" \in use /\ opened[p].dirent.first = FREE
    /\ n > 1 => "large" \in use
    /\ mem.free >= n
    /\ IF Cardinality(FreeClusters(disk.fat)) < n THEN Undefined
       ELSE Grown(p, size, <<Write(d, m), Write(PutFile(d, a.found, p, 0), m)>>, m)

AppendMore(p, size) ==
    LET e == opened[p].dirent
        n == ClustersOf(size) - ClustersOf(e.size)
        writes == ExtendWrites(p, ChainOf(disk.fat, e.first), n) IN
    /\ "extend" \in use /\ e.first # FREE
    /\ mem.free >= n
    /\ IF Fat16 \/ ~ChainEnds(disk.fat, e.first) THEN Corrupted
       ELSE IF Cardinality(FreeClusters(disk.fat)) < n THEN Undefined
       ELSE Grown(p, size, writes, [LastOf(writes).mem EXCEPT !.free = @ - n])

\* append_clusters_to_file.  A 16 bits wide end of chain is never recognised.
AppendTo(p, size) ==
    /\ Running /\ ~Idle(p) /\ p \notin Dirs /\ opened[p].dirent.mark = "live"
    /\ size > ClustersOf(opened[p].dirent.size) * ClusterSize
    /\ AppendFirst(p, size) \/ AppendMore(p, size)
    /\ UNCHANGED use

\* delete_dirent_for_file: only the cached dirent is marked, Close writes it
Remove(p) ==
    LET e == opened[p].dirent
        marked == [opened EXCEPT ![p].dirent.mark = "deleted", ![p].dirent.first = FREE] IN
    /\ "remove" \in use /\ Running /\ ~Idle(p) /\ e.mark = "live"
    /\ \A q \in Paths : Len(q) > 1 /\ Parent(q) = p => q \notin listed /\ Idle(q)
    /\ IF e.first = FREE THEN opened' = marked /\ UNCHANGED <<disk, mem, listed>>
       ELSE IF ~ChainEnds(disk.fat, e.first) THEN Corrupted
       ELSE \E writes \in {FreeWrites(mem, ChainOf(disk.fat, e.first), 0)} :
            \/ Done(writes, LastOf(writes).mem) /\ opened' = marked /\ UNCHANGED listed
            \/ (\E k \in DOMAIN writes : Fails(writes, {}, k)) /\ UNCHANGED <<opened, listed>>
            \/ Killed(writes)
    /\ UNCHANGED use

\* the dirent is written last, and cached
Rewritten(p, at, e, writes) ==
    \E all \in {With(writes, LAMBDA ws :
                    Append(ws, Write(PutDirent(LastOf(ws).disk, at, e), LastOf(ws).mem)))} :
    \/ /\ Done(all, LastOf(all).mem)
       /\ opened' = [opened EXCEPT ![p] = [at |-> at, dirent |-> e]] /\ UNCHANGED listed
    \/ (\E k \in DOMAIN all : Fails(all, {}, k)) /\ UNCHANGED <<opened, listed>>
    \/ Killed(all)

\* the new clusters are not linked to the old ones, and all are counted
Enlarge(p, size, s) ==
    LET n == ClustersOf(size) - ClustersOf(s.dirent.size)
        a == Chained(disk.fat, mem.last, n)
        m == [mem EXCEPT !.last = LastOf(a.found)]
        d == PutFat(disk, a.fat)
        d2 == PutFile(d, a.found, p, ClustersOf(s.dirent.size)) IN
    /\ "resize" \in use /\ size > s.dirent.size
    /\ mem.free >= ClustersOf(size)
    /\ IF n = 0 \/ Cardinality(FreeClusters(disk.fat)) < n THEN Undefined
       ELSE Rewritten(p, s.at, [s.dirent EXCEPT !.size = size],
                <<Write(d, m), Write(d2, [m EXCEPT !.free = @ - ClustersOf(size)])>>)

\* a file that keeps all its clusters is read past its end of chain
Shrink(p, size, s) ==
    LET chain == ChainOf(disk.fat, s.dirent.first)
        e == [s.dirent EXCEPT !.size = size, !.first = IF size = 0 THEN FREE ELSE @] IN
    /\ "truncate" \in use /\ size < s.dirent.size /\ s.dirent.first # FREE
    /\ IF ~ChainEnds(disk.fat, s.dirent.first) \/ ClustersOf(size) >= Len(chain) THEN Corrupted
       ELSE Rewritten(p, s.at, e, FreeWrites(mem, chain, ClustersOf(size)))

\* overwrite_dirent_for_file: with the size of before there is only the dirent
Overwrite(p, size) == Running /\ Idle(p) /\ p \notin Dirs /\ \E s \in {Search(p)} :
    /\ s.status = "SUCCESS"
    /\ Enlarge(p, size, s) \/ Shrink(p, size, s)
    /\ UNCHANGED use

\* flush_dirent_for_file, by a close packet or when the worker stops
Close(p) ==
    LET writes == <<Write(PutDirent(disk, opened[p].at, opened[p].dirent), mem)>> IN
    /\ mem.run \in {"up", "stopping"} /\ ~Idle(p)
    /\ \/ /\ Done(writes, mem) \/ Fails(writes, {}, 1)
          /\ opened' = [opened EXCEPT ![p] = Closed]
          /\ listed' = IF opened[p].dirent.mark = "deleted" THEN listed \ {p} ELSE listed
       \/ Killed(writes)
    /\ UNCHANGED use

Stop ==
    /\ "restart" \in use /\ Running
    /\ mem' = [mem EXCEPT !.run = "stopping"]
    /\ UNCHANGED <<disk, opened, listed, use>>

\* flush_metadata_file
Saved == IF mem.corrupted THEN disk ELSE [disk EXCEPT !.dirty = FALSE, !.last = mem.last]

Save ==
    /\ mem.run = "stopping" /\ \A p \in Paths : Idle(p)
    /\ disk' = Saved \/ ("fault" \in use /\ disk' = disk)
    /\ mem' = [mem EXCEPT !.run = "down"]
    /\ UNCHANGED <<opened, listed, use>>

Formatted ==
    [fat |-> [c \in Clusters |-> IF c = 1 THEN ROOT ELSE IF c = 2 THEN EOC ELSE FREE],
     table |-> [c \in Clusters |-> IF c = 1 THEN DirectoryAt(1) ELSE Freed],
     streams |-> [n \in 1 .. MaxStreams |-> BlankStream], end |-> 1, dirty |-> TRUE, last |-> 1]

\* format_partition counts no padding, but one cluster too many
FreshMem(corrupted) ==
    [run |-> "up", free |-> TotClusters - 1, tot |-> TotClusters + 1, last |-> 1, size |-> 1, corrupted |-> corrupted]

\* setup_cluster_info counts the padding, and on top of what was counted before
ReadMem(base, corrupted) ==
    [run |-> "up", free |-> base + Cardinality(FreeClusters(disk.fat)), tot |-> TotClusters,
     last |-> disk.last, size |-> disk.end, corrupted |-> corrupted]

\* init: of a new process, or for the next console of the same one
Launch(new) ==
    LET corrupted == mem.corrupted /\ ~new
        base == IF new THEN 0 ELSE mem.free IN
    /\ mem.run = "down" \/ (mem.run = "killed" /\ new)
    /\ IF disk.dirty THEN disk' = Formatted /\ mem' = FreshMem(corrupted) /\ listed' = {}
       ELSE /\ base + Cardinality(FreeClusters(disk.fat)) <= MaxCount
            /\ mem' = ReadMem(base, corrupted) /\ UNCHANGED <<disk, listed>>
    /\ UNCHANGED <<opened, use>>

\* sync_partition_files formats the files in place, which keep their length; the
\* files of the host are created again by Create
LaunchSync ==
    /\ "sync" \in use /\ mem.run = "down" /\ ~disk.dirty
    /\ disk' = [disk EXCEPT !.fat = Formatted.fat, !.streams[1] = BlankStream, !.dirty = TRUE]
    /\ mem' = FreshMem(mem.corrupted)
    /\ listed' = {}
    /\ UNCHANGED <<opened, use>>

Init ==
    /\ use \in Uses
    /\ disk = Formatted /\ mem = FreshMem(FALSE)
    /\ opened = [p \in Paths |-> Closed]
    /\ listed = {}

Next ==
    \/ \E p \in Paths : \/ Open(p) \/ Remove(p) \/ Close(p)
                        \/ \E size \in Sizes \cup {0} : Create(p, size) \/ Overwrite(p, size)
                        \/ \E size \in Sizes : AppendTo(p, size)
    \/ Stop \/ Save \/ (\E new \in BOOLEAN : Launch(new)) \/ LaunchSync

Spec == Init /\ [][Next]_vars

-----------------------------------------------------------------------------
\* What the files of the partition and the members of the driver can hold.
TypeOK ==
    /\ use \in Uses /\ listed \subseteq Paths
    /\ opened \in [Paths -> [at : (0 .. MaxStreams) \X (0 .. PerStream), dirent : DirentSet]]
    /\ disk \in [fat : [Clusters -> 0 .. ROOT], table : [Clusters -> Entries],
                 streams : [1 .. MaxStreams -> [1 .. PerStream -> DirentSet]],
                 end : 1 .. MaxStreams, dirty : BOOLEAN, last : Clusters]
    /\ mem \in [run : {"up", "stopping", "down", "killed", "undefined"}, free : Nat, tot : Clusters,
                last : Clusters, size : 1 .. MaxStreams, corrupted : BOOLEAN]

\* What a property excludes is what refutes it (README, section 5).  An allocation of
\* several clusters goes round the end of the FAT, over the root's entry, once some
\* were freed; nothing is said of a partition known corrupted, nor of one whose padding
\* behind the last cluster is allocated.
GoesRound == use \cap {"large", "extend"} # {} /\ use \cap {"remove", "truncate"} # {}

Without(words) ==
    /\ Running /\ ~mem.corrupted /\ use \cap words = {} /\ ~GoesRound
    /\ \A c \in TotClusters + 1 .. FatLength : disk.fat[c] = FREE

\* The dirents are looked up through the FAT and the cluster table from the root
\* (find_dirent_for_file): they are found for what the guest created and did not
\* remove, whatever was created, removed, truncated and launched again between.
ListingAgrees ==
    Without({"empty", "fault", "kill", "sync"})
        => \A p \in Paths : Search(p).status = "SUCCESS" <=> p \in listed

\* the dirent of a path: the cached one counts while it is open
DirentOf(p) == IF Idle(p) THEN Search(p).dirent ELSE opened[p].dirent
Existing == {p \in listed : DirentOf(p).mark = "live" /\ DirentOf(p).first # FREE}
ChainFor(p) == ChainOf(disk.fat, DirentOf(p).first)

\* A path has a chain that ends and is as long as its size asks for
\* (allocate_free_clusters, free_allocated_clusters), and no two chains share a
\* cluster, the root directory's included.
FilesOwnClusters ==
    Without({"extend", "resize"}) =>
        /\ \A p \in Existing : /\ ChainEnds(disk.fat, DirentOf(p).first)
                               /\ p \notin Dirs => Len(ChainFor(p)) = ClustersOf(DirentOf(p).size)
        /\ \A p, q \in Existing : p # q =>
            {ChainFor(p)[i] : i \in DOMAIN ChainFor(p)} \cap {ChainFor(q)[i] : i \in DOMAIN ChainFor(q)} = {}
        /\ \A p \in Existing : 1 \notin {ChainFor(p)[i] : i \in DOMAIN ChainFor(p)}

\* The FAT and the members hold what their types allow, and chains that are apart.
PartitionSound == TypeOK /\ FilesOwnClusters

\* The cluster table says of every cluster of a file which file it is and which
\* part of it (update_cluster_table): raw accesses to the partition go by it.
TypesAgree ==
    Without({"extend", "kill"}) =>
        \A p \in Existing \ Dirs : \A i \in DOMAIN ChainFor(p) :
            disk.table[ChainFor(p)[i]] = [type |-> "file", at |-> i - 1, of |-> p]

\* A guest is told of a full disk (m_cluster_free_num) only when the clusters are
\* really used: all that are free are counted, but as many as were taken from the
\* padding in their place.
NeverFalselyFull ==
    Running /\ ~mem.corrupted /\ use \cap {"extend", "resize"} = {} =>
        mem.free + Cardinality({c \in TotClusters + 1 .. FatLength : disk.fat[c] # FREE})
            >= Cardinality(FreeClusters(disk.fat) \cap 1 .. TotClusters)

-----------------------------------------------------------------------------
\* What flush_metadata_file logs, "it will be recreated on the next launch", and
\* what the flag is for: a partition marked corrupted is recreated.  Refuted: the
\* mark is kept in memory only, and a session that ended well cleared the stored one.
CorruptedIsRecreated ==
    [][(mem.run = "down" /\ mem.corrupted /\ mem'.run = "up") => listed' = {}]_vars
=============================================================================
