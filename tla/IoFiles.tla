------------------------------- MODULE IoFiles -------------------------------
(***************************************************************************)
(* The request handlers of the host I/O worker (io.cpp, the part of        *)
(* io::worker between popping a packet and posting its result): what an    *)
(* open, close, read, write or remove packet does to the handle map, to    *)
(* the dirents stored in the partition and to the files of the host, and   *)
(* the status it reports to the guest kernel.                              *)
(*                                                                         *)
(* Abstractions.  One FATX partition ("hdd") stands for partitions 1 to 5  *)
(* and the dirents of its directories are the slots of one stream.  A      *)
(* dirent keeps the fields that decide an outcome: the name, the           *)
(* attributes, the size and whether it was deleted.  Time stamps and file  *)
(* bytes are left out, and so are the cluster chains: Fatx has them.  What *)
(* depends on a chain, whether a directory is at the end of a cluster and  *)
(* whether clusters are left, is left open here.  The guest kernel that    *)
(* issues the packets is not part of the repository: GuestRequests and     *)
(* GuestLearns say what io.cpp and fatx.cpp state they expect of it.       *)
(***************************************************************************)
EXTENDS Naturals, FiniteSets

CONSTANTS
    Paths,        \* files and directories the guest names on the partition
    Disc,         \* disc paths to the attributes they have there
    Handles,      \* host handles the kernel gives to open files
    Slots,        \* dirent offsets of the partition
    MaxSize,      \* bound on the size of a file, in bytes
    ClusterSize,  \* m_cluster_size, in bytes
    DvdInput,     \* g_dvd_input_type: "xiso" or "xbe"
    Extents,      \* offsets and sizes of the transfers the guest asks for
    OpenRequests, \* the open packets the guest may send, up to the handle
    RawDirents,   \* what the bytes of a raw write can put in place of a dirent
    HostFaults,   \* can the host file system and the allocator fail?
    Sharing,      \* does the guest open a file that it already has open?
    Stray         \* does the guest use a handle it has not got from an open?

Root == "\\"
Devs == {"cdrom", "hdd"}
DevHandles == Devs                      \* CDROM_HANDLE, PARTITIONx_HANDLE
AllHandles == Handles \cup DevHandles
NoDirent == [path |-> "none", attrs |-> {}, size |-> 0, live |-> FALSE]
NoFile == [path |-> "none", open |-> FALSE]
NoPath == "none"
NoSize == MaxSize + 1                   \* the host has no file of that name

ASSUME SizesAssumption == MaxSize \in Nat /\ ClusterSize \in Nat \ {0}
ASSUME SlotsAssumption == Slots \subseteq Nat \ {0} /\ IsFiniteSet(Slots)
ASSUME ExtentsAssumption == \A e \in Extents : e \in Nat \X Nat /\ e[1] + e[2] <= MaxSize
ASSUME NamesAssumption == Handles \cap DevHandles = {} /\ Paths \cap DOMAIN Disc = {}
                          /\ {Root, NoPath} \cap (Paths \cup DOMAIN Disc) = {}
ASSUME InputAssumption == DvdInput \in {"xiso", "xbe"}

VARIABLES
    disk,      \* the dirent stream of the partition, slot by slot
    intact,    \* auxiliary: no create has left its dirent out yet, and no raw write has reached the dirents
    host,      \* length of the host file behind a path, or NoSize
    handleMap, \* s_xbox_handle_map
    info,      \* the info block of the packet that was handled last
    owner,     \* the path the guest holds open under a handle (guest kernel)
    doomed     \* handles the guest has sent a remove for (guest kernel)

stored == <<disk, host, intact>>
fileVars == <<stored, handleMap>>
guestVars == <<owner, doomed>>
vars == <<fileVars, info, guestVars>>

Dirents == [path : Paths \cup {Root}, attrs : SUBSET {"dir", "ro"}, size : 0 .. MaxSize, live : BOOLEAN]
ASSUME RawAssumption == RawDirents \subseteq Dirents /\ \A d \in RawDirents : d.path \in Paths
FatxFiles == [path : Paths \cup {Root}, open : BOOLEAN, slot : Slots \cup {0}, dirent : Dirents]
DiscFiles == [path : DOMAIN Disc, open : BOOLEAN]
DeviceObject == [path |-> "device", open |-> FALSE]

Statuses == {"SUCCESS", "IO_DEVICE_ERROR", "ACCESS_DENIED", "NOT_A_DIRECTORY",
             "FILE_IS_A_DIRECTORY", "OBJECT_NAME_NOT_FOUND", "OBJECT_PATH_NOT_FOUND", "FILE_CORRUPT_ERROR"}

\* info_t: what an open did; for a transfer it is the number of bytes
superseded == 0
opened == 1
created == 2
overwritten == 3
exists == 4
not_exists == 5
InfoBlocks == [status : Statuses, info : 0 .. 5 + MaxSize, file_size : 0 .. MaxSize]

\* make_unique leaves the info block of a packet zeroed
ZeroInfo == [status |-> "SUCCESS", info |-> 0, file_size |-> 0]

\* Variant: the status keeps its initial value, an I/O error.
ReplyInitial(status, information, size) ==
    info' = [status |-> "IO_DEVICE_ERROR", info |-> information, file_size |-> size]

Reply(status, information, size) ==
    info' = [status |-> status, info |-> information, file_size |-> size]

Opened(d, h) == handleMap[d][h] # NoFile

\* emplace() inserts nothing when the key is already there
Emplace(d, h, file) ==
    handleMap' = IF Opened(d, h) THEN handleMap ELSE [handleMap EXCEPT ![d][h] = file]

Find(path) == {s \in Slots : disk[s].live /\ disk[s].path = path}

\* Variant: the first slot that is looked at is taken for free.
FirstFreeUnchecked(s) == \A t \in Slots : t < s => disk[t].live
FirstFree(s) == ~disk[s].live /\ \A t \in Slots : t < s => disk[t].live
Full == \A s \in Slots : disk[s].live
HostHas(path) == host[path] # NoSize

\* create_file: when the file cannot be resized, that is only logged
HostMakes(path, size) ==
    \E length \in {size} \cup (IF HostFaults THEN {0} ELSE {}) : host' = [host EXCEPT ![path] = length]

\* driver::check_file_access, whose callers only ask whether it succeeds
AccessGranted(r, attrs, isCreate) ==
    /\ r.flags = "must_be_a_dir" => "dir" \in attrs
    /\ r.flags = "must_not_be_a_dir" => "dir" \notin attrs
    /\ "invalid" \notin r.access
    /\ "ro" \in attrs => (isCreate \/ "write" \notin r.access) /\ ~r.deleteOnClose

-----------------------------------------------------------------------------
(***************************************************************************)
(* Open and create packets                                                 *)
(***************************************************************************)

\* search_file / file_exists: anything on the disc opens, with the flags it has
OpenDisc(r) ==
    /\ r.dev = "cdrom"
    /\ UNCHANGED stored
    /\ \/ r.path \notin DOMAIN Disc /\ Reply("IO_DEVICE_ERROR", 0, 0) /\ UNCHANGED handleMap
       \/ /\ r.path \in DOMAIN Disc
          /\ r.flags = "must_be_a_dir" /\ "dir" \notin Disc[r.path]
          /\ Reply("NOT_A_DIRECTORY", exists, 0) /\ UNCHANGED handleMap
       \/ /\ r.path \in DOMAIN Disc
          /\ r.flags = "must_not_be_a_dir" /\ "dir" \in Disc[r.path]
          /\ Reply("FILE_IS_A_DIRECTORY", exists, 0) /\ UNCHANGED handleMap
       \/ /\ r.path \in DOMAIN Disc
          /\ r.flags = "must_be_a_dir" => "dir" \in Disc[r.path]
          /\ r.flags = "must_not_be_a_dir" => "dir" \notin Disc[r.path]
          /\ Emplace("cdrom", r.handle, [path |-> r.path, open |-> DvdInput = "xbe" /\ "dir" \notin Disc[r.path]])
          /\ Reply("SUCCESS", opened, 0)

\* add_to_map: the dirent becomes the cached copy, unless the handle is known
AddToMap(r, slot, dirent, open, information) ==
    /\ Emplace("hdd", r.handle, [path |-> r.path, open |-> open, slot |-> slot, dirent |-> dirent])
    /\ Reply("SUCCESS", information, dirent.size)

NotOpened(status, information) == Reply(status, information, 0) /\ UNCHANGED handleMap

OpenRoot(r) ==
    /\ r.path = Root
    /\ AddToMap(r, 0, [path |-> Root, attrs |-> {"dir"}, size |-> 0, live |-> TRUE], FALSE, opened)
    /\ UNCHANGED stored

\* an i/o error, a corrupt stream or one without a free slot, or no such
\* directory in the middle of the path
OpenSearchFails(r) ==
    /\ r.path # Root
    /\ HostFaults \/ ~intact \/ (Find(r.path) = {} /\ Full)
    /\ \E status \in {"IO_DEVICE_ERROR", "OBJECT_PATH_NOT_FOUND", "FILE_CORRUPT_ERROR"} : NotOpened(status, 0)
    /\ UNCHANGED stored

\* the dirent is there but its host file is not
OpenLost(r) ==
    /\ Find(r.path) # {} /\ ~HostHas(r.path)
    /\ NotOpened("IO_DEVICE_ERROR", 0)
    /\ UNCHANGED stored

OpenExisting(r) ==
    \E s \in Find(r.path) :
        LET dirent == disk[s] IN
        /\ HostHas(r.path) /\ r.disp \in {"IO_CREATE", "IO_OPEN", "IO_OPEN_IF"}
        /\ UNCHANGED stored
        /\ \/ r.disp = "IO_CREATE" /\ NotOpened("ACCESS_DENIED", exists)
           \/ /\ r.disp # "IO_CREATE" /\ AccessGranted(r, dirent.attrs, FALSE)
              /\ AddToMap(r, s, dirent, "dir" \notin dirent.attrs, opened)
           \/ /\ r.disp # "IO_CREATE"
              /\ ~AccessGranted(r, dirent.attrs, FALSE) \/ (HostFaults /\ "dir" \notin dirent.attrs)
              /\ NotOpened("IO_DEVICE_ERROR", exists)

\* Variant: the new size is forgotten.
OverwrittenKeepsSize(r, dirent) == [dirent EXCEPT !.attrs = r.attrs]

\* overwrite_dirent_for_file: keeps the size of what is now a directory
Overwritten(r, dirent) ==
    [dirent EXCEPT !.attrs = r.attrs,
                   !.size = IF "dir" \in dirent.attrs \cup r.attrs THEN @ ELSE r.size]

OpenOverwrite(r) ==
    \E s \in Find(r.path) :
        LET old == disk[s]
            new == Overwritten(r, old)
            isDir == "dir" \in old.attrs IN
        /\ HostHas(r.path) /\ r.disp \in {"IO_SUPERSEDE", "IO_OVERWRITE", "IO_OVERWRITE_IF"}
        /\ \/ /\ AccessGranted(r, old.attrs, TRUE)
              /\ IF isDir THEN UNCHANGED host ELSE HostMakes(r.path, r.size)
              /\ \/ /\ disk' = [disk EXCEPT ![s] = new]
                    /\ AddToMap(r, s, new, ~isDir, IF isDir THEN exists
                                                 ELSE IF r.disp = "IO_SUPERSEDE" THEN superseded ELSE overwritten)
                 \/ HostFaults /\ UNCHANGED disk /\ NotOpened("IO_DEVICE_ERROR", exists)
           \/ /\ ~AccessGranted(r, old.attrs, TRUE) \/ (HostFaults /\ ~isDir)
              /\ NotOpened("IO_DEVICE_ERROR", exists) /\ UNCHANGED <<disk, host>>
        /\ UNCHANGED intact

NewSize(r) == IF "dir" \in r.attrs THEN 0 ELSE r.size
NewDirent(r) == [path |-> r.path, attrs |-> r.attrs, size |-> NewSize(r), live |-> TRUE]
NeedsCluster(r) == "dir" \in r.attrs \/ r.size > 0

\* create_dirent_for_file: the dirent goes to the first free slot.  When the
\* file needs clusters, their writes come after it and the dirent stays if one
\* of them fails.  When it needs none but the slot is the last of the
\* directory, only the new cluster of the directory is written
CreateDirent(r, s) ==
    \/ /\ disk' = [disk EXCEPT ![s] = NewDirent(r)] /\ UNCHANGED intact
       /\ AddToMap(r, s, NewDirent(r), "dir" \notin r.attrs, created)
    \/ /\ HostFaults /\ NeedsCluster(r)
       /\ disk' = [disk EXCEPT ![s] = NewDirent(r)] /\ UNCHANGED intact
       /\ NotOpened("IO_DEVICE_ERROR", not_exists)
    \/ /\ ~NeedsCluster(r)
       /\ intact' = FALSE /\ UNCHANGED disk
       /\ AddToMap(r, s, NewDirent(r), "dir" \notin r.attrs, created)
    \/ HostFaults /\ UNCHANGED <<disk, intact>> /\ NotOpened("IO_DEVICE_ERROR", not_exists)

\* no dirent: create the host file, then its dirent
OpenCreate(r) ==
    /\ r.path # Root /\ Find(r.path) = {}
    /\ r.disp \in {"IO_CREATE", "IO_SUPERSEDE", "IO_OPEN_IF", "IO_OVERWRITE_IF"}
    /\ \E s \in Slots : FirstFree(s) /\
        \/ AccessGranted(r, r.attrs, TRUE) /\ HostMakes(r.path, NewSize(r)) /\ CreateDirent(r, s)
        \/ /\ ~AccessGranted(r, r.attrs, TRUE) \/ HostFaults
           /\ NotOpened("IO_DEVICE_ERROR", not_exists) /\ UNCHANGED stored

OpenNotFound(r) ==
    /\ r.path # Root /\ Find(r.path) = {} /\ ~Full /\ r.disp \in {"IO_OPEN", "IO_OVERWRITE"}
    /\ NotOpened("OBJECT_NAME_NOT_FOUND", not_exists)
    /\ UNCHANGED stored

OpenHdd(r) ==
    /\ r.dev = "hdd"
    /\ \/ OpenRoot(r) \/ OpenSearchFails(r) \/ OpenLost(r) \/ OpenExisting(r)
       \/ OpenOverwrite(r) \/ OpenCreate(r) \/ OpenNotFound(r)

-----------------------------------------------------------------------------
(***************************************************************************)
(* Packets on a handle                                                     *)
(***************************************************************************)

\* the error goes to a local block, the packet keeps the zeroed one
UnknownHandle(r) ==
    /\ ~Opened(r.dev, r.handle)
    /\ info' = ZeroInfo
    /\ UNCHANGED fileVars

\* Variant: the deletion is lost when the cached copy is written back.
FlushedUndeleted(file) == [file.dirent EXCEPT !.live = TRUE]

\* flush_dirent_for_file: FATX_DIRENT_DELETED makes the slot free again
Flushed(file) == IF file.dirent.live THEN file.dirent ELSE NoDirent

\* the write of a dirent can fail, which its caller is not told
WrittenBack(file) == {Flushed(file)} \cup IF HostFaults THEN {disk[file.slot]} ELSE {}

Close(r) ==
    LET file == handleMap[r.dev][r.handle] IN
    /\ IF r.dev = "hdd" /\ file.path # Root
       THEN \E dirent \in WrittenBack(file) : disk' = [disk EXCEPT ![file.slot] = dirent]
       ELSE UNCHANGED disk
    /\ handleMap' = [handleMap EXCEPT ![r.dev][r.handle] = NoFile]
    /\ Reply("SUCCESS", 0, 0)
    /\ UNCHANGED <<host, intact>>

\* partition and disc objects, and files: only the time stamps can change
BytesRead(r, file) ==
    IF r.handle \in DevHandles THEN {r.size}
    ELSE IF r.dev = "cdrom" THEN 0 .. r.size
    ELSE {IF r.offset >= host[file.path] THEN 0
          ELSE IF r.size <= host[file.path] - r.offset THEN r.size ELSE host[file.path] - r.offset}

Readable(r, file) ==
    IF r.handle \in DevHandles THEN r.dev = "hdd" \/ DvdInput = "xiso"
    ELSE file.open \/ (r.dev = "cdrom" /\ DvdInput = "xiso")

Read(r) ==
    LET file == handleMap[r.dev][r.handle] IN
    /\ \/ Readable(r, file) /\ \E n \in BytesRead(r, file) : Reply("SUCCESS", n, 0)
       \/ (~Readable(r, file) \/ HostFaults) /\ Reply("IO_DEVICE_ERROR", 0, 0)
    /\ UNCHANGED fileVars

Aligned(size) == ((size + ClusterSize - 1) \div ClusterSize) * ClusterSize

\* append_clusters_to_file: the size only moves with the cluster chain
Appended(dirent, offset, size) ==
    [dirent EXCEPT !.size = IF offset + size > Aligned(@) THEN offset + size ELSE @]

\* write_raw_partition writes over raw clusters, which no dirent knows of, over
\* the clusters of a host file, which can lengthen it, over those of a
\* directory, or over the superblock, which formats the partition again
RawEffect ==
    \/ UNCHANGED stored
    \/ /\ \E p \in Paths : HostHas(p) /\ \E length \in (host[p] + 1) .. MaxSize : host' = [host EXCEPT ![p] = length]
       /\ UNCHANGED <<disk, intact>>
    \/ /\ \/ \E s \in Slots, d \in RawDirents : disk' = [disk EXCEPT ![s] = d]
          \/ disk' = [s \in Slots |-> NoDirent]
       /\ intact' = FALSE /\ UNCHANGED host

\* one that fails may have written a part of its clusters
WriteRaw(r) ==
    /\ r.handle \in DevHandles
    /\ \/ r.dev = "hdd" /\ RawEffect /\ Reply("SUCCESS", r.size, 0)
       \/ r.dev = "hdd" /\ HostFaults /\ RawEffect /\ Reply("IO_DEVICE_ERROR", 0, 0)
       \/ r.dev = "cdrom" /\ UNCHANGED stored /\ Reply("IO_DEVICE_ERROR", 0, 0)
    /\ UNCHANGED handleMap

WriteFile(r) ==
    LET file == handleMap[r.dev][r.handle]
        end == r.offset + r.size
        length == IF end > host[file.path] THEN end ELSE host[file.path] IN
    /\ r.handle \notin DevHandles
    /\ \/ /\ r.dev = "hdd" /\ file.open
          /\ host' = [host EXCEPT ![file.path] = length]
          /\ \/ /\ handleMap' = [handleMap EXCEPT ![r.dev][r.handle].dirent = Appended(@, r.offset, r.size)]
                /\ Reply("SUCCESS", r.size, 0)
             \/ HostFaults /\ Reply("IO_DEVICE_ERROR", 0, 0) /\ UNCHANGED handleMap
       \/ /\ r.dev = "cdrom" \/ ~file.open \/ HostFaults
          /\ Reply("IO_DEVICE_ERROR", 0, 0) /\ UNCHANGED <<host, handleMap>>
    /\ UNCHANGED <<disk, intact>>

\* delete_dirent_for_file marks the cached copy; its status is not looked at
RemoveFile(r) ==
    /\ \/ r.dev = "hdd" /\ handleMap' = [handleMap EXCEPT ![r.dev][r.handle].dirent.live = FALSE]
       \/ (r.dev = "cdrom" \/ HostFaults) /\ UNCHANGED handleMap
    /\ Reply(IF r.dev = "cdrom" THEN "IO_DEVICE_ERROR" ELSE "SUCCESS", 0, 0)
    /\ UNCHANGED stored

Handle(r) ==
    \/ r.type = "open" /\ (OpenDisc(r) \/ OpenHdd(r))
    \/ r.type # "open" /\ UnknownHandle(r)
    \/ /\ r.type # "open" /\ Opened(r.dev, r.handle)
       /\ \/ r.type = "close" /\ Close(r)
          \/ r.type = "read" /\ Read(r)
          \/ r.type = "write" /\ (WriteRaw(r) \/ WriteFile(r))
          \/ r.type = "remove" /\ RemoveFile(r)

-----------------------------------------------------------------------------
(***************************************************************************)
(* Starting and stopping the worker                                        *)
(***************************************************************************)

\* add_device_handles: the disc object only with an xiso
DeviceMap == [d \in Devs |-> [h \in AllHandles |->
                 IF h = d /\ (d = "hdd" \/ DvdInput = "xiso") THEN DeviceObject ELSE NoFile]]

\* flush_all_files drops the device object and writes every cached dirent;
\* then worker() clears the whole handle map.  Of two dirents cached for one
\* slot either is written last
CachedAt(s) == {h \in Handles : Opened("hdd", h) /\ handleMap["hdd"][h].path # Root /\ handleMap["hdd"][h].slot = s}
FlushedAt(s) ==
    IF CachedAt(s) = {} THEN {disk[s]} ELSE UNION {WrittenBack(handleMap["hdd"][h]) : h \in CachedAt(s)}

StopFiles ==
    /\ disk' \in {d \in [Slots -> UNION {FlushedAt(s) : s \in Slots}] : \A s \in Slots : d[s] \in FlushedAt(s)}
    /\ handleMap' = [d \in Devs |-> [h \in AllHandles |-> NoFile]]

Running == Opened("hdd", "hdd")

-----------------------------------------------------------------------------
(***************************************************************************)
(* The guest kernel, as io.cpp and fatx.cpp rely on it: the same file gets *)
(* the same host handle (io.cpp, add_to_map), a file scheduled for         *)
(* deletion is not opened again (fatx.cpp, delete_dirent_for_file).        *)
(***************************************************************************)

DevOf(path) == IF path \in DOMAIN Disc THEN "cdrom" ELSE "hdd"

OpenPackets ==
    [type : {"open"}, dev : Devs, path : Paths \cup DOMAIN Disc \cup {Root}, handle : {NoPath},
     disp : {"IO_SUPERSEDE", "IO_OPEN", "IO_CREATE", "IO_OPEN_IF", "IO_OVERWRITE", "IO_OVERWRITE_IF"},
     attrs : SUBSET {"dir", "ro"}, size : 0 .. MaxSize, access : SUBSET {"write", "invalid"},
     flags : {"none", "must_be_a_dir", "must_not_be_a_dir"}, deleteOnClose : BOOLEAN]
ASSUME OpensAssumption == OpenRequests \subseteq OpenPackets /\ \A o \in OpenRequests : o.dev = DevOf(o.path)

Holders(path) == {h \in Handles : owner[h] = path}
FreeHandles == {h \in Handles : owner[h] = NoPath}
Held == {h \in Handles : owner[h] # NoPath}

HandlesFor(path) ==
    IF Holders(path) = {} THEN FreeHandles
    ELSE IF Sharing THEN Holders(path) \ doomed ELSE {}

GuestOpens == UNION {{[o EXCEPT !.handle = h] : h \in HandlesFor(o.path)} : o \in OpenRequests}

\* handles the guest uses, with their device
Targets == {<<DevOf(owner[h]), h>> : h \in Held \ doomed}
StrayTargets == IF Stray THEN {<<"hdd", h>> : h \in FreeHandles} ELSE {}
DeviceTargets == {<<d, d>> : d \in {e \in Devs : e = "hdd" \/ DvdInput = "xiso"}}

GuestTransfers ==
    {[type |-> t, dev |-> x[1], handle |-> x[2], offset |-> e[1], size |-> e[2]] :
        t \in {"read", "write"}, x \in Targets \cup StrayTargets \cup DeviceTargets, e \in Extents}

GuestRemoves ==
    {[type |-> "remove", dev |-> x[1], handle |-> x[2]] : x \in {y \in Targets : owner[y[2]] # Root}}

GuestCloses ==
    {[type |-> "close", dev |-> DevOf(owner[h]), handle |-> h] : h \in Held}

GuestRequests == GuestOpens \cup GuestTransfers \cup GuestRemoves \cup GuestCloses

\* packets in flight at once do not name the same file or handle
Target(r) == {r.handle} \cup IF r.type = "open" THEN {r.path}
                             ELSE IF r.handle \in Handles THEN {owner[r.handle]} \ {NoPath} ELSE {}
Independent(r, others) == \A q \in others : Target(r) \cap Target(q) \subseteq DevHandles

\* what the guest knows once it has the info block of its packet
GuestLearns(r, result) ==
    /\ owner' = IF r.type = "open" /\ result.status = "SUCCESS" THEN [owner EXCEPT ![r.handle] = r.path]
                ELSE IF r.type = "close" THEN [owner EXCEPT ![r.handle] = NoPath] ELSE owner
    /\ doomed' = IF r.type = "remove" THEN doomed \cup {r.handle}
                 ELSE IF r.type = "close" THEN doomed \ {r.handle} ELSE doomed

-----------------------------------------------------------------------------
Init ==
    /\ disk = [s \in Slots |-> NoDirent] /\ intact = TRUE
    /\ host = [p \in Paths |-> NoSize]
    /\ handleMap = DeviceMap
    /\ info = ZeroInfo
    /\ owner = [h \in Handles |-> NoPath] /\ doomed = {}

\* one packet, from the guest and back
Serve(r) ==
    /\ Running
    /\ Handle(r)
    /\ GuestLearns(r, info')

Stop ==
    /\ Running /\ StopFiles
    /\ info' = ZeroInfo
    /\ owner' = [h \in Handles |-> NoPath] /\ doomed' = {}
    /\ UNCHANGED <<host, intact>>

Start ==
    /\ ~Running /\ handleMap' = DeviceMap
    /\ UNCHANGED <<stored, info, guestVars>>

\* "the user manually moves/deletes the host file with the OS"
HostFileLost ==
    /\ HostFaults
    /\ \E p \in Paths : /\ HostHas(p) /\ Holders(p) = {}
                        /\ host' = [host EXCEPT ![p] = NoSize]
    /\ UNCHANGED <<disk, intact, handleMap, info, guestVars>>

Next == (\E r \in GuestRequests : Serve(r)) \/ Stop \/ Start \/ HostFileLost
Spec == Init /\ [][Next]_vars

-----------------------------------------------------------------------------
(***************************************************************************)
(* Properties                                                              *)
(***************************************************************************)

\* Every variable holds what its C++ type and the handlers can put there.
TypeOK ==
    /\ disk \in [Slots -> Dirents \cup {NoDirent}]
    /\ host \in [Paths -> 0 .. MaxSize + 1] /\ intact \in BOOLEAN
    /\ handleMap["hdd"] \in [AllHandles -> FatxFiles \cup {DeviceObject, NoFile}]
    /\ handleMap["cdrom"] \in [AllHandles -> DiscFiles \cup {DeviceObject, NoFile}]
    /\ info \in InfoBlocks
    /\ owner \in [Handles -> Paths \cup DOMAIN Disc \cup {Root, NoPath}]
    /\ doomed \subseteq Handles

FilesOpen == {h \in Handles : Opened("hdd", h) /\ handleMap["hdd"][h].path # Root}

\* The slot a cached dirent will be flushed to still holds the dirent of the
\* same file: a flush at close or at stop never lands on another file, also
\* when a removed file is still open and new files look for a free slot.
CachedDirentOwnsSlot ==
    intact => \A h \in FilesOpen :
        LET file == handleMap["hdd"][h] IN disk[file.slot].live /\ disk[file.slot].path = file.path

\* The dirent the emulator would report for a path: the cached copy of an
\* open handle, or the stored one.
Cached(path) == {h \in FilesOpen : handleMap["hdd"][h].path = path}
Stored(path) == IF Find(path) # {} THEN disk[CHOOSE s \in Find(path) : TRUE] ELSE NoDirent
Logical(path) ==
    IF Cached(path) # {}
    THEN LET d == handleMap["hdd"][CHOOSE h \in Cached(path) : TRUE].dirent IN IF d.live THEN d ELSE NoDirent
    ELSE Stored(path)

\* A dirent never promises bytes that the host file has not got.
DirentBackedByHost ==
    intact => \A p \in Paths : Logical(p).live /\ "dir" \notin Logical(p).attrs => HostHas(p) /\ Logical(p).size <= host[p]

\* The handle map agrees with what the guest was told: a handle is open on the
\* host exactly when the guest got it from a successful open and has not
\* closed it, on the same path.
HandlesAgree ==
    Running => \A h \in Handles :
        IF owner[h] = NoPath THEN \A d \in Devs : ~Opened(d, h)
        ELSE Opened(DevOf(owner[h]), h) /\ handleMap[DevOf(owner[h])][h].path = owner[h]

\* The handle map is sound: what its entries hold, where they will be written
\* back to, and which of them exist.
HandleMapSound == TypeOK /\ CachedDirentOwnsSlot /\ HandlesAgree

\* A packet that is not answered with success opens nothing and changes no file
\* that is stored or open, whichever of its steps failed.  All it can leave is
\* the dirent of a file that it was to make.
FailureKeepsFiles ==
    [][info'.status # "SUCCESS" /\ intact'
        => /\ handleMap' = handleMap
           /\ \A p \in Paths : Find(p) # {} \/ Cached(p) # {}
                => Logical(p)' = Logical(p) /\ Stored(p)' = Stored(p)]_vars

AbsentMeta == [attrs |-> {}, size |-> NoSize]
MetaOf(dirent) == IF dirent.live THEN [attrs |-> dirent.attrs, size |-> dirent.size] ELSE AbsentMeta

\* The cached handlers implement a file store with write-back: whatever the
\* cache, the slots and the flushes do, every name has the attributes and size
\* of the last successful packet on it while it is open, and after a close, a
\* stop or a restart the same or, when the host can fail, those it had stored.
Store == INSTANCE FileStore WITH
    Names <- Paths, Absent <- AbsentMeta, None <- NoPath, MayFail <- HostFaults, Reopens <- Sharing,
    meta <- [p \in Paths |-> MetaOf(Logical(p))],
    kept <- [p \in Paths |-> MetaOf(Stored(p))],
    openAs <- [h \in Handles |-> IF h \in FilesOpen THEN handleMap["hdd"][h].path ELSE NoPath]
ImplementsStore == Store!Spec

(***************************************************************************)
(* What the comments of the code say and the model refutes (README, 5)     *)
(***************************************************************************)

\* "the final status of the request" (io.cpp:103): a packet on a handle that
\* is not in the map is an I/O error.
UnknownHandleReported ==
    [][\A r \in GuestRequests : r.type # "open" /\ ~Opened(r.dev, r.handle) /\ Serve(r)
            => info'.status = "IO_DEVICE_ERROR"]_vars

\* "actual size of the opened file" (io.cpp:111): opening a file tells its size.
OpenTellsActualSize ==
    [][\A r \in GuestOpens : r.path \in Paths /\ info'.status = "SUCCESS" /\ Serve(r)
            => info'.file_size = host'[r.path]]_vars

\* "a cached copy of the dirent" (io.cpp:174): after an open that succeeds, the
\* handle's cached copy is the dirent that the open found or made.
CacheIsACopy ==
    [][\A r \in GuestOpens : r.path \in Paths /\ info'.status = "SUCCESS" /\ Serve(r)
            => handleMap'["hdd"][r.handle].dirent.size = info'.file_size]_vars

\* "the final status of the request" (io.cpp:103): a remove that is answered
\* with success removed the file.
RemoveTellsOutcome ==
    [][\A r \in GuestRemoves : r.dev = "hdd" /\ info'.status = "SUCCESS" /\ Serve(r)
            => ~handleMap'["hdd"][r.handle].dirent.live]_vars
=============================================================================
