----------------------------- MODULE HostIoProofs ----------------------------
(***************************************************************************)
(* Proofs about host I/O, for any number of guest threads, packets, files, *)
(* handles and slots.  First the handlers of IoFiles, for a guest that     *)
(* shares handles or not and a host that may fail: what the handle map     *)
(* holds, where its dirents will be written back to, and that the handlers *)
(* implement FileStore.  Then the two threads of HostIo, which use of the  *)
(* handlers only that they leave the threads' variables alone.             *)
(***************************************************************************)
EXTENDS HostIo, TLAPS


Files == FatxFiles \cup DiscFiles \cup {DeviceObject, NoFile}
Maps == [Devs -> [AllHandles -> Files]]

\* what an entry for the partition may be: the root, or a file whose dirent came
\* from the slot it will go back to
HddEntry(h) ==
    LET file == handleMap["hdd"][h] IN
    file # NoFile =>
        /\ file \in FatxFiles /\ file.dirent.path = file.path
        /\ file.path = Root => ~file.open /\ file.dirent.live
        /\ file.path # Root => /\ file.slot \in Slots
                               /\ intact => disk[file.slot].live /\ disk[file.slot].path = file.path
        /\ ~file.dirent.live => h \in doomed

DiscEntry(h) == handleMap["cdrom"][h] \in DiscFiles \cup {NoFile}

\* a handle is open on the device of the path it was opened for, and nowhere else
EntryAgrees(h) ==
    /\ \A d \in Devs : handleMap[d][h] # NoFile
           => owner[h] # NoPath /\ d = DevOf(owner[h]) /\ handleMap[d][h].path = owner[h]
    /\ Running /\ owner[h] # NoPath => handleMap[DevOf(owner[h])][h] # NoFile

\* no dirent is the root's
NamesStored == \A s \in Slots : disk[s].live => disk[s].path \in Paths

\* and a path has one dirent, as long as nothing went past the handle map
StoredOnce ==
    /\ NamesStored
    /\ intact => \A s, t \in Slots : disk[s].live /\ disk[t].live /\ disk[t].path = disk[s].path => s = t

\* the guest kernel has one handle for a path
OwnersApart == \A g, h \in Handles : owner[g] = owner[h] /\ owner[g] # NoPath => g = h

\* nothing is left of a console that was stopped
NothingHeld ==
    /\ info = ZeroInfo /\ doomed = {}
    /\ \A h \in Handles : owner[h] = NoPath /\ \A d \in Devs : handleMap[d][h] = NoFile

FilesInv ==
    /\ TypeOK /\ handleMap \in Maps
    /\ \A h \in Handles : HddEntry(h) /\ DiscEntry(h) /\ EntryAgrees(h)
    /\ StoredOnce /\ OwnersApart /\ doomed \subseteq Held
    /\ ~Running => NothingHeld

-----------------------------------------------------------------------------
(***************************************************************************)
(* Names, packets and maps                                                 *)
(***************************************************************************)

\* No entry is taken for none.
LEMMA EntriesDiffer == NoFile \notin FatxFiles \cup DiscFiles /\ DeviceObject # NoFile /\ NoDirent.live = FALSE
BY NamesAssumption DEF NoFile, FatxFiles, DiscFiles, DeviceObject, NoDirent, Root, NoPath

\* The names of the root and of no path are no others.
LEMMA NamesApart ==
    /\ Root # NoPath /\ Root \notin Paths \cup DOMAIN Disc /\ NoPath \notin Paths \cup DOMAIN Disc
    /\ Paths \cap DOMAIN Disc = {} /\ Handles \cap DevHandles = {} /\ "hdd" # "cdrom"
BY NamesAssumption DEF Root, NoPath

\* What an open packet of the guest is: a handle that is free, or the one it has
\* for that path.
LEMMA OpensTyped ==
    ASSUME NEW r \in GuestOpens
    PROVE  /\ r.type = "open" /\ r.dev = DevOf(r.path) /\ r.path \in Paths \cup DOMAIN Disc \cup {Root}
           /\ r.handle \in Handles /\ r.handle \in HandlesFor(r.path)
           /\ r.attrs \in SUBSET {"dir", "ro"} /\ r.size \in 0 .. MaxSize
<1>1. PICK o \in OpenRequests : \E h \in HandlesFor(o.path) : r = [o EXCEPT !.handle = h]
  BY DEF GuestOpens
<1>5. PICK h \in HandlesFor(o.path) : r = [o EXCEPT !.handle = h]
  BY <1>1
<1>2. o \in OpenPackets /\ o.dev = DevOf(o.path)
  BY OpensAssumption
<1>3. h \in Handles
  BY DEF HandlesFor, Holders, FreeHandles
<1>4. r.handle = h /\ r.type = o.type /\ r.dev = o.dev /\ r.path = o.path /\ r.attrs = o.attrs /\ r.size = o.size
  BY <1>5, <1>2 DEF OpenPackets
<1> QED BY <1>5, <1>2, <1>3, <1>4 DEF OpenPackets

\* What the other packets are, and the handles they are about.
LEMMA TransfersTyped ==
    ASSUME NEW r \in GuestTransfers
    PROVE  /\ r.type \in {"read", "write"} /\ r.dev \in Devs
           /\ r.offset \in Nat /\ r.size \in Nat /\ r.offset + r.size <= MaxSize
           /\ \/ r.handle \in Held \ doomed /\ r.dev = DevOf(owner[r.handle])
              \/ r.handle \in FreeHandles /\ r.dev = "hdd"
              \/ r.handle \in DevHandles /\ r.dev = r.handle
BY ExtentsAssumption DEF GuestTransfers, Targets, StrayTargets, DeviceTargets, Devs, DevHandles, DevOf

LEMMA RemovesTyped ==
    ASSUME NEW r \in GuestRemoves
    PROVE  /\ r.type = "remove" /\ r.handle \in Held \ doomed
           /\ r.dev = DevOf(owner[r.handle]) /\ owner[r.handle] # Root
BY DEF GuestRemoves, Targets

LEMMA ClosesTyped ==
    ASSUME NEW r \in GuestCloses
    PROVE  r.type = "close" /\ r.handle \in Held /\ r.dev = DevOf(owner[r.handle])
BY DEF GuestCloses

\* A guest has one way to send a packet of each type.
LEMMA RequestKinds ==
    ASSUME NEW r \in GuestRequests
    PROVE  /\ r.type = "open" => r \in GuestOpens
           /\ r.type \in {"read", "write"} => r \in GuestTransfers
           /\ r.type = "remove" => r \in GuestRemoves
           /\ r.type = "close" => r \in GuestCloses
           /\ r.type \in {"open", "read", "write", "remove", "close"}
BY OpensTyped, TransfersTyped, RemovesTyped, ClosesTyped DEF GuestRequests

\* The guest opens a path with a handle that is open nowhere, when it has none
\* for that path, or with the one it has, which is open on the path's device.
LEMMA OpensWhere ==
    ASSUME FilesInv, Running, NEW r \in GuestOpens
    PROVE  /\ r.handle \notin doomed
           /\ \/ owner[r.handle] = NoPath /\ Holders(r.path) = {} /\ \A d \in Devs : ~Opened(d, r.handle)
              \/ owner[r.handle] = r.path /\ Opened(r.dev, r.handle)
<1>1. r.handle \in Handles /\ r.handle \in HandlesFor(r.path) /\ r.dev = DevOf(r.path) /\ r.path # NoPath
  BY OpensTyped, NamesApart
<1>2. EntryAgrees(r.handle) /\ doomed \subseteq Held
  BY <1>1 DEF FilesInv
<1>3. CASE Holders(r.path) = {}
  BY <1>1, <1>2, <1>3 DEF HandlesFor, FreeHandles, EntryAgrees, Opened, Held
<1>4. CASE Holders(r.path) # {}
  <2>1. r.handle \in Holders(r.path) \ doomed
    BY <1>1, <1>4 DEF HandlesFor
  <2> QED BY <1>1, <1>2, <2>1 DEF Holders, EntryAgrees, Opened
<1> QED BY <1>3, <1>4

-----------------------------------------------------------------------------
(***************************************************************************)
(* What a packet can do: the effects on the dirents and the handle map,    *)
(* whichever of the handlers' paths it takes                               *)
(***************************************************************************)

\* no entry changes; a remove counts for the guest whatever it did
Rests(r) ==
    /\ UNCHANGED <<handleMap, owner>>
    /\ doomed' = doomed \/ (r.type = "remove" /\ doomed' = doomed \cup {r.handle})

\* nothing but the bytes of a host file
Nothing(r) == Rests(r) /\ UNCHANGED <<disk, intact>>

\* the dirent of a file that could not be made for good
LeavesBehind(r, s, dirent) ==
    /\ Rests(r) /\ HostFaults /\ r \in GuestOpens /\ r.path \in Paths /\ Find(r.path) = {}
    /\ s \in Slots /\ ~disk[s].live /\ dirent \in Dirents /\ dirent.live /\ dirent.path = r.path
    /\ disk' = [disk EXCEPT ![s] = dirent] /\ UNCHANGED intact

\* other dirents, which the handle map does not know of
Overruns(r) ==
    /\ Rests(r) /\ intact' = FALSE
    /\ disk' \in [Slots -> Dirents \cup {NoDirent}] /\ NamesStored'

\* a file of the partition as an open hands it to the handle map
FreshFile(r, file) ==
    /\ file \in FatxFiles /\ file.dirent.path = r.path /\ file.dirent.live
    /\ r.path = Root => ~file.open
    /\ r.path # Root => file.slot \in Slots

\* an open that succeeds: the entry for the handle, unless there is one
Binds(r, file) ==
    /\ r \in GuestOpens /\ file \in Files \ {NoFile} /\ file.path = r.path
    /\ IF r.dev = "hdd" THEN FreshFile(r, file) ELSE file \in DiscFiles
    /\ Emplace(r.dev, r.handle, file)
    /\ owner' = [owner EXCEPT ![r.handle] = r.path] /\ doomed' = doomed

\* of a path that has its dirent
BindsFound(r, file) ==
    /\ Binds(r, file) /\ UNCHANGED <<disk, intact>>
    /\ r.dev = "hdd" /\ r.path # Root => file.slot \in Find(r.path) /\ file.dirent = disk[file.slot]

\* with a dirent that is written first, over the path's own or in a free slot
BindsMade(r, file) ==
    /\ Binds(r, file) /\ r.dev = "hdd" /\ r.path \in Paths
    /\ disk' = [disk EXCEPT ![file.slot] = file.dirent] /\ UNCHANGED intact
    /\ file.slot \in Find(r.path) \/ (Find(r.path) = {} /\ ~disk[file.slot].live)

\* with a dirent that is not written
BindsUnstored(r, file) == Binds(r, file) /\ r.dev = "hdd" /\ r.path \in Paths /\ UNCHANGED disk /\ intact' = FALSE

\* a packet on a file that is open
Recached(r, dirent) ==
    /\ r.type # "open" /\ r.dev = "hdd" /\ r.handle \in Held \ doomed
    /\ handleMap["hdd"][r.handle] \in FatxFiles /\ owner[r.handle] \in Paths
    /\ dirent \in Dirents /\ dirent.path = owner[r.handle]
    /\ handleMap' = [handleMap EXCEPT !["hdd"][r.handle] = [@ EXCEPT !.dirent = dirent]]
    /\ UNCHANGED <<disk, intact, owner>>

Grows(r, dirent) ==
    /\ Recached(r, dirent) /\ doomed' = doomed /\ dirent.live
    /\ dirent.attrs = handleMap["hdd"][r.handle].dirent.attrs
    /\ dirent.size \in handleMap["hdd"][r.handle].dirent.size .. MaxSize

Deletes(r, dirent) == Recached(r, dirent) /\ ~dirent.live /\ doomed' = doomed \cup {r.handle}

Shuts(r) ==
    /\ r \in GuestCloses /\ Opened(r.dev, r.handle)
    /\ Close(r)
    /\ owner' = [owner EXCEPT ![r.handle] = NoPath] /\ doomed' = doomed \ {r.handle}

Effects(r) ==
    \/ Nothing(r) \/ Overruns(r) \/ Shuts(r)
    \/ \E s, dirent : LeavesBehind(r, s, dirent)
    \/ \E file : BindsFound(r, file) \/ BindsMade(r, file) \/ BindsUnstored(r, file)
    \/ \E dirent : Grows(r, dirent) \/ Deletes(r, dirent)

Answered(r) ==
    /\ host' \in [Paths -> 0 .. MaxSize + 1] /\ info' \in InfoBlocks
    /\ info'.status # "SUCCESS" => Nothing(r) \/ Overruns(r) \/ \E s, dirent : LeavesBehind(r, s, dirent)

\* A status and numbers that fit make an info block.
LEMMA ReplyTyped ==
    ASSUME NEW status \in Statuses, NEW n \in 0 .. 5 + MaxSize, NEW size \in 0 .. MaxSize, Reply(status, n, size)
    PROVE  info' \in InfoBlocks /\ info'.status = status
BY DEF Reply, InfoBlocks

\* An open that fails.
LEMMA NotOpenedRests ==
    ASSUME NEW r \in GuestOpens, NEW status \in Statuses \ {"SUCCESS"}, NEW n \in 0 .. 5,
           NotOpened(status, n), GuestLearns(r, info')
    PROVE  info' \in InfoBlocks /\ Rests(r)
<1>1. info' \in InfoBlocks /\ info'.status = status
  BY ReplyTyped, SizesAssumption DEF NotOpened
<1> QED BY <1>1, OpensTyped DEF GuestLearns, Rests, NotOpened

LEMMA NotOpenedDoes ==
    ASSUME NEW r \in GuestOpens, NEW status \in Statuses \ {"SUCCESS"}, NEW n \in 0 .. 5,
           NotOpened(status, n), UNCHANGED <<disk, intact>>, GuestLearns(r, info'),
           host' \in [Paths -> 0 .. MaxSize + 1]
    PROVE  Effects(r) /\ Answered(r)
BY NotOpenedRests DEF Effects, Answered, Nothing

\* An open that succeeds.
LEMMA OpenedDoes ==
    ASSUME NEW r \in GuestOpens, NEW n \in 0 .. 5, NEW size \in 0 .. MaxSize,
           Reply("SUCCESS", n, size), GuestLearns(r, info')
    PROVE  /\ info' \in InfoBlocks /\ info'.status = "SUCCESS"
           /\ owner' = [owner EXCEPT ![r.handle] = r.path] /\ doomed' = doomed
<1>1. info' \in InfoBlocks /\ info'.status = "SUCCESS"
  BY ReplyTyped, SizesAssumption DEF Statuses
<1> QED BY <1>1, OpensTyped DEF GuestLearns

\* The handlers of the disc.
LEMMA OpenDiscDoes ==
    ASSUME FilesInv, NEW r \in GuestOpens, OpenDisc(r), GuestLearns(r, info')
    PROVE  Effects(r) /\ Answered(r)
<1>1. host' \in [Paths -> 0 .. MaxSize + 1] /\ UNCHANGED <<disk, intact>> /\ r.dev = "cdrom"
  BY DEF OpenDisc, stored, FilesInv, TypeOK
<1>2. CASE UNCHANGED handleMap /\ \E status \in Statuses \ {"SUCCESS"} : \E n \in 0 .. 5 : Reply(status, n, 0)
  BY <1>1, <1>2, NotOpenedDoes DEF NotOpened
<1>3. CASE /\ r.path \in DOMAIN Disc /\ Reply("SUCCESS", opened, 0)
           /\ Emplace("cdrom", r.handle, [path |-> r.path, open |-> DvdInput = "xbe" /\ "dir" \notin Disc[r.path]])
  <2> DEFINE file == [path |-> r.path, open |-> (DvdInput = "xbe" /\ "dir" \notin Disc[r.path])]
  <2>1. file \in DiscFiles /\ file.path = r.path
    BY <1>3 DEF DiscFiles
  <2>2. file \in Files \ {NoFile}
    BY <2>1, EntriesDiffer DEF Files
  <2>3. opened \in 0 .. 5 /\ 0 \in 0 .. MaxSize
    BY SizesAssumption DEF opened
  <2>4. /\ info' \in InfoBlocks /\ info'.status = "SUCCESS"
        /\ owner' = [owner EXCEPT ![r.handle] = r.path] /\ doomed' = doomed
    BY <1>3, <2>3, OpenedDoes
  <2>5. BindsFound(r, file)
    BY <1>1, <1>3, <2>1, <2>2, <2>4 DEF Binds, BindsFound
  <2> QED BY <1>1, <2>4, <2>5 DEF Effects, Answered
<1>4. exists \in 0 .. 5 /\ 0 \in 0 .. 5 /\ {"IO_DEVICE_ERROR", "NOT_A_DIRECTORY", "FILE_IS_A_DIRECTORY"} \subseteq Statuses \ {"SUCCESS"}
  BY DEF exists, Statuses
<1> QED BY <1>2, <1>3, <1>4 DEF OpenDisc

\* A file handed to the handle map of the partition, with the dirent it came from.
LEMMA AddToMapDoes ==
    ASSUME FilesInv, NEW r \in GuestOpens, NEW slot, NEW dirent \in Dirents, NEW open \in BOOLEAN, NEW n \in 0 .. 5,
           r.dev = "hdd", AddToMap(r, slot, dirent, open, n), GuestLearns(r, info'),
           dirent.path = r.path, dirent.live,
           r.path = Root => ~open /\ slot = 0, r.path # Root => slot \in Slots,
           host' \in [Paths -> 0 .. MaxSize + 1],
           \/ UNCHANGED <<disk, intact>> /\ (r.path # Root => slot \in Find(r.path) /\ dirent = disk[slot])
           \/ /\ disk' = [disk EXCEPT ![slot] = dirent] /\ UNCHANGED intact /\ r.path \in Paths
              /\ slot \in Find(r.path) \/ (Find(r.path) = {} /\ ~disk[slot].live)
           \/ UNCHANGED disk /\ intact' = FALSE /\ r.path \in Paths
    PROVE  Effects(r) /\ Answered(r)
<1> DEFINE file == [path |-> r.path, open |-> open, slot |-> slot, dirent |-> dirent]
<1>1. file \in FatxFiles
  BY DEF FatxFiles, Dirents
<1>2. file \in Files \ {NoFile}
  BY <1>1, EntriesDiffer DEF Files
<1>3. dirent.size \in 0 .. MaxSize
  BY DEF Dirents
<1>4. Emplace("hdd", r.handle, file) /\ Reply("SUCCESS", n, dirent.size)
  BY DEF AddToMap
<1>5. /\ info' \in InfoBlocks /\ info'.status = "SUCCESS"
      /\ owner' = [owner EXCEPT ![r.handle] = r.path] /\ doomed' = doomed
  BY <1>3, <1>4, OpenedDoes
<1>6. FreshFile(r, file)
  BY <1>1 DEF FreshFile
<1>7. Binds(r, file)
  BY <1>2, <1>4, <1>5, <1>6 DEF Binds
<1>8. BindsFound(r, file) \/ BindsMade(r, file) \/ BindsUnstored(r, file)
  BY <1>7 DEF BindsFound, BindsMade, BindsUnstored
<1> QED BY <1>5, <1>8 DEF Effects, Answered

\* A stored dirent of a path is a dirent, and the path is no root.
LEMMA FoundTyped ==
    ASSUME FilesInv, NEW path, NEW s \in Find(path)
    PROVE  s \in Slots /\ disk[s] \in Dirents /\ disk[s].live /\ disk[s].path = path /\ path \in Paths /\ path # Root
<1>1. s \in Slots /\ disk[s].live /\ disk[s].path = path
  BY DEF Find
<1>2. disk[s] \in Dirents \cup {NoDirent} /\ disk[s].path \in Paths
  BY <1>1 DEF FilesInv, TypeOK, StoredOnce, NamesStored
<1> QED BY <1>1, <1>2, EntriesDiffer, NamesApart

\* What the outcomes of an open are typed by.
LEMMA OutcomesTyped ==
    /\ {superseded, opened, created, overwritten, exists, not_exists, 0} \subseteq 0 .. 5
    /\ {"IO_DEVICE_ERROR", "ACCESS_DENIED", "OBJECT_NAME_NOT_FOUND", "OBJECT_PATH_NOT_FOUND", "FILE_CORRUPT_ERROR"}
           \subseteq Statuses \ {"SUCCESS"}
BY DEF superseded, opened, created, overwritten, exists, not_exists, Statuses

LEMMA OpenRootDoes ==
    ASSUME FilesInv, NEW r \in GuestOpens, r.dev = "hdd", OpenRoot(r), GuestLearns(r, info')
    PROVE  Effects(r) /\ Answered(r)
<1> DEFINE root == [path |-> Root, attrs |-> {"dir"}, size |-> 0, live |-> TRUE]
<1>1. root \in Dirents
  BY SizesAssumption DEF Dirents
<1>2. opened \in 0 .. 5
  BY OutcomesTyped
<1>3. AddToMap(r, 0, root, FALSE, opened) /\ UNCHANGED stored /\ r.path = Root
  BY DEF OpenRoot
<1>4. host' \in [Paths -> 0 .. MaxSize + 1] /\ UNCHANGED <<disk, intact>>
  BY <1>3 DEF FilesInv, TypeOK, stored
<1> HIDE DEF root
<1>5. root.path = Root /\ root.live
  BY DEF root
<1> QED BY <1>1, <1>2, <1>3, <1>4, <1>5, AddToMapDoes

LEMMA OpenExistingDoes ==
    ASSUME FilesInv, NEW r \in GuestOpens, r.dev = "hdd", OpenExisting(r), GuestLearns(r, info')
    PROVE  Effects(r) /\ Answered(r)
<1>1. PICK s \in Find(r.path) :
        /\ UNCHANGED stored
        /\ \/ AddToMap(r, s, disk[s], "dir" \notin disk[s].attrs, opened)
           \/ NotOpened("ACCESS_DENIED", exists) \/ NotOpened("IO_DEVICE_ERROR", exists)
  BY DEF OpenExisting
<1>2. s \in Slots /\ disk[s] \in Dirents /\ disk[s].live /\ disk[s].path = r.path /\ r.path # Root
  BY FoundTyped
<1>3. host' \in [Paths -> 0 .. MaxSize + 1] /\ UNCHANGED <<disk, intact>>
  BY <1>1 DEF FilesInv, TypeOK, stored
<1>4. CASE AddToMap(r, s, disk[s], "dir" \notin disk[s].attrs, opened)
  <2> DEFINE file == "dir" \notin disk[s].attrs
  <2>1. file \in BOOLEAN /\ opened \in 0 .. 5 /\ AddToMap(r, s, disk[s], file, opened)
    BY <1>4, OutcomesTyped
  <2> HIDE DEF file
  <2> QED BY <1>1, <1>2, <1>3, <2>1, AddToMapDoes
<1>5. CASE NotOpened("ACCESS_DENIED", exists) \/ NotOpened("IO_DEVICE_ERROR", exists)
  BY <1>3, <1>5, NotOpenedDoes, OutcomesTyped
<1> QED BY <1>1, <1>4, <1>5

\* The length of a host file that was made.
LEMMA HostMakesTyped ==
    ASSUME FilesInv, NEW path \in Paths, NEW size \in 0 .. MaxSize, HostMakes(path, size)
    PROVE  host' \in [Paths -> 0 .. MaxSize + 1]
BY SizesAssumption DEF HostMakes, FilesInv, TypeOK

LEMMA OpenOverwriteDoes ==
    ASSUME FilesInv, NEW r \in GuestOpens, r.dev = "hdd", OpenOverwrite(r), GuestLearns(r, info')
    PROVE  Effects(r) /\ Answered(r)
<1> DEFINE new(s) == Overwritten(r, disk[s])
           file(s) == "dir" \notin disk[s].attrs
           outcome(s) == IF "dir" \in disk[s].attrs THEN exists
                         ELSE IF r.disp = "IO_SUPERSEDE" THEN superseded ELSE overwritten
<1>1. PICK s \in Find(r.path) :
        /\ UNCHANGED host \/ HostMakes(r.path, r.size)
        /\ \/ disk' = [disk EXCEPT ![s] = new(s)] /\ AddToMap(r, s, new(s), file(s), outcome(s))
           \/ UNCHANGED disk /\ NotOpened("IO_DEVICE_ERROR", exists)
        /\ UNCHANGED intact
  BY DEF OpenOverwrite
<1>2. s \in Slots /\ disk[s] \in Dirents /\ disk[s].live /\ disk[s].path = r.path /\ r.path \in Paths /\ r.path # Root
  BY FoundTyped
<1>3. r.size \in 0 .. MaxSize /\ r.attrs \in SUBSET {"dir", "ro"}
  BY OpensTyped
<1>4. host' \in [Paths -> 0 .. MaxSize + 1]
  BY <1>1, <1>2, <1>3, HostMakesTyped DEF FilesInv, TypeOK
<1>5. CASE disk' = [disk EXCEPT ![s] = new(s)] /\ AddToMap(r, s, new(s), file(s), outcome(s))
  <2>1. new(s) \in Dirents /\ new(s).path = r.path /\ new(s).live
    BY <1>2, <1>3 DEF Overwritten, Dirents
  <2>2. file(s) \in BOOLEAN /\ outcome(s) \in 0 .. 5
    BY OutcomesTyped
  <2> HIDE DEF new, file, outcome
  <2> QED BY <1>1, <1>2, <1>4, <1>5, <2>1, <2>2, AddToMapDoes
<1>6. CASE UNCHANGED disk /\ NotOpened("IO_DEVICE_ERROR", exists)
  BY <1>1, <1>4, <1>6, NotOpenedDoes, OutcomesTyped
<1> QED BY <1>1, <1>5, <1>6

LEMMA OpenCreateDoes ==
    ASSUME FilesInv, NEW r \in GuestOpens, r.dev = "hdd", OpenCreate(r), GuestLearns(r, info')
    PROVE  Effects(r) /\ Answered(r)
<1> DEFINE file == "dir" \notin r.attrs
<1>1. r.path # Root /\ Find(r.path) = {} /\ r.path \in Paths
  BY OpensTyped DEF DevOf, OpenCreate
<1>2. r.size \in 0 .. MaxSize /\ r.attrs \in SUBSET {"dir", "ro"} /\ 0 \in 0 .. MaxSize
  BY OpensTyped, SizesAssumption
<1>3. NewSize(r) \in 0 .. MaxSize
  BY <1>2 DEF NewSize
<1>4. NewDirent(r) \in Dirents /\ NewDirent(r).path = r.path /\ NewDirent(r).live
  BY <1>1, <1>2, <1>3 DEF NewDirent, Dirents
<1>5. PICK s \in Slots :
        /\ ~disk[s].live
        /\ \/ HostMakes(r.path, NewSize(r)) /\ CreateDirent(r, s)
           \/ NotOpened("IO_DEVICE_ERROR", not_exists) /\ UNCHANGED stored
  BY DEF OpenCreate, FirstFree
<1>6. host' \in [Paths -> 0 .. MaxSize + 1]
  BY <1>1, <1>3, <1>5, HostMakesTyped DEF FilesInv, TypeOK, stored
<1>7. "IO_DEVICE_ERROR" \in Statuses \ {"SUCCESS"} /\ not_exists \in 0 .. 5 /\ created \in 0 .. 5 /\ file \in BOOLEAN
  BY OutcomesTyped
<1>8. CASE NotOpened("IO_DEVICE_ERROR", not_exists) /\ UNCHANGED <<disk, intact>>
  BY <1>6, <1>7, <1>8, NotOpenedDoes
<1>9. CASE /\ HostFaults /\ disk' = [disk EXCEPT ![s] = NewDirent(r)] /\ UNCHANGED intact
           /\ NotOpened("IO_DEVICE_ERROR", not_exists)
  <2>1. info' \in InfoBlocks /\ Rests(r)
    BY <1>7, <1>9, NotOpenedRests
  <2>2. LeavesBehind(r, s, NewDirent(r))
    BY <1>1, <1>4, <1>5, <1>9, <2>1 DEF LeavesBehind
  <2> QED BY <1>6, <2>1, <2>2 DEF Effects, Answered
<1>10. CASE /\ AddToMap(r, s, NewDirent(r), file, created)
            /\ \/ disk' = [disk EXCEPT ![s] = NewDirent(r)] /\ UNCHANGED intact
               \/ UNCHANGED disk /\ intact' = FALSE
  <2> HIDE DEF file
  <2> QED BY <1>1, <1>4, <1>5, <1>6, <1>7, <1>10, AddToMapDoes
<1> QED BY <1>5, <1>8, <1>9, <1>10 DEF CreateDirent, stored

LEMMA OpenHddDoes ==
    ASSUME FilesInv, NEW r \in GuestOpens, OpenHdd(r), GuestLearns(r, info')
    PROVE  Effects(r) /\ Answered(r)
<1>1. r.dev = "hdd"
  BY DEF OpenHdd
<1>2. CASE OpenSearchFails(r) \/ OpenLost(r) \/ OpenNotFound(r)
  <2>1. /\ UNCHANGED stored
        /\ \E status \in Statuses \ {"SUCCESS"} : \E n \in 0 .. 5 : NotOpened(status, n)
    BY <1>2, OutcomesTyped DEF OpenSearchFails, OpenLost, OpenNotFound
  <2>2. host' \in [Paths -> 0 .. MaxSize + 1] /\ UNCHANGED <<disk, intact>>
    BY <2>1 DEF FilesInv, TypeOK, stored
  <2> QED BY <2>1, <2>2, NotOpenedDoes
<1> QED BY <1>1, <1>2, OpenRootDoes, OpenExistingDoes, OpenOverwriteDoes, OpenCreateDoes DEF OpenHdd

\* A handle that is open is the guest's, on the device of its path; the files of
\* the partition that are open on the host are no root.
LEMMA OpenedHeld ==
    ASSUME FilesInv, NEW h \in Handles, NEW d \in Devs, Opened(d, h)
    PROVE  /\ h \in Held /\ d = DevOf(owner[h]) /\ handleMap[d][h].path = owner[h]
           /\ d = "hdd" => /\ handleMap[d][h] \in FatxFiles /\ handleMap[d][h].dirent.path = owner[h]
                           /\ owner[h] \in Paths \/ (owner[h] = Root /\ ~handleMap[d][h].open)
                           /\ h \notin doomed => handleMap[d][h].dirent.live
<1>1. HddEntry(h) /\ EntryAgrees(h)
  BY DEF FilesInv
<1>2. h \in Held /\ d = DevOf(owner[h]) /\ handleMap[d][h].path = owner[h]
  BY <1>1 DEF EntryAgrees, Opened, Held
<1>3. ASSUME d = "hdd"
      PROVE  /\ handleMap[d][h] \in FatxFiles /\ handleMap[d][h].dirent.path = owner[h]
             /\ owner[h] \in Paths \/ (owner[h] = Root /\ ~handleMap[d][h].open)
             /\ h \notin doomed => handleMap[d][h].dirent.live
  BY <1>1, <1>2, <1>3 DEF HddEntry, Opened, FatxFiles
<1> QED BY <1>2, <1>3

\* A handle of the guest is open while the worker runs.
LEMMA HeldOpened ==
    ASSUME FilesInv, Running, NEW h \in Held
    PROVE  h \in Handles /\ Opened(DevOf(owner[h]), h)
BY DEF FilesInv, EntryAgrees, Held, Opened

\* The handle of a transfer that finds its entry.
LEMMA TransferOpened ==
    ASSUME FilesInv, Running, NEW r \in GuestTransfers, Opened(r.dev, r.handle), r.handle \notin DevHandles
    PROVE  r.handle \in Held \ doomed /\ r.handle \in Handles /\ r.dev \in Devs
BY TransfersTyped, OpenedHeld DEF Held, FreeHandles

\* Rounding up to clusters.
LEMMA AlignedUp == ASSUME NEW n \in Nat PROVE Aligned(n) \in Nat /\ n <= Aligned(n)
<1> DEFINE m == n + ClusterSize - 1
           q == m \div ClusterSize
<1>1. ClusterSize \in Nat /\ ClusterSize > 0 /\ m \in Nat
  BY SizesAssumption
<1> HIDE DEF m
<1>2. q \in Nat /\ q * ClusterSize + ClusterSize > m
  BY <1>1
<1> HIDE DEF q
<1>3. q * ClusterSize \in Nat
  BY <1>1, <1>2
<1>4. Aligned(n) = q * ClusterSize
  BY DEF Aligned, q, m
<1>5. m = n + ClusterSize - 1
  BY DEF m
<1> QED BY <1>1, <1>2, <1>3, <1>4, <1>5

\* The cluster chain of a file only grows, and its size with it.
LEMMA AppendedGrows ==
    ASSUME NEW dirent \in Dirents, NEW offset \in Nat, NEW size \in Nat, offset + size <= MaxSize
    PROVE  LET new == Appended(dirent, offset, size) IN
           /\ new \in Dirents /\ new.path = dirent.path /\ new.attrs = dirent.attrs /\ new.live = dirent.live
           /\ new.size \in dirent.size .. MaxSize
<1>1. dirent.size \in 0 .. MaxSize /\ Aligned(dirent.size) \in Nat /\ dirent.size <= Aligned(dirent.size)
  BY AlignedUp, SizesAssumption DEF Dirents
<1> DEFINE s == IF offset + size > Aligned(dirent.size) THEN offset + size ELSE dirent.size
<1>2. s \in dirent.size .. MaxSize /\ s \in 0 .. MaxSize
  BY <1>1, SizesAssumption
<1>3. Appended(dirent, offset, size) = [dirent EXCEPT !.size = s]
  BY DEF Appended
<1> HIDE DEF s
<1> QED BY <1>2, <1>3 DEF Dirents

\* A packet that changes neither dirents nor the handle map.
LEMMA QuietDoes ==
    ASSUME NEW r \in GuestTransfers, UNCHANGED <<disk, intact, handleMap>>, GuestLearns(r, info'),
           host' \in [Paths -> 0 .. MaxSize + 1], info' \in InfoBlocks
    PROVE  Effects(r) /\ Answered(r)
BY TransfersTyped DEF GuestLearns, Effects, Nothing, Rests, Answered

LEMMA UnknownHandleDoes ==
    ASSUME FilesInv, Running, NEW r \in GuestRequests, r.type # "open", UnknownHandle(r), GuestLearns(r, info')
    PROVE  Effects(r) /\ Answered(r)
<1>1. r \in GuestTransfers
  <2>1. CASE r.type = "close"
    BY <2>1, RequestKinds, ClosesTyped, HeldOpened DEF UnknownHandle
  <2>2. CASE r.type = "remove"
    BY <2>2, RequestKinds, RemovesTyped, HeldOpened DEF UnknownHandle
  <2> QED BY <2>1, <2>2, RequestKinds
<1>2. info' \in InfoBlocks /\ host' \in [Paths -> 0 .. MaxSize + 1] /\ UNCHANGED <<disk, intact, handleMap>>
  BY SizesAssumption DEF UnknownHandle, ZeroInfo, InfoBlocks, Statuses, FilesInv, TypeOK, fileVars, stored
<1> QED BY <1>1, <1>2, QuietDoes

LEMMA ReadDoes ==
    ASSUME FilesInv, Running, NEW r \in GuestTransfers, Opened(r.dev, r.handle), Read(r), GuestLearns(r, info')
    PROVE  Effects(r) /\ Answered(r)
<1> DEFINE file == handleMap[r.dev][r.handle]
<1>1. host' \in [Paths -> 0 .. MaxSize + 1] /\ UNCHANGED <<disk, intact, handleMap>>
  BY DEF Read, FilesInv, TypeOK, fileVars, stored
<1>2. CASE Reply("IO_DEVICE_ERROR", 0, 0)
  <2>1. info' \in InfoBlocks
    BY <1>2, ReplyTyped, SizesAssumption DEF Statuses
  <2> QED BY <1>1, <2>1, QuietDoes
<1>3. ASSUME Readable(r, file), NEW n \in BytesRead(r, file), Reply("SUCCESS", n, 0)
      PROVE  Effects(r) /\ Answered(r)
  <2>1. r.size \in Nat /\ r.offset \in Nat /\ r.offset + r.size <= MaxSize /\ MaxSize \in Nat
    BY TransfersTyped, SizesAssumption
  <2>2. n \in 0 .. 5 + MaxSize
    <3>1. CASE r.handle \in DevHandles \/ r.dev = "cdrom"
      BY <1>3, <2>1, <3>1 DEF BytesRead
    <3>2. CASE r.handle \notin DevHandles /\ r.dev = "hdd"
      <4>1. file.open
        BY <1>3, <3>2 DEF Readable
      <4>2. r.handle \in Handles /\ r.dev \in Devs
        BY <3>2, TransferOpened
      <4>3. file.path \in Paths
        BY <3>2, <4>1, <4>2, OpenedHeld
      <4>4. host[file.path] \in 0 .. MaxSize + 1
        BY <4>3 DEF FilesInv, TypeOK
      <4> QED BY <1>3, <2>1, <3>2, <4>4 DEF BytesRead
    <3> QED BY <3>1, <3>2, TransfersTyped DEF Devs
  <2>3. info' \in InfoBlocks
    BY <1>3, <2>2, ReplyTyped, SizesAssumption DEF Statuses
  <2> QED BY <1>1, <2>3, QuietDoes
<1> QED BY <1>2, <1>3 DEF Read

LEMMA WriteFileDoes ==
    ASSUME FilesInv, Running, NEW r \in GuestTransfers, Opened(r.dev, r.handle), WriteFile(r), GuestLearns(r, info')
    PROVE  Effects(r) /\ Answered(r)
<1> DEFINE file == handleMap[r.dev][r.handle]
           end == r.offset + r.size
           length == IF end > host[file.path] THEN end ELSE host[file.path]
           new == Appended(file.dirent, r.offset, r.size)
<1>1. /\ r.handle \in Held \ doomed /\ r.handle \in Handles /\ r.dev \in Devs
  BY TransferOpened DEF WriteFile
<1>2. r.size \in Nat /\ r.offset \in Nat /\ end \in 0 .. MaxSize /\ (r.type = "write" \/ r.type = "read")
  BY TransfersTyped, SizesAssumption
<1>3. r.size \in 0 .. 5 + MaxSize /\ 0 \in 0 .. 5 + MaxSize /\ 0 \in 0 .. MaxSize
  BY TransfersTyped, SizesAssumption
<1>4. CASE UNCHANGED <<host, handleMap>> /\ Reply("IO_DEVICE_ERROR", 0, 0)
  <2>1. info' \in InfoBlocks /\ host' \in [Paths -> 0 .. MaxSize + 1] /\ UNCHANGED <<disk, intact, handleMap>>
    BY <1>3, <1>4, ReplyTyped DEF Statuses, WriteFile, FilesInv, TypeOK
  <2> QED BY <2>1, QuietDoes
<1>5. CASE /\ r.dev = "hdd" /\ file.open
           /\ host' = [host EXCEPT ![file.path] = length]
           /\ \/ /\ handleMap' = [handleMap EXCEPT ![r.dev][r.handle].dirent = new]
                 /\ Reply("SUCCESS", r.size, 0)
              \/ Reply("IO_DEVICE_ERROR", 0, 0) /\ UNCHANGED handleMap
  <2>1. /\ file \in FatxFiles /\ file.dirent.path = owner[r.handle] /\ file.path = owner[r.handle]
        /\ owner[r.handle] \in Paths /\ file.dirent.live
    BY <1>1, <1>5, OpenedHeld
  <2>2. host[file.path] \in 0 .. MaxSize + 1 /\ host \in [Paths -> 0 .. MaxSize + 1]
    BY <2>1 DEF FilesInv, TypeOK
  <2>3. length \in 0 .. MaxSize + 1
    BY <2>2, TransfersTyped, SizesAssumption
  <2>4. host' \in [Paths -> 0 .. MaxSize + 1]
    BY <1>5, <2>1, <2>2, <2>3
  <2>5. CASE Reply("IO_DEVICE_ERROR", 0, 0) /\ UNCHANGED handleMap
    <3>1. info' \in InfoBlocks
      BY <1>3, <2>5, ReplyTyped DEF Statuses
    <3> QED BY <2>4, <2>5, <3>1, QuietDoes DEF WriteFile
  <2>6. CASE /\ handleMap' = [handleMap EXCEPT ![r.dev][r.handle].dirent = new]
             /\ Reply("SUCCESS", r.size, 0)
    <3>1. info' \in InfoBlocks /\ info'.status = "SUCCESS"
      BY <1>3, <2>6, ReplyTyped DEF Statuses
    <3>2. file.dirent \in Dirents
      BY <2>1 DEF FatxFiles
    <3>3. /\ new \in Dirents /\ new.path = owner[r.handle] /\ new.attrs = file.dirent.attrs /\ new.live
          /\ new.size \in file.dirent.size .. MaxSize
      BY <2>1, <3>2, TransfersTyped, AppendedGrows
    <3>4. UNCHANGED <<disk, intact>> /\ owner' = owner /\ doomed' = doomed
      BY TransfersTyped DEF WriteFile, GuestLearns
    <3>5. handleMap' = [handleMap EXCEPT !["hdd"][r.handle] = [@ EXCEPT !.dirent = new]]
      BY <1>5, <2>6
    <3> HIDE DEF new
    <3>6. Grows(r, new)
      BY <1>1, <1>5, <2>1, <3>3, <3>4, <3>5, TransfersTyped DEF Grows, Recached
    <3> QED BY <2>4, <3>1, <3>6 DEF Effects, Answered
  <2> QED BY <1>5, <2>5, <2>6
<1> QED BY <1>4, <1>5 DEF WriteFile

LEMMA WriteRawDoes ==
    ASSUME FilesInv, NEW r \in GuestTransfers, WriteRaw(r), GuestLearns(r, info')
    PROVE  Effects(r) /\ Answered(r)
<1>1. r.size \in 0 .. 5 + MaxSize /\ 0 \in 0 .. 5 + MaxSize /\ 0 \in 0 .. MaxSize
  BY TransfersTyped, SizesAssumption
<1>2. info' \in InfoBlocks
  BY <1>1, ReplyTyped DEF WriteRaw, Statuses
<1>3. Rests(r)
  BY TransfersTyped DEF WriteRaw, GuestLearns, Rests
<1>4. disk \in [Slots -> Dirents \cup {NoDirent}] /\ NamesStored /\ host \in [Paths -> 0 .. MaxSize + 1]
  BY DEF FilesInv, TypeOK, StoredOnce
<1>5. CASE UNCHANGED stored
  BY <1>2, <1>3, <1>4, <1>5 DEF stored, Effects, Answered, Nothing
<1>6. CASE UNCHANGED <<disk, intact>> /\ \E p \in Paths : \E length \in (host[p] + 1) .. MaxSize : host' = [host EXCEPT ![p] = length]
  <2>1. host' \in [Paths -> 0 .. MaxSize + 1]
    BY <1>4, <1>6, SizesAssumption
  <2> QED BY <1>2, <1>3, <1>6, <2>1 DEF Effects, Answered, Nothing
<1>7. CASE /\ \/ \E s \in Slots, d \in RawDirents : disk' = [disk EXCEPT ![s] = d]
              \/ disk' = [s \in Slots |-> NoDirent]
           /\ intact' = FALSE /\ UNCHANGED host
  <2>1. disk' \in [Slots -> Dirents \cup {NoDirent}] /\ NamesStored'
    BY <1>4, <1>7, RawAssumption, EntriesDiffer DEF NamesStored
  <2> QED BY <1>2, <1>3, <1>4, <1>7, <2>1 DEF Effects, Answered, Overruns
<1> QED BY <1>5, <1>6, <1>7 DEF WriteRaw, RawEffect

LEMMA RemoveFileDoes ==
    ASSUME FilesInv, Running, NEW r \in GuestRemoves, RemoveFile(r), GuestLearns(r, info')
    PROVE  Effects(r) /\ Answered(r)
<1> DEFINE file == handleMap["hdd"][r.handle]
           new == [file.dirent EXCEPT !.live = FALSE]
<1>1. r.handle \in Held \ doomed /\ r.handle \in Handles /\ r.dev = DevOf(owner[r.handle]) /\ r.type = "remove"
      /\ owner[r.handle] # Root
  BY RemovesTyped DEF Held
<1>2. owner' = owner /\ doomed' = doomed \cup {r.handle} /\ UNCHANGED <<disk, host, intact>>
  BY <1>1 DEF GuestLearns, RemoveFile, stored
<1>3. host' \in [Paths -> 0 .. MaxSize + 1]
  BY <1>2 DEF FilesInv, TypeOK
<1>4. info' \in InfoBlocks
  BY ReplyTyped, SizesAssumption DEF RemoveFile, Statuses
<1>5. CASE UNCHANGED handleMap
  BY <1>1, <1>2, <1>3, <1>4, <1>5 DEF Effects, Nothing, Rests, Answered
<1>6. CASE r.dev = "hdd" /\ handleMap' = [handleMap EXCEPT ![r.dev][r.handle].dirent.live = FALSE]
  <2>1. Opened("hdd", r.handle)
    BY <1>1, <1>6, HeldOpened
  <2>2. file \in FatxFiles /\ file.dirent.path = owner[r.handle] /\ owner[r.handle] \in Paths
    BY <1>1, <2>1, OpenedHeld DEF Devs
  <2>3. new \in Dirents /\ new.path = owner[r.handle] /\ ~new.live
    BY <2>2 DEF FatxFiles, Dirents
  <2>4. handleMap' = [handleMap EXCEPT !["hdd"][r.handle] = [@ EXCEPT !.dirent = new]]
    BY <1>6
  <2>5. info'.status = "SUCCESS"
    BY <1>6, ReplyTyped, SizesAssumption DEF RemoveFile, Reply
  <2> HIDE DEF new
  <2>6. Deletes(r, new)
    BY <1>1, <1>2, <1>6, <2>2, <2>3, <2>4 DEF Deletes, Recached
  <2> QED BY <1>3, <1>4, <2>5, <2>6 DEF Effects, Answered
<1> QED BY <1>5, <1>6 DEF RemoveFile

LEMMA CloseDoes ==
    ASSUME FilesInv, NEW r \in GuestCloses, Opened(r.dev, r.handle), Close(r), GuestLearns(r, info')
    PROVE  Effects(r) /\ Answered(r)
<1>1. host' \in [Paths -> 0 .. MaxSize + 1]
  BY DEF Close, FilesInv, TypeOK
<1>2. info' \in InfoBlocks /\ info'.status = "SUCCESS"
  BY ReplyTyped, SizesAssumption DEF Close, Statuses
<1>3. Shuts(r)
  BY ClosesTyped DEF GuestLearns, Shuts
<1> QED BY <1>1, <1>2, <1>3 DEF Effects, Answered

\* Whatever its type and whatever path its handler takes, a packet has one of
\* the effects, and one that is not answered with success leaves the handle
\* map alone.
LEMMA ServeDoes ==
    ASSUME FilesInv, NEW r \in GuestRequests, Serve(r)
    PROVE  Effects(r) /\ Answered(r)
<1>1. Running /\ GuestLearns(r, info')
  BY DEF Serve
<1>2. CASE r.type = "open" /\ (OpenDisc(r) \/ OpenHdd(r))
  BY <1>1, <1>2, RequestKinds, OpenDiscDoes, OpenHddDoes
<1>3. CASE r.type # "open" /\ UnknownHandle(r)
  BY <1>1, <1>3, UnknownHandleDoes
<1>4. ASSUME r.type # "open", Opened(r.dev, r.handle)
      PROVE  /\ r.type = "read" /\ Read(r) => Effects(r) /\ Answered(r)
             /\ r.type = "write" /\ WriteRaw(r) => Effects(r) /\ Answered(r)
             /\ r.type = "write" /\ WriteFile(r) => Effects(r) /\ Answered(r)
             /\ r.type = "remove" /\ RemoveFile(r) => Effects(r) /\ Answered(r)
             /\ r.type = "close" /\ Close(r) => Effects(r) /\ Answered(r)
  BY <1>1, <1>4, RequestKinds, ReadDoes, WriteRawDoes, WriteFileDoes, RemoveFileDoes, CloseDoes
<1> QED BY <1>2, <1>3, <1>4 DEF Serve, Handle

-----------------------------------------------------------------------------
(***************************************************************************)
(* The invariant is kept, effect by effect                                 *)
(***************************************************************************)

\* Device handles are no file handles, and the worker runs while the partition's
\* device object is in the map.
LEMMA HandlesApart ==
    /\ "hdd" \in AllHandles \ Handles /\ Handles \subseteq AllHandles /\ Devs = {"hdd", "cdrom"}
BY NamesApart DEF AllHandles, DevHandles, Devs

\* The entry of an open, and all the others.
LEMMA BindsEntries ==
    ASSUME FilesInv, Running, NEW r \in GuestOpens, NEW file, Binds(r, file)
    PROVE  /\ handleMap' \in Maps /\ r.dev \in Devs /\ r.handle \in Handles
           /\ owner' \in [Handles -> Paths \cup DOMAIN Disc \cup {Root, NoPath}]
           /\ \/ UNCHANGED <<handleMap, owner>> /\ owner[r.handle] = r.path /\ Opened(r.dev, r.handle)
              \/ /\ owner[r.handle] = NoPath /\ Holders(r.path) = {} /\ \A d \in Devs : handleMap[d][r.handle] = NoFile
                 /\ handleMap'[r.dev][r.handle] = file /\ owner'[r.handle] = r.path
           /\ \A d \in Devs, h \in AllHandles : d # r.dev \/ h # r.handle => handleMap'[d][h] = handleMap[d][h]
           /\ \A h \in Handles : h # r.handle => owner'[h] = owner[h]
<1>1. /\ r.handle \in Handles /\ r.handle \in AllHandles /\ r.dev = DevOf(r.path) /\ r.dev \in Devs
      /\ r.path \in Paths \cup DOMAIN Disc \cup {Root}
  BY OpensTyped, HandlesApart DEF DevOf, Devs
<1>2. /\ handleMap \in Maps /\ owner \in [Handles -> Paths \cup DOMAIN Disc \cup {Root, NoPath}]
      /\ file \in Files
      /\ owner' = [owner EXCEPT ![r.handle] = r.path]
      /\ handleMap' = IF Opened(r.dev, r.handle) THEN handleMap ELSE [handleMap EXCEPT ![r.dev][r.handle] = file]
  BY DEF FilesInv, TypeOK, Binds, Emplace
<1>3. /\ owner' \in [Handles -> Paths \cup DOMAIN Disc \cup {Root, NoPath}] /\ owner'[r.handle] = r.path
      /\ \A h \in Handles : h # r.handle => owner'[h] = owner[h]
  BY <1>1, <1>2
<1>4. CASE Opened(r.dev, r.handle)
  <2>1. owner[r.handle] = r.path
    BY <1>1, <1>4, OpensWhere
  <2>2. owner' = owner /\ handleMap' = handleMap
    BY <1>1, <1>2, <1>4, <2>1
  <2> QED BY <1>1, <1>2, <1>3, <1>4, <2>1, <2>2
<1>5. CASE ~Opened(r.dev, r.handle)
  <2>1. owner[r.handle] = NoPath /\ Holders(r.path) = {} /\ \A d \in Devs : handleMap[d][r.handle] = NoFile
    BY <1>1, <1>5, OpensWhere DEF Opened
  <2>2. handleMap' = [handleMap EXCEPT ![r.dev][r.handle] = file]
    BY <1>2, <1>5
  <2>3. /\ handleMap' \in Maps /\ handleMap'[r.dev][r.handle] = file
        /\ \A d \in Devs, h \in AllHandles : d # r.dev \/ h # r.handle => handleMap'[d][h] = handleMap[d][h]
    BY <1>1, <1>2, <2>2 DEF Maps
  <2> QED BY <1>1, <1>3, <2>1, <2>3
<1> QED BY <1>4, <1>5

\* The types of the two halves of the map, one entry at a time.
LEMMA MapsTyped ==
    ASSUME NEW m \in Maps,
           \A h \in AllHandles : /\ m["hdd"][h] \in FatxFiles \cup {DeviceObject, NoFile}
                                 /\ m["cdrom"][h] \in DiscFiles \cup {DeviceObject, NoFile}
    PROVE  /\ m["hdd"] \in [AllHandles -> FatxFiles \cup {DeviceObject, NoFile}]
           /\ m["cdrom"] \in [AllHandles -> DiscFiles \cup {DeviceObject, NoFile}]
<1>1. m["hdd"] \in [AllHandles -> Files] /\ m["cdrom"] \in [AllHandles -> Files]
  BY HandlesApart DEF Maps
<1> QED BY <1>1

\* Files stay where they are stored, for as long as that is promised.
DiskKept ==
    /\ disk' \in [Slots -> Dirents \cup {NoDirent}] /\ StoredOnce' /\ intact' \in BOOLEAN
    /\ intact' => intact /\ \A s \in Slots : disk[s].live => disk'[s].live /\ disk'[s].path = disk[s].path

LEMMA BindsKeep ==
    ASSUME FilesInv, Running, NEW r \in GuestOpens, NEW file, Binds(r, file), DiskKept,
           r.dev = "hdd" /\ r.path # Root /\ intact' => disk'[file.slot].live /\ disk'[file.slot].path = r.path,
           host' \in [Paths -> 0 .. MaxSize + 1], info' \in InfoBlocks
    PROVE  FilesInv'
<1> USE HandlesApart
<1> DEFINE d == r.dev  k == r.handle
<1>1. /\ handleMap' \in Maps /\ d \in Devs /\ k \in Handles
      /\ owner' \in [Handles -> Paths \cup DOMAIN Disc \cup {Root, NoPath}]
      /\ \/ UNCHANGED <<handleMap, owner>> /\ owner[k] = r.path /\ Opened(d, k)
         \/ /\ owner[k] = NoPath /\ Holders(r.path) = {} /\ \A e \in Devs : handleMap[e][k] = NoFile
            /\ handleMap'[d][k] = file /\ owner'[k] = r.path
      /\ \A e \in Devs, h \in AllHandles : e # d \/ h # k => handleMap'[e][h] = handleMap[e][h]
      /\ \A h \in Handles : h # k => owner'[h] = owner[h]
  BY BindsEntries
<1>2. /\ file \in Files \ {NoFile} /\ file.path = r.path /\ doomed' = doomed
      /\ IF d = "hdd" THEN FreshFile(r, file) ELSE file \in DiscFiles
  BY DEF Binds
<1>3. r.path # NoPath /\ d = DevOf(r.path) /\ k \notin doomed
  BY OpensTyped, NamesApart, OpensWhere
<1>4. Running'
  BY <1>1 DEF Running, Opened
<1>5. TypeOK'
  <2>1. \A h \in AllHandles : /\ handleMap["hdd"][h] \in FatxFiles \cup {DeviceObject, NoFile}
                              /\ handleMap["cdrom"][h] \in DiscFiles \cup {DeviceObject, NoFile}
    BY DEF FilesInv, TypeOK
  <2>2. \A h \in AllHandles : /\ handleMap'["hdd"][h] \in FatxFiles \cup {DeviceObject, NoFile}
                              /\ handleMap'["cdrom"][h] \in DiscFiles \cup {DeviceObject, NoFile}
    BY <1>1, <1>2, <2>1 DEF FreshFile
  <2>3. doomed' \subseteq Handles
    BY <1>2 DEF FilesInv, TypeOK
  <2> QED BY <1>1, <2>2, <2>3, MapsTyped DEF TypeOK, DiskKept
<1>6. ASSUME NEW h \in Handles PROVE HddEntry(h)' /\ DiscEntry(h)' /\ EntryAgrees(h)'
  <2>1. HddEntry(h) /\ DiscEntry(h) /\ EntryAgrees(h)
    BY DEF FilesInv
  <2>2. CASE h # k \/ UNCHANGED <<handleMap, owner>>
    <3>1. \A e \in Devs : handleMap'[e][h] = handleMap[e][h]
      BY <1>1, <2>2
    <3>2. owner'[h] = owner[h] /\ DevOf(owner[h]) \in Devs
      BY <1>1, <2>2 DEF DevOf, Devs
    <3>3. HddEntry(h)'
      BY <1>2, <2>1, <3>1 DEF HddEntry, DiskKept
    <3> QED BY <1>4, <2>1, <3>1, <3>2, <3>3 DEF DiscEntry, EntryAgrees
  <2>3. CASE h = k /\ ~UNCHANGED <<handleMap, owner>>
    <3>1. \A e \in Devs : handleMap'[e][h] = IF e = d THEN file ELSE NoFile
      BY <1>1, <2>3
    <3>2. owner'[h] = r.path
      BY <1>1, <2>3
    <3>3. HddEntry(h)'
      BY <1>2, <3>1 DEF HddEntry, FreshFile
    <3>4. DiscEntry(h)'
      BY <1>1, <1>2, <3>1 DEF DiscEntry
    <3>5. EntryAgrees(h)'
      BY <1>1, <1>2, <1>3, <3>1, <3>2 DEF EntryAgrees
    <3> QED BY <3>3, <3>4, <3>5
  <2> QED BY <2>2, <2>3
<1>7. OwnersApart'
  <2>1. OwnersApart
    BY DEF FilesInv
  <2> QED BY <1>1, <2>1 DEF OwnersApart, Holders
<1>8. doomed' \subseteq Held'
  <2>1. doomed \subseteq Held
    BY DEF FilesInv
  <2> QED BY <1>1, <1>2, <1>3, <2>1 DEF Held
<1> QED BY <1>1, <1>4, <1>5, <1>6, <1>7, <1>8 DEF FilesInv, DiskKept

\* A stream that stays as it is.
LEMMA SameDiskKept == ASSUME FilesInv, UNCHANGED disk, intact' \in {FALSE, intact} PROVE DiskKept
<1>1. disk \in [Slots -> Dirents \cup {NoDirent}] /\ intact \in BOOLEAN /\ StoredOnce
  BY DEF FilesInv, TypeOK
<1>2. intact' \in BOOLEAN /\ (intact' => intact)
  <2>1. CASE intact' = FALSE
    BY <2>1
  <2>2. CASE intact' = intact
    BY <1>1, <2>2
  <2> QED BY <2>1, <2>2
<1>3. StoredOnce'
  BY <1>1, <1>2 DEF StoredOnce, NamesStored
<1> QED BY <1>1, <1>2, <1>3 DEF DiskKept

\* One that gets a dirent for a path, where the path has its own or none.
LEMMA MadeDiskKept ==
    ASSUME FilesInv, NEW path \in Paths, NEW s \in Slots, NEW dirent \in Dirents, dirent.live, dirent.path = path,
           disk' = [disk EXCEPT ![s] = dirent], UNCHANGED intact,
           s \in Find(path) \/ (Find(path) = {} /\ ~disk[s].live)
    PROVE  DiskKept
<1>1. disk \in [Slots -> Dirents \cup {NoDirent}] /\ StoredOnce /\ intact \in BOOLEAN
  BY DEF FilesInv, TypeOK
<1>2. disk' \in [Slots -> Dirents \cup {NoDirent}] /\ \A t \in Slots : disk'[t] = IF t = s THEN dirent ELSE disk[t]
  BY <1>1
<1>3. disk[s].live => disk[s].path = path
  BY DEF Find
<1>4. intact => \A t \in Slots : disk[t].live /\ disk[t].path = path => t = s
  BY <1>1 DEF Find, StoredOnce
<1>5. NamesStored'
  BY <1>1, <1>2 DEF StoredOnce, NamesStored
<1>6. intact' => \A t, u \in Slots : disk'[t].live /\ disk'[u].live /\ disk'[u].path = disk'[t].path => t = u
  BY <1>1, <1>2, <1>4 DEF StoredOnce
<1> QED BY <1>1, <1>2, <1>3, <1>5, <1>6 DEF StoredOnce, DiskKept

LEMMA BindsFoundKeeps ==
    ASSUME FilesInv, Running, NEW r \in GuestOpens, NEW file, BindsFound(r, file),
           host' \in [Paths -> 0 .. MaxSize + 1], info' \in InfoBlocks
    PROVE  FilesInv'
<1>1. Binds(r, file) /\ disk' = disk /\ intact' = intact
  BY DEF BindsFound
<1>2. DiskKept
  BY <1>1, SameDiskKept
<1>3. r.dev = "hdd" /\ r.path # Root => disk'[file.slot].live /\ disk'[file.slot].path = r.path
  BY <1>1 DEF BindsFound, Find
<1> QED BY <1>1, <1>2, <1>3, BindsKeep

LEMMA BindsMadeKeeps ==
    ASSUME FilesInv, Running, NEW r \in GuestOpens, NEW file, BindsMade(r, file),
           host' \in [Paths -> 0 .. MaxSize + 1], info' \in InfoBlocks
    PROVE  FilesInv'
<1>1. Binds(r, file) /\ r.dev = "hdd" /\ r.path \in Paths /\ r.path # Root
  BY NamesApart DEF BindsMade
<1>2. file.slot \in Slots /\ file.dirent \in Dirents /\ file.dirent.live /\ file.dirent.path = r.path
  BY <1>1 DEF Binds, FreshFile, FatxFiles
<1>3. disk' = [disk EXCEPT ![file.slot] = file.dirent]
  BY DEF BindsMade
<1>4. DiskKept
  BY <1>1, <1>2, MadeDiskKept DEF BindsMade
<1>5. disk'[file.slot] = file.dirent
  BY <1>2, <1>3 DEF FilesInv, TypeOK
<1> QED BY <1>1, <1>2, <1>4, <1>5, BindsKeep

LEMMA BindsUnstoredKeeps ==
    ASSUME FilesInv, Running, NEW r \in GuestOpens, NEW file, BindsUnstored(r, file),
           host' \in [Paths -> 0 .. MaxSize + 1], info' \in InfoBlocks
    PROVE  FilesInv'
<1>1. DiskKept
  BY SameDiskKept DEF BindsUnstored
<1> QED BY <1>1, BindsKeep DEF BindsUnstored

LEMMA RestsKeep ==
    ASSUME FilesInv, Running, NEW r \in GuestRequests, Rests(r), DiskKept,
           host' \in [Paths -> 0 .. MaxSize + 1], info' \in InfoBlocks
    PROVE  FilesInv'
<1>1. /\ UNCHANGED <<handleMap, owner>>
      /\ doomed' = doomed \/ (r.type = "remove" /\ doomed' = doomed \cup {r.handle})
  BY DEF Rests
<1>2. r.type = "remove" => r.handle \in Held
  BY RequestKinds, RemovesTyped
<1>3. doomed \subseteq Held /\ Held \subseteq Handles
  BY DEF FilesInv, Held
<1>4. doomed' \subseteq Held /\ doomed \subseteq doomed'
  BY <1>1, <1>2, <1>3
<1>5. Held' = Held /\ Running' = Running
  BY <1>1 DEF Held, Running, Opened
<1>6. TypeOK'
  BY <1>1, <1>3, <1>4 DEF FilesInv, TypeOK, DiskKept
<1>7. ASSUME NEW h \in Handles PROVE HddEntry(h)' /\ DiscEntry(h)' /\ EntryAgrees(h)'
  <2>1. HddEntry(h) /\ DiscEntry(h) /\ EntryAgrees(h)
    BY DEF FilesInv
  <2>2. HddEntry(h)'
    BY <1>1, <1>4, <2>1 DEF HddEntry, DiskKept
  <2> QED BY <1>1, <1>5, <2>1, <2>2 DEF DiscEntry, EntryAgrees
<1>8. StoredOnce' /\ OwnersApart' /\ handleMap' \in Maps
  BY <1>1 DEF FilesInv, OwnersApart, DiskKept
<1> QED BY <1>4, <1>5, <1>6, <1>7, <1>8 DEF FilesInv

\* The entry of a packet on an open file, and all the others.
LEMMA RecachedEntries ==
    ASSUME FilesInv, NEW r, NEW dirent, Recached(r, dirent)
    PROVE  /\ handleMap' \in Maps /\ r.handle \in Handles
           /\ handleMap'["hdd"][r.handle] = [handleMap["hdd"][r.handle] EXCEPT !.dirent = dirent]
           /\ handleMap'["hdd"][r.handle] \in FatxFiles
           /\ \A d \in Devs, h \in AllHandles : d # "hdd" \/ h # r.handle => handleMap'[d][h] = handleMap[d][h]
<1>1. r.handle \in Handles /\ r.handle \in AllHandles /\ handleMap \in Maps /\ Devs = {"hdd", "cdrom"}
  BY HandlesApart DEF Recached, Held, FilesInv
<1> DEFINE new == [handleMap["hdd"][r.handle] EXCEPT !.dirent = dirent]
<1>2. new \in FatxFiles /\ new \in Files
  BY DEF Recached, FatxFiles, Files
<1>3. handleMap' = [handleMap EXCEPT !["hdd"][r.handle] = new]
  BY DEF Recached
<1> HIDE DEF new
<1>4. /\ handleMap' \in Maps /\ handleMap'["hdd"][r.handle] = new
      /\ \A d \in Devs, h \in AllHandles : d # "hdd" \/ h # r.handle => handleMap'[d][h] = handleMap[d][h]
  BY <1>1, <1>2, <1>3 DEF Maps
<1> QED BY <1>1, <1>2, <1>4 DEF new

LEMMA RecachedKeeps ==
    ASSUME FilesInv, Running, NEW r, NEW dirent, Recached(r, dirent),
           (dirent.live /\ doomed' = doomed) \/ doomed' = doomed \cup {r.handle},
           host' \in [Paths -> 0 .. MaxSize + 1], info' \in InfoBlocks
    PROVE  FilesInv'
<1> USE HandlesApart
<1> DEFINE k == r.handle
<1>1. /\ handleMap' \in Maps /\ k \in Handles
      /\ handleMap'["hdd"][k] = [handleMap["hdd"][k] EXCEPT !.dirent = dirent]
      /\ handleMap'["hdd"][k] \in FatxFiles
      /\ \A d \in Devs, h \in AllHandles : d # "hdd" \/ h # k => handleMap'[d][h] = handleMap[d][h]
  BY RecachedEntries
<1>2. /\ k \in Held \ doomed /\ handleMap["hdd"][k] \in FatxFiles /\ owner[k] \in Paths
      /\ dirent \in Dirents /\ dirent.path = owner[k] /\ UNCHANGED <<disk, intact, owner>>
  BY DEF Recached
<1>3. Running'
  BY <1>1 DEF Running, Opened
<1>4. doomed \subseteq Held /\ Held \subseteq Handles /\ Held' = Held
  BY <1>2 DEF FilesInv, Held
<1>5. doomed' \subseteq Held' /\ doomed \subseteq doomed' /\ doomed' \subseteq Handles
  BY <1>2, <1>4
<1>6. TypeOK'
  <2>1. \A h \in AllHandles : /\ handleMap["hdd"][h] \in FatxFiles \cup {DeviceObject, NoFile}
                              /\ handleMap["cdrom"][h] \in DiscFiles \cup {DeviceObject, NoFile}
    BY DEF FilesInv, TypeOK
  <2>2. \A h \in AllHandles : /\ handleMap'["hdd"][h] \in FatxFiles \cup {DeviceObject, NoFile}
                              /\ handleMap'["cdrom"][h] \in DiscFiles \cup {DeviceObject, NoFile}
    BY <1>1, <2>1
  <2>3. disk \in [Slots -> Dirents \cup {NoDirent}] /\ owner \in [Handles -> Paths \cup DOMAIN Disc \cup {Root, NoPath}]
    BY DEF FilesInv, TypeOK
  <2>4. intact \in BOOLEAN
    BY DEF FilesInv, TypeOK
  <2> QED BY <1>1, <1>2, <1>5, <2>2, <2>3, <2>4, MapsTyped DEF TypeOK
<1>7. ASSUME NEW h \in Handles PROVE HddEntry(h)' /\ DiscEntry(h)' /\ EntryAgrees(h)'
  <2>1. HddEntry(h) /\ DiscEntry(h) /\ EntryAgrees(h)
    BY DEF FilesInv
  <2>2. CASE h # k
    <3>1. \A d \in Devs : handleMap'[d][h] = handleMap[d][h]
      BY <1>1, <2>2
    <3>2. HddEntry(h)'
      BY <1>2, <1>5, <2>1, <3>1 DEF HddEntry
    <3>3. DevOf(owner[h]) \in Devs
      BY DEF DevOf, Devs
    <3> QED BY <1>2, <1>3, <2>1, <3>1, <3>2, <3>3 DEF DiscEntry, EntryAgrees
  <2>3. CASE h = k
    <3>1. handleMap["hdd"][k] # NoFile /\ handleMap'["hdd"][k] # NoFile
      BY <1>1, <1>2, EntriesDiffer
    <3>2. /\ handleMap'["hdd"][k].path = handleMap["hdd"][k].path /\ handleMap'["hdd"][k].slot = handleMap["hdd"][k].slot
          /\ handleMap'["hdd"][k].open = handleMap["hdd"][k].open /\ handleMap'["hdd"][k].dirent = dirent
      BY <1>1, <1>2 DEF FatxFiles
    <3>3. handleMap["hdd"][k].path = owner[k] /\ owner[k] # Root /\ DevOf(owner[k]) = "hdd"
      BY <1>2, <2>1, <2>3, <3>1, NamesApart DEF EntryAgrees
    <3>4. HddEntry(k)'
      BY <1>1, <1>2, <1>5, <2>1, <2>3, <3>1, <3>2, <3>3 DEF HddEntry
    <3>5. handleMap'["cdrom"][k] = handleMap["cdrom"][k]
      BY <1>1, "hdd" # "cdrom"
    <3>6. DiscEntry(k)'
      BY <2>1, <2>3, <3>5 DEF DiscEntry
    <3>7. EntryAgrees(k)'
      BY <1>2, <1>3, <2>1, <2>3, <3>1, <3>2, <3>3, <3>5 DEF EntryAgrees
    <3> QED BY <2>3, <3>4, <3>6, <3>7
  <2> QED BY <2>2, <2>3
<1>8. StoredOnce' /\ OwnersApart'
  BY <1>2 DEF FilesInv, StoredOnce, NamesStored, OwnersApart
<1> QED BY <1>1, <1>3, <1>5, <1>6, <1>7, <1>8 DEF FilesInv

\* Open files go back to slots of their own.
LEMMA SlotsApart ==
    ASSUME FilesInv, intact, NEW g \in FilesOpen, NEW h \in FilesOpen,
           handleMap["hdd"][g].slot = handleMap["hdd"][h].slot
    PROVE  g = h
<1>1. g \in Handles /\ h \in Handles /\ Opened("hdd", g) /\ Opened("hdd", h)
  BY DEF FilesOpen
<1>2. HddEntry(g) /\ HddEntry(h) /\ EntryAgrees(g) /\ EntryAgrees(h) /\ OwnersApart
  BY <1>1 DEF FilesInv
<1>3. handleMap["hdd"][g].path = handleMap["hdd"][h].path
  BY <1>1, <1>2 DEF FilesOpen, HddEntry, Opened
<1> QED BY <1>1, <1>2, <1>3 DEF EntryAgrees, OwnersApart, Opened, Devs

\* What is written back to a slot is a dirent of the file it holds, or none.
LEMMA FlushFits ==
    ASSUME FilesInv, NEW h \in FilesOpen
    PROVE  LET file == handleMap["hdd"][h] IN
           /\ file.slot \in Slots /\ file.path \in Paths
           /\ intact => disk[file.slot].live /\ disk[file.slot].path = file.path
           /\ Flushed(file) \in Dirents \cup {NoDirent} /\ Flushed(file).live = file.dirent.live
           /\ Flushed(file).live => Flushed(file) = file.dirent /\ Flushed(file).path = file.path
<1> DEFINE file == handleMap["hdd"][h]
<1>1. h \in Handles /\ HddEntry(h) /\ file # NoFile /\ file.path # Root
  BY DEF FilesInv, FilesOpen, Opened
<1>2. file \in FatxFiles /\ file.dirent.path = file.path /\ file.path \in Paths
      /\ file.slot \in Slots /\ (intact => disk[file.slot].live /\ disk[file.slot].path = file.path)
  BY <1>1 DEF HddEntry, FatxFiles
<1>3. file.dirent \in Dirents /\ file.dirent.live \in BOOLEAN
  BY <1>2 DEF FatxFiles, Dirents
<1> HIDE DEF file
<1>4. Flushed(file) = IF file.dirent.live THEN file.dirent ELSE NoDirent
  BY DEF Flushed
<1>5. Flushed(file) \in Dirents \cup {NoDirent} /\ Flushed(file).live = file.dirent.live
  BY <1>3, <1>4, EntriesDiffer
<1>6. Flushed(file).live => Flushed(file) = file.dirent /\ Flushed(file).path = file.path
  BY <1>2, <1>4, <1>5
<1> QED BY <1>2, <1>5, <1>6 DEF file

\* Written back or not, the slot has a dirent of the file it held, or none.
LEMMA WrittenBackFits ==
    ASSUME FilesInv, NEW h \in FilesOpen, NEW dirent \in WrittenBack(handleMap["hdd"][h])
    PROVE  LET slot == handleMap["hdd"][h].slot IN
           /\ slot \in Slots /\ dirent \in Dirents \cup {NoDirent}
           /\ dirent.live => dirent.path \in Paths
           /\ intact /\ dirent.live => disk[slot].live /\ dirent.path = disk[slot].path
<1> DEFINE file == handleMap["hdd"][h]
<1>1. dirent = Flushed(file) \/ dirent = disk[file.slot]
  BY DEF WrittenBack
<1>2. disk \in [Slots -> Dirents \cup {NoDirent}] /\ NamesStored
  BY DEF FilesInv, TypeOK, StoredOnce
<1> QED BY <1>1, <1>2, FlushFits DEF NamesStored

\* What a slot may have after a flush.
Flushes ==
    \A s \in Slots : /\ disk'[s] \in Dirents \cup {NoDirent} /\ (disk'[s].live => disk'[s].path \in Paths)
                     /\ intact /\ disk'[s].live => disk[s].live /\ disk'[s].path = disk[s].path

\* A stream that only loses dirents still has one for a path.
LEMMA OnceKept == ASSUME StoredOnce, Flushes, UNCHANGED intact PROVE StoredOnce'
BY DEF StoredOnce, NamesStored, Flushes

LEMMA SlotsFlush == ASSUME FilesInv, NEW s \in Slots
    PROVE  /\ disk[s] \in Dirents \cup {NoDirent} /\ (disk[s].live => disk[s].path \in Paths)
BY DEF FilesInv, TypeOK, StoredOnce, NamesStored

LEMMA ShutsKeeps ==
    ASSUME FilesInv, Running, NEW r \in GuestCloses, Shuts(r),
           host' \in [Paths -> 0 .. MaxSize + 1], info' \in InfoBlocks
    PROVE  FilesInv'
<1> USE HandlesApart
<1> DEFINE d == r.dev  k == r.handle  file == handleMap[d][k]
<1>1. k \in Handles /\ k \in AllHandles /\ k \in Held /\ d = DevOf(owner[k]) /\ d \in Devs
  BY ClosesTyped DEF Held, DevOf, Devs
<1>2. /\ owner' = [owner EXCEPT ![k] = NoPath] /\ doomed' = doomed \ {k}
      /\ handleMap' = [handleMap EXCEPT ![d][k] = NoFile]
      /\ IF d = "hdd" /\ file.path # Root
         THEN \E dirent \in WrittenBack(file) : disk' = [disk EXCEPT ![file.slot] = dirent] ELSE disk' = disk
      /\ Opened(d, k) /\ intact' = intact
  BY DEF Shuts, Close
<1>3. /\ handleMap \in Maps /\ owner \in [Handles -> Paths \cup DOMAIN Disc \cup {Root, NoPath}]
      /\ disk \in [Slots -> Dirents \cup {NoDirent}] /\ StoredOnce /\ OwnersApart
      /\ doomed \subseteq Held /\ doomed \subseteq Handles /\ NoFile \in Files /\ intact \in BOOLEAN
  BY DEF FilesInv, TypeOK, Files
<1>4. /\ handleMap' \in Maps /\ handleMap'[d][k] = NoFile
      /\ \A e \in Devs, h \in AllHandles : e # d \/ h # k => handleMap'[e][h] = handleMap[e][h]
  BY <1>1, <1>2, <1>3 DEF Maps
<1>5. /\ owner' \in [Handles -> Paths \cup DOMAIN Disc \cup {Root, NoPath}] /\ owner'[k] = NoPath
      /\ \A h \in Handles : h # k => owner'[h] = owner[h]
  BY <1>1, <1>2, <1>3
<1>6. /\ disk' \in [Slots -> Dirents \cup {NoDirent}] /\ Flushes
      /\ intact => \A h \in FilesOpen \ {k} : disk'[handleMap["hdd"][h].slot] = disk[handleMap["hdd"][h].slot]
  <2>1. CASE d = "hdd" /\ file.path # Root
    <3>1. k \in FilesOpen
      BY <1>1, <1>2, <2>1 DEF FilesOpen
    <3>2. PICK dirent \in WrittenBack(file) : disk' = [disk EXCEPT ![file.slot] = dirent]
      BY <1>2, <2>1
    <3>3. /\ file.slot \in Slots /\ dirent \in Dirents \cup {NoDirent} /\ (dirent.live => dirent.path \in Paths)
          /\ intact /\ dirent.live => disk[file.slot].live /\ dirent.path = disk[file.slot].path
      BY <2>1, <3>1, WrittenBackFits
    <3>4. \A s \in Slots : disk'[s] = IF s = file.slot THEN dirent ELSE disk[s]
      BY <1>3, <3>2, <3>3
    <3>5. Flushes
      BY <3>3, <3>4, SlotsFlush DEF Flushes
    <3>6. intact => \A h \in FilesOpen \ {k} : handleMap["hdd"][h].slot # file.slot /\ handleMap["hdd"][h].slot \in Slots
      BY <2>1, <3>1, SlotsApart, FlushFits
    <3> QED BY <1>3, <3>2, <3>3, <3>4, <3>5, <3>6
  <2>2. CASE ~(d = "hdd" /\ file.path # Root)
    <3>1. disk' = disk
      BY <1>2, <2>2
    <3>2. Flushes
      BY <3>1, SlotsFlush DEF Flushes
    <3> QED BY <1>3, <3>1, <3>2
  <2> QED BY <2>1, <2>2
<1>7. Running'
  BY <1>1, <1>4 DEF Running, Opened
<1>8. TypeOK'
  <2>1. \A h \in AllHandles : /\ handleMap["hdd"][h] \in FatxFiles \cup {DeviceObject, NoFile}
                              /\ handleMap["cdrom"][h] \in DiscFiles \cup {DeviceObject, NoFile}
    BY DEF FilesInv, TypeOK
  <2>2. \A h \in AllHandles : /\ handleMap'["hdd"][h] \in FatxFiles \cup {DeviceObject, NoFile}
                              /\ handleMap'["cdrom"][h] \in DiscFiles \cup {DeviceObject, NoFile}
    BY <1>4, <2>1
  <2>3. doomed' \subseteq Handles
    BY <1>2, <1>3
  <2> QED BY <1>2, <1>3, <1>4, <1>5, <1>6, <2>2, <2>3, MapsTyped DEF TypeOK
<1>9. ASSUME NEW h \in Handles PROVE HddEntry(h)' /\ DiscEntry(h)' /\ EntryAgrees(h)'
  <2>1. HddEntry(h) /\ DiscEntry(h) /\ EntryAgrees(h)
    BY DEF FilesInv
  <2>2. CASE h # k
    <3>1. \A e \in Devs : handleMap'[e][h] = handleMap[e][h]
      BY <1>4, <2>2
    <3>2. owner'[h] = owner[h] /\ DevOf(owner[h]) \in Devs
      BY <1>5, <2>2 DEF DevOf, Devs
    <3>3. ASSUME intact, handleMap["hdd"][h] # NoFile, handleMap["hdd"][h].path # Root
          PROVE  disk'[handleMap["hdd"][h].slot] = disk[handleMap["hdd"][h].slot]
      BY <1>6, <2>2, <3>3 DEF FilesOpen, Opened
    <3>4. HddEntry(h)'
      BY <1>2, <2>1, <2>2, <3>1, <3>3 DEF HddEntry
    <3> QED BY <1>7, <2>1, <3>1, <3>2, <3>4 DEF DiscEntry, EntryAgrees
  <2>3. CASE h = k
    <3>1. \A e \in Devs : handleMap'[e][h] = NoFile
      BY <1>1, <1>4, <2>1, <2>3 DEF EntryAgrees
    <3> QED BY <1>5, <2>3, <3>1 DEF HddEntry, DiscEntry, EntryAgrees
  <2> QED BY <2>2, <2>3
<1>10. StoredOnce'
  BY <1>2, <1>3, <1>6, OnceKept
<1>11. OwnersApart'
  BY <1>3, <1>5 DEF OwnersApart
<1>12. doomed' \subseteq Held'
  BY <1>2, <1>3, <1>5 DEF Held
<1> QED BY <1>4, <1>7, <1>8, <1>9, <1>10, <1>11, <1>12 DEF FilesInv

\* What a stop leaves in a slot: the dirent that was there, or the cached one of
\* the file that is open on it.
LEMMA StopFlushes ==
    ASSUME FilesInv, StopFiles, NEW s \in Slots
    PROVE  \/ disk'[s] = disk[s] /\ \A h \in FilesOpen : handleMap["hdd"][h].slot # s
           \/ \E h \in FilesOpen : handleMap["hdd"][h].slot = s /\ disk'[s] \in WrittenBack(handleMap["hdd"][h])
<1>1. disk'[s] \in FlushedAt(s) /\ CachedAt(s) = {h \in FilesOpen : handleMap["hdd"][h].slot = s}
  BY DEF StopFiles, FilesOpen, CachedAt
<1>2. CASE CachedAt(s) = {}
  BY <1>1, <1>2 DEF FlushedAt
<1>3. CASE CachedAt(s) # {}
  BY <1>1, <1>3 DEF FlushedAt
<1> QED BY <1>2, <1>3

LEMMA StopKeeps ==
    ASSUME FilesInv, Stop
    PROVE  FilesInv'
<1> USE HandlesApart
<1>1. /\ StopFiles /\ info' = ZeroInfo /\ doomed' = {} /\ host' = host /\ intact' = intact
      /\ owner' = [h \in Handles |-> NoPath]
      /\ handleMap' = [d \in Devs |-> [h \in AllHandles |-> NoFile]]
  BY DEF Stop, StopFiles
<1>2. ASSUME NEW s \in Slots
      PROVE  /\ disk'[s] \in Dirents \cup {NoDirent} /\ (disk'[s].live => disk'[s].path \in Paths)
             /\ intact /\ disk'[s].live => disk[s].live /\ disk'[s].path = disk[s].path
  <2>1. CASE disk'[s] = disk[s]
    BY <2>1, SlotsFlush
  <2>2. ASSUME NEW h \in FilesOpen, handleMap["hdd"][h].slot = s, disk'[s] \in WrittenBack(handleMap["hdd"][h])
        PROVE  /\ disk'[s] \in Dirents \cup {NoDirent} /\ (disk'[s].live => disk'[s].path \in Paths)
               /\ intact /\ disk'[s].live => disk[s].live /\ disk'[s].path = disk[s].path
    BY <2>2, WrittenBackFits
  <2> QED BY <1>1, <2>1, <2>2, StopFlushes
<1>3. disk' \in [Slots -> Dirents \cup {NoDirent}]
  <2>1. disk' = [s \in Slots |-> disk'[s]]
    BY <1>1 DEF StopFiles
  <2> QED BY <1>2, <2>1
<1>4. StoredOnce'
  BY <1>1, <1>2, OnceKept DEF FilesInv, Flushes
<1>5. ~Running' /\ NothingHeld'
  BY <1>1 DEF Running, Opened, NothingHeld
<1>6. handleMap' \in Maps
  BY <1>1 DEF Maps, Files
<1>7. ZeroInfo \in InfoBlocks
  BY SizesAssumption DEF ZeroInfo, InfoBlocks, Statuses
<1>8. TypeOK'
  BY <1>1, <1>3, <1>7 DEF TypeOK, FilesInv
<1>9. \A h \in Handles : HddEntry(h)' /\ DiscEntry(h)' /\ EntryAgrees(h)'
  BY <1>1, <1>5 DEF HddEntry, DiscEntry, EntryAgrees
<1>10. OwnersApart'
  BY <1>1 DEF OwnersApart
<1> QED BY <1>1, <1>4, <1>5, <1>6, <1>8, <1>9, <1>10 DEF FilesInv

\* The device objects of a worker that starts.
LEMMA DeviceMapTyped ==
    /\ DeviceMap \in Maps /\ DeviceMap["hdd"]["hdd"] # NoFile
    /\ \A d \in Devs, h \in Handles : DeviceMap[d][h] = NoFile
    /\ \A h \in AllHandles : /\ DeviceMap["hdd"][h] \in FatxFiles \cup {DeviceObject, NoFile}
                             /\ DeviceMap["cdrom"][h] \in DiscFiles \cup {DeviceObject, NoFile}
<1>1. \A d \in Devs, h \in Handles : h # d
  BY NamesApart DEF DevHandles
<1> QED BY <1>1, HandlesApart, EntriesDiffer DEF DeviceMap, Maps, Files

LEMMA StartsKeep ==
    ASSUME \A h \in Handles : owner[h] = NoPath, doomed = {}, disk \in [Slots -> Dirents \cup {NoDirent}], StoredOnce, intact \in BOOLEAN,
           host \in [Paths -> 0 .. MaxSize + 1], info = ZeroInfo, handleMap = DeviceMap, owner \in [Handles -> {NoPath}]
    PROVE  FilesInv
<1>1. Running /\ handleMap \in Maps
  BY DeviceMapTyped DEF Running, Opened
<1>2. ZeroInfo \in InfoBlocks
  BY SizesAssumption DEF ZeroInfo, InfoBlocks, Statuses
<1>3. TypeOK
  BY <1>2, DeviceMapTyped, MapsTyped DEF TypeOK
<1>4. \A h \in Handles : HddEntry(h) /\ DiscEntry(h) /\ EntryAgrees(h)
  BY DeviceMapTyped, HandlesApart DEF HddEntry, DiscEntry, EntryAgrees
<1>5. OwnersApart
  BY DEF OwnersApart
<1> QED BY <1>1, <1>3, <1>4, <1>5 DEF FilesInv

LEMMA FilesInvInit == Init => FilesInv
<1> SUFFICES ASSUME Init PROVE FilesInv
  OBVIOUS
<1>1. disk \in [Slots -> Dirents \cup {NoDirent}] /\ StoredOnce /\ intact \in BOOLEAN
  BY EntriesDiffer DEF Init, StoredOnce, NamesStored
<1>2. host \in [Paths -> 0 .. MaxSize + 1]
  BY SizesAssumption DEF Init, NoSize
<1> QED BY <1>1, <1>2, StartsKeep DEF Init

LEMMA StartKeeps == ASSUME FilesInv, Start PROVE FilesInv'
<1>1. NothingHeld /\ handleMap' = DeviceMap /\ UNCHANGED <<disk, host, intact, info, owner, doomed>>
  BY DEF FilesInv, Start, guestVars, stored
<1>2. /\ disk' \in [Slots -> Dirents \cup {NoDirent}] /\ StoredOnce' /\ host' \in [Paths -> 0 .. MaxSize + 1]
      /\ owner' \in [Handles -> {NoPath}] /\ intact' \in BOOLEAN
  BY <1>1 DEF FilesInv, TypeOK, StoredOnce, NamesStored, NothingHeld
<1>3. /\ info' = ZeroInfo /\ doomed' = {} /\ \A h \in Handles : owner'[h] = NoPath
  BY <1>1 DEF NothingHeld
<1>4. Running' /\ handleMap' \in Maps
  BY <1>1, DeviceMapTyped DEF Running, Opened
<1>5. ZeroInfo \in InfoBlocks
  BY SizesAssumption DEF ZeroInfo, InfoBlocks, Statuses
<1>6. TypeOK'
  BY <1>1, <1>2, <1>3, <1>4, <1>5, DeviceMapTyped, MapsTyped DEF TypeOK
<1>7. \A h \in Handles : HddEntry(h)' /\ DiscEntry(h)' /\ EntryAgrees(h)'
  BY <1>1, <1>3, DeviceMapTyped, HandlesApart DEF HddEntry, DiscEntry, EntryAgrees
<1>8. OwnersApart'
  BY <1>3 DEF OwnersApart
<1> QED BY <1>2, <1>3, <1>4, <1>6, <1>7, <1>8 DEF FilesInv

LEMMA RestKeeps ==
    ASSUME FilesInv, UNCHANGED <<disk, intact, handleMap, info, guestVars>>, host' \in [Paths -> 0 .. MaxSize + 1]
    PROVE  FilesInv'
<1>1. UNCHANGED <<disk, intact, handleMap, info, owner, doomed>>
  BY DEF guestVars
<1>2. TypeOK'
  BY <1>1 DEF FilesInv, TypeOK
<1>3. Running' = Running /\ Held' = Held
  BY <1>1 DEF Running, Opened, Held
<1>4. \A h \in Handles : HddEntry(h)' /\ DiscEntry(h)' /\ EntryAgrees(h)'
  BY <1>1, <1>3 DEF FilesInv, HddEntry, DiscEntry, EntryAgrees
<1> QED BY <1>1, <1>2, <1>3, <1>4 DEF FilesInv, StoredOnce, NamesStored, OwnersApart, NothingHeld

LEMMA ServeKeeps == ASSUME FilesInv, NEW r \in GuestRequests, Serve(r) PROVE FilesInv'
<1>1. Effects(r) /\ Running /\ host' \in [Paths -> 0 .. MaxSize + 1] /\ info' \in InfoBlocks
  BY ServeDoes DEF Answered, Serve
<1>2. CASE Nothing(r) \/ Overruns(r) \/ \E s, dirent : LeavesBehind(r, s, dirent)
  <2>1. CASE Nothing(r)
    BY <1>1, <2>1, SameDiskKept, RestsKeep DEF Nothing
  <2>2. CASE Overruns(r)
    BY <1>1, <2>2, RestsKeep DEF Overruns, DiskKept, StoredOnce
  <2>3. ASSUME NEW s, NEW dirent, LeavesBehind(r, s, dirent) PROVE FilesInv'
    BY <1>1, <2>3, MadeDiskKept, RestsKeep DEF LeavesBehind
  <2> QED BY <1>2, <2>1, <2>2, <2>3
<1>3. CASE Shuts(r)
  BY <1>1, <1>3, ShutsKeeps DEF Shuts
<1>4. ASSUME NEW file, BindsFound(r, file) PROVE FilesInv'
  BY <1>1, <1>4, BindsFoundKeeps DEF BindsFound, Binds
<1>5. ASSUME NEW file, BindsMade(r, file) PROVE FilesInv'
  BY <1>1, <1>5, BindsMadeKeeps DEF BindsMade, Binds
<1>6. ASSUME NEW file, BindsUnstored(r, file) PROVE FilesInv'
  BY <1>1, <1>6, BindsUnstoredKeeps DEF BindsUnstored, Binds
<1>7. ASSUME NEW dirent, Grows(r, dirent) \/ Deletes(r, dirent) PROVE FilesInv'
  BY <1>1, <1>7, RecachedKeeps DEF Grows, Deletes
<1> QED BY <1>1, <1>2, <1>3, <1>4, <1>5, <1>6, <1>7 DEF Effects

LEMMA FilesInvNext == FilesInv /\ [Next]_vars => FilesInv'
<1> SUFFICES ASSUME FilesInv, [Next]_vars PROVE FilesInv'
  OBVIOUS
<1>1. host \in [Paths -> 0 .. MaxSize + 1]
  BY DEF FilesInv, TypeOK
<1>2. ASSUME NEW r \in GuestRequests, Serve(r) PROVE FilesInv'
  BY <1>2, ServeKeeps
<1>3. CASE HostFileLost
  <2>1. host' \in [Paths -> 0 .. MaxSize + 1] /\ UNCHANGED <<disk, intact, handleMap, info, guestVars>>
    BY <1>1, <1>3, SizesAssumption DEF HostFileLost, NoSize
  <2> QED BY <2>1, RestKeeps
<1>4. CASE UNCHANGED vars
  BY <1>1, <1>4, RestKeeps DEF vars, fileVars, stored, guestVars
<1> QED BY <1>2, <1>3, <1>4, StopKeeps, StartKeeps DEF Next

\* The invariant holds in every reachable state.
THEOREM FilesInvariant == Spec => []FilesInv
BY FilesInvInit, FilesInvNext, PTL DEF Spec

-----------------------------------------------------------------------------
(***************************************************************************)
(* What it says of the handle map and of packets that fail                 *)
(***************************************************************************)

\* The handle map is sound for any files and packets, also when the guest opens
\* what it has open and uses handles it never got: an entry is a file of the
\* path the guest opened, on that path's device, and the slot its dirent will be
\* flushed to still holds that file (io.cpp, add_to_map; fatx.cpp,
\* flush_dirent_for_file).
THEOREM HandlesSound == Spec => []HandleMapSound
<1>1. FilesInv => HandleMapSound
  <2> SUFFICES ASSUME FilesInv PROVE HandleMapSound
    OBVIOUS
  <2>1. CachedDirentOwnsSlot
    BY FlushFits DEF CachedDirentOwnsSlot
  <2>2. HandlesAgree
    <3> SUFFICES ASSUME Running, NEW h \in Handles
                 PROVE  IF owner[h] = NoPath THEN \A d \in Devs : ~Opened(d, h)
                        ELSE Opened(DevOf(owner[h]), h) /\ handleMap[DevOf(owner[h])][h].path = owner[h]
      BY DEF HandlesAgree
    <3>1. EntryAgrees(h) /\ DevOf(owner[h]) \in Devs
      BY DEF FilesInv, DevOf, Devs
    <3> QED BY <3>1 DEF EntryAgrees, Opened
  <2> QED BY <2>1, <2>2 DEF HandleMapSound, FilesInv
<1> QED BY <1>1, FilesInvariant, PTL

\* A path has one handle.
LEMMA CachedOnce ==
    ASSUME FilesInv, NEW p \in Paths, NEW g \in Cached(p), NEW h \in Cached(p)
    PROVE  g = h
<1>1. g \in Handles /\ h \in Handles /\ Opened("hdd", g) /\ Opened("hdd", h)
      /\ handleMap["hdd"][g].path = p /\ handleMap["hdd"][h].path = p
  BY DEF Cached, FilesOpen
<1>2. owner[g] = p /\ owner[h] = p /\ p # NoPath
  BY <1>1, OpenedHeld, NamesApart DEF Devs
<1> QED BY <1>1, <1>2 DEF FilesInv, OwnersApart

\* The dirents of a path: the stored one, and the cached copy of the handle that
\* has it open.
DirentsOf(p) ==
    /\ \A s \in Find(p) : Stored(p) = disk[s]
    /\ Find(p) = {} => Stored(p) = NoDirent
    /\ \A h \in Cached(p) : Logical(p) = IF handleMap["hdd"][h].dirent.live THEN handleMap["hdd"][h].dirent ELSE NoDirent
    /\ Cached(p) = {} => Logical(p) = Stored(p)

LEMMA LogicalIs == FilesInv /\ intact => \A p \in Paths : DirentsOf(p)
<1> SUFFICES ASSUME FilesInv, intact, NEW p \in Paths PROVE DirentsOf(p)
  OBVIOUS
<1>1. ASSUME NEW s \in Find(p) PROVE Stored(p) = disk[s]
  <2>1. \A t \in Find(p) : t = s
    BY DEF FilesInv, StoredOnce, Find
  <2>2. s = CHOOSE t \in Find(p) : TRUE
    BY <2>1
  <2> QED BY <2>2 DEF Stored
<1>2. Find(p) = {} => Stored(p) = NoDirent
  BY DEF Stored
<1>3. ASSUME NEW h \in Cached(p)
      PROVE  Logical(p) = IF handleMap["hdd"][h].dirent.live THEN handleMap["hdd"][h].dirent ELSE NoDirent
  <2>1. h = CHOOSE g \in Cached(p) : TRUE
    BY CachedOnce
  <2> QED BY <2>1 DEF Logical
<1>4. Cached(p) = {} => Logical(p) = Stored(p)
  BY DEF Logical
<1> QED BY <1>1, <1>2, <1>3, <1>4 DEF DirentsOf

\* The same of the state after a step.
LEMMA LogicalIsNext == FilesInv' /\ intact' => \A p \in Paths : DirentsOf(p)'
<1>1. (FilesInv /\ intact => \A p \in Paths : DirentsOf(p))'
  BY LogicalIs, PTL
<1> QED BY <1>1

\* A path keeps what is stored when its slots keep it, and its dirent when its
\* entries stay too.
LEMMA StoredKept ==
    ASSUME FilesInv, FilesInv', intact, intact', NEW p \in Paths, Find(p)' = Find(p), \A s \in Find(p) : disk'[s] = disk[s]
    PROVE  Stored(p)' = Stored(p)
<1>1. CASE Find(p) = {}
  BY <1>1, LogicalIs, LogicalIsNext DEF DirentsOf
<1>2. ASSUME NEW s \in Find(p) PROVE Stored(p)' = Stored(p)
  BY <1>2, LogicalIs, LogicalIsNext DEF DirentsOf
<1> QED BY <1>1, <1>2

LEMMA LogicalKept ==
    ASSUME FilesInv, FilesInv', intact, intact', NEW p \in Paths, Cached(p)' = Cached(p), Find(p)' = Find(p),
           \A h \in Cached(p) : handleMap'["hdd"][h] = handleMap["hdd"][h],
           \A s \in Find(p) : disk'[s] = disk[s]
    PROVE  Logical(p)' = Logical(p) /\ Stored(p)' = Stored(p)
<1>1. Stored(p)' = Stored(p)
  BY StoredKept
<1>2. CASE Cached(p) = {}
  BY <1>1, <1>2, LogicalIs, LogicalIsNext DEF DirentsOf
<1>3. ASSUME NEW h \in Cached(p) PROVE Logical(p)' = Logical(p)
  BY <1>3, LogicalIs, LogicalIsNext DEF DirentsOf
<1> QED BY <1>1, <1>2, <1>3

\* Every path keeps its dirents when neither slots nor entries change.
LEMMA AllKept ==
    ASSUME UNCHANGED <<disk, handleMap>>, NEW p
    PROVE  /\ Logical(p)' = Logical(p) /\ Stored(p)' = Stored(p) /\ Find(p)' = Find(p)
           /\ Cached(p)' = Cached(p) /\ FilesOpen' = FilesOpen
BY DEF Logical, Stored, Cached, FilesOpen, Opened, Find

\* An open path is stored, in the slot its dirent goes back to.
LEMMA CachedStored ==
    ASSUME FilesInv, intact, NEW p \in Paths, NEW h \in Cached(p)
    PROVE  handleMap["hdd"][h].slot \in Find(p)
BY FlushFits DEF Cached, Find

\* A create that leaves its dirent behind touches no path that is stored or open.
LEMMA LeavesBehindLogical ==
    ASSUME FilesInv, FilesInv', intact, intact', NEW r, NEW s, NEW dirent, LeavesBehind(r, s, dirent), NEW p \in Paths
    PROVE  /\ FilesOpen' = FilesOpen /\ Cached(r.path) = {} /\ Find(r.path) = {}
           /\ Logical(p)' = IF p = r.path THEN dirent ELSE Logical(p)
           /\ Stored(p)' = IF p = r.path THEN dirent ELSE Stored(p)
<1>1. /\ handleMap' = handleMap /\ s \in Slots /\ ~disk[s].live /\ dirent.live /\ dirent.path = r.path
      /\ r.path \in Paths /\ Find(r.path) = {} /\ disk' = [disk EXCEPT ![s] = dirent]
      /\ disk \in [Slots -> Dirents \cup {NoDirent}]
  BY DEF LeavesBehind, Rests, FilesInv, TypeOK
<1>2. \A t \in Slots : disk'[t] = IF t = s THEN dirent ELSE disk[t]
  BY <1>1
<1>3. FilesOpen' = FilesOpen /\ Cached(p)' = Cached(p)
  BY <1>1 DEF Cached, FilesOpen, Opened
<1>4. Cached(r.path) = {}
  BY <1>1, CachedStored
<1>5. CASE p # r.path
  <2>1. Find(p)' = Find(p) /\ \A t \in Find(p) : disk'[t] = disk[t]
    BY <1>1, <1>2, <1>5 DEF Find
  <2> QED BY <1>1, <1>3, <1>4, <1>5, <2>1, LogicalKept
<1>6. CASE p = r.path
  <2>1. s \in Find(p)' /\ disk'[s] = dirent
    BY <1>1, <1>2, <1>6 DEF Find
  <2>2. Stored(p)' = dirent
    BY <2>1, LogicalIsNext DEF DirentsOf
  <2> QED BY <1>1, <1>3, <1>4, <1>6, <2>2, LogicalIsNext DEF DirentsOf
<1> QED BY <1>5, <1>6

\* What is promised was promised before.
LEMMA IntactStays == ASSUME FilesInv, [Next]_vars, intact' PROVE intact
<1>1. ASSUME NEW r \in GuestRequests, Serve(r) PROVE intact
  <2>1. Effects(r)
    BY <1>1, ServeDoes
  <2> QED BY <2>1 DEF Effects, Nothing, Overruns, Shuts, Close, LeavesBehind, BindsFound, BindsMade, BindsUnstored,
                    Grows, Deletes, Recached
<1> QED BY <1>1 DEF Next, Stop, Start, HostFileLost, vars, fileVars, stored

\* A packet that is not answered with success opens nothing and leaves every file
\* that is stored or open as it was, whichever of its steps failed (io.cpp, the
\* early returns of open_file and of the packets on a handle; fatx.cpp,
\* create_dirent_for_file, whose dirent stays when a later write fails).
THEOREM FailuresKeepFiles == Spec => FailureKeepsFiles
<1> DEFINE Keeps(p) == Find(p) # {} \/ Cached(p) # {} => Logical(p)' = Logical(p) /\ Stored(p)' = Stored(p)
<1>1. ASSUME FilesInv, FilesInv', [Next]_vars
      PROVE  [info'.status # "SUCCESS" /\ intact' => handleMap' = handleMap /\ \A p \in Paths : Keeps(p)]_vars
  <2>1. UNCHANGED <<disk, handleMap>> => handleMap' = handleMap /\ \A p \in Paths : Keeps(p)
    BY AllKept
  <2>2. ASSUME NEW r \in GuestRequests, Serve(r), info'.status # "SUCCESS", intact'
        PROVE  handleMap' = handleMap /\ \A p \in Paths : Keeps(p)
    <3>1. Nothing(r) \/ Overruns(r) \/ \E s, dirent : LeavesBehind(r, s, dirent)
      BY <1>1, <2>2, ServeDoes DEF Answered
    <3>2. CASE Nothing(r)
      BY <2>1, <3>2 DEF Nothing, Rests
    <3>3. ASSUME NEW s, NEW dirent, LeavesBehind(r, s, dirent)
          PROVE  handleMap' = handleMap /\ \A p \in Paths : Keeps(p)
      <4>1. handleMap' = handleMap
        BY <3>3 DEF LeavesBehind, Rests
      <4>2. intact
        BY <3>3, <2>2 DEF LeavesBehind
      <4>3. ASSUME NEW p \in Paths PROVE Keeps(p)
        BY <1>1, <2>2, <3>3, <4>2, LeavesBehindLogical
      <4> QED BY <4>1, <4>3
    <3> QED BY <2>2, <3>1, <3>2, <3>3 DEF Overruns
  <2>3. ASSUME Stop PROVE info'.status = "SUCCESS"
    BY <2>3 DEF Stop, ZeroInfo
  <2>4. ASSUME Start PROVE info'.status = "SUCCESS"
    BY <1>1, <2>4 DEF Start, FilesInv, NothingHeld, ZeroInfo
  <2>5. HostFileLost => UNCHANGED <<disk, handleMap>>
    BY DEF HostFileLost
  <2> HIDE DEF Keeps
  <2> QED BY <1>1, <2>1, <2>2, <2>3, <2>4, <2>5 DEF Next
<1> QED BY <1>1, FilesInvariant, PTL DEF Spec, FailureKeepsFiles

-----------------------------------------------------------------------------
(***************************************************************************)
(* What each effect does to the dirent of a path                           *)
(***************************************************************************)

\* A dirent that is reported is a dirent, and so is a stored one.
LEMMA LogicalTyped ==
    ASSUME FilesInv, intact, NEW p \in Paths
    PROVE  Logical(p) \in Dirents \cup {NoDirent} /\ Stored(p) \in Dirents \cup {NoDirent}
<1>1. Stored(p) \in Dirents \cup {NoDirent}
  <2>1. ASSUME NEW s \in Find(p) PROVE Stored(p) \in Dirents
    BY LogicalIs, FoundTyped DEF DirentsOf
  <2> QED BY <2>1, LogicalIs DEF DirentsOf
<1>2. ASSUME NEW h \in Cached(p) PROVE Logical(p) \in Dirents \cup {NoDirent}
  <2>1. h \in Handles /\ Opened("hdd", h)
    BY DEF Cached, FilesOpen
  <2>2. handleMap["hdd"][h].dirent \in Dirents
    BY <2>1, OpenedHeld DEF Devs, FatxFiles
  <2> QED BY <2>2, LogicalIs DEF DirentsOf
<1> QED BY <1>1, <1>2, LogicalIs DEF DirentsOf

\* The files that are open on the partition after an open that succeeds.
LEMMA BindsFiles ==
    ASSUME FilesInv, Running, NEW r \in GuestOpens, NEW file, Binds(r, file)
    PROVE  /\ \A h \in FilesOpen : handleMap'["hdd"][h] = handleMap["hdd"][h]
           /\ \/ /\ FilesOpen' = FilesOpen
                 /\ r.dev = "hdd" /\ r.path \in Paths => r.handle \in Cached(r.path)
              \/ /\ r.dev = "hdd" /\ r.path \in Paths /\ Cached(r.path) = {}
                 /\ r.handle \notin FilesOpen /\ FilesOpen' = FilesOpen \cup {r.handle}
                 /\ handleMap'["hdd"][r.handle] = file
<1> USE HandlesApart
<1> DEFINE k == r.handle
<1>1. /\ r.dev \in Devs /\ k \in Handles
      /\ \/ UNCHANGED <<handleMap, owner>> /\ owner[k] = r.path /\ Opened(r.dev, k)
         \/ /\ owner[k] = NoPath /\ Holders(r.path) = {} /\ \A d \in Devs : handleMap[d][k] = NoFile
            /\ handleMap'[r.dev][k] = file /\ owner'[k] = r.path
      /\ \A d \in Devs, h \in AllHandles : d # r.dev \/ h # k => handleMap'[d][h] = handleMap[d][h]
  BY BindsEntries
<1>2. file # NoFile /\ file.path = r.path
  BY DEF Binds
<1>3. CASE UNCHANGED <<handleMap, owner>> /\ owner[k] = r.path /\ Opened(r.dev, k)
  <2>1. FilesOpen' = FilesOpen
    BY <1>3 DEF FilesOpen, Opened
  <2>2. r.dev = "hdd" /\ r.path \in Paths => k \in Cached(r.path)
    BY <1>1, <1>3, OpenedHeld, NamesApart DEF Cached, FilesOpen
  <2> QED BY <1>3, <2>1, <2>2
<1>4. CASE /\ owner[k] = NoPath /\ Holders(r.path) = {} /\ \A d \in Devs : handleMap[d][k] = NoFile
           /\ handleMap'[r.dev][k] = file /\ owner'[k] = r.path
  <2>1. k \notin FilesOpen
    BY <1>4 DEF FilesOpen, Opened
  <2>2. \A h \in FilesOpen : handleMap'["hdd"][h] = handleMap["hdd"][h]
    BY <1>1, <2>1 DEF FilesOpen
  <2>3. CASE r.dev = "hdd" /\ r.path # Root
    <3>1. r.path \in Paths
      BY <2>3, OpensTyped DEF DevOf
    <3>2. Cached(r.path) = {}
      <4>1. ASSUME NEW h \in Cached(r.path) PROVE h \in Holders(r.path)
        BY OpenedHeld DEF Cached, FilesOpen, Holders
      <4> QED BY <1>4, <4>1
    <3>3. FilesOpen' = FilesOpen \cup {k}
      BY <1>1, <1>2, <1>4, <2>3 DEF FilesOpen, Opened
    <3> QED BY <1>4, <2>1, <2>2, <2>3, <3>1, <3>2, <3>3
  <2>4. CASE ~(r.dev = "hdd" /\ r.path # Root)
    <3>1. FilesOpen' = FilesOpen
      <4>1. CASE r.dev = "hdd"
        BY <1>1, <1>2, <1>4, <2>4, <4>1 DEF FilesOpen, Opened
      <4>2. CASE r.dev # "hdd"
        BY <1>1, <4>2 DEF FilesOpen, Opened
      <4> QED BY <4>1, <4>2
    <3> QED BY <2>2, <2>4, <3>1, NamesApart
  <2> QED BY <2>3, <2>4
<1> QED BY <1>1, <1>3, <1>4

\* An open of a path that has its dirent leaves every path the one it had.
LEMMA BindsFoundLogical ==
    ASSUME FilesInv, FilesInv', intact, intact', Running, NEW r \in GuestOpens, NEW file, BindsFound(r, file),
           NEW p \in Paths
    PROVE  Logical(p)' = Logical(p) /\ Stored(p)' = Stored(p)
<1>1. Binds(r, file) /\ disk' = disk /\ \A s \in Find(p) : disk'[s] = disk[s]
  BY DEF BindsFound
<1>2. Find(p)' = Find(p)
  BY <1>1 DEF Find
<1>3. \A h \in FilesOpen : handleMap'["hdd"][h] = handleMap["hdd"][h]
  BY <1>1, BindsFiles
<1>4. CASE FilesOpen' = FilesOpen
  <2>1. Cached(p)' = Cached(p) /\ \A h \in Cached(p) : handleMap'["hdd"][h] = handleMap["hdd"][h]
    BY <1>3, <1>4 DEF Cached
  <2> QED BY <1>1, <1>2, <2>1, LogicalKept
<1>5. CASE /\ r.dev = "hdd" /\ r.path \in Paths /\ Cached(r.path) = {}
           /\ r.handle \notin FilesOpen /\ FilesOpen' = FilesOpen \cup {r.handle}
           /\ handleMap'["hdd"][r.handle] = file
  <2>1. file.path = r.path /\ file.dirent.live /\ r.path # Root
    BY <1>1, <1>5, NamesApart DEF Binds, FreshFile
  <2>2. CASE p # r.path
    <3>1. Cached(p)' = Cached(p) /\ \A h \in Cached(p) : handleMap'["hdd"][h] = handleMap["hdd"][h]
      BY <1>3, <1>5, <2>1, <2>2 DEF Cached
    <3> QED BY <1>1, <1>2, <3>1, LogicalKept
  <2>3. CASE p = r.path
    <3>1. file.slot \in Find(p) /\ file.dirent = disk[file.slot]
      BY <1>5, <2>1, <2>3 DEF BindsFound
    <3>2. Logical(p) = file.dirent
      BY <1>5, <2>3, <3>1, LogicalIs DEF DirentsOf
    <3>3. r.handle \in Cached(p)'
      BY <1>5, <2>1, <2>3 DEF Cached
    <3>4. Logical(p)' = file.dirent
      BY <1>5, <2>1, <3>3, LogicalIsNext DEF DirentsOf
    <3>5. Stored(p)' = Stored(p)
      BY <1>1, <1>2, StoredKept
    <3> QED BY <3>2, <3>4, <3>5
  <2> QED BY <2>2, <2>3
<1> QED BY <1>1, <1>4, <1>5, BindsFiles

\* An open that makes or overwrites a dirent gives it to its path, unless the
\* path is open already: then the cached copy still stands for it.
LEMMA BindsMadeLogical ==
    ASSUME FilesInv, FilesInv', intact, intact', Running, NEW r \in GuestOpens, NEW file, BindsMade(r, file),
           NEW p \in Paths
    PROVE  /\ Logical(p)' = IF p = r.path /\ r.handle \notin FilesOpen THEN file.dirent ELSE Logical(p)
           /\ Stored(p)' = IF p = r.path THEN file.dirent ELSE Stored(p)
<1>1. /\ Binds(r, file) /\ r.dev = "hdd" /\ r.path \in Paths /\ r.path # Root
      /\ disk' = [disk EXCEPT ![file.slot] = file.dirent]
      /\ file.slot \in Find(r.path) \/ (Find(r.path) = {} /\ ~disk[file.slot].live)
  BY NamesApart DEF BindsMade
<1>2. /\ file.path = r.path /\ file.dirent.live /\ file.dirent.path = r.path /\ file.slot \in Slots
      /\ disk \in [Slots -> Dirents \cup {NoDirent}]
  BY <1>1 DEF Binds, FreshFile, FilesInv, TypeOK
<1>3. \A s \in Slots : disk'[s] = IF s = file.slot THEN file.dirent ELSE disk[s]
  BY <1>1, <1>2
<1>4. p # r.path => Find(p)' = Find(p) /\ \A s \in Find(p) : disk'[s] = disk[s]
  BY <1>1, <1>2, <1>3 DEF Find
<1>5. \A h \in FilesOpen : handleMap'["hdd"][h] = handleMap["hdd"][h]
  BY <1>1, BindsFiles
<1>6. Stored(r.path)' = file.dirent
  <2>1. file.slot \in Find(r.path)' /\ disk'[file.slot] = file.dirent
    BY <1>2, <1>3 DEF Find
  <2> QED BY <1>1, <2>1, LogicalIsNext DEF DirentsOf
<1>7. CASE FilesOpen' = FilesOpen /\ r.handle \in Cached(r.path)
  <2>1. Cached(p)' = Cached(p) /\ \A h \in Cached(p) : handleMap'["hdd"][h] = handleMap["hdd"][h]
    BY <1>5, <1>7 DEF Cached
  <2>2. r.handle \in FilesOpen
    BY <1>7 DEF Cached
  <2>3. CASE p # r.path
    BY <1>4, <2>1, <2>3, LogicalKept
  <2>4. CASE p = r.path
    BY <1>6, <1>7, <2>1, <2>2, <2>4, LogicalIs, LogicalIsNext DEF DirentsOf
  <2> QED BY <2>3, <2>4
<1>8. CASE /\ Cached(r.path) = {}
           /\ r.handle \notin FilesOpen /\ FilesOpen' = FilesOpen \cup {r.handle}
           /\ handleMap'["hdd"][r.handle] = file
  <2>1. CASE p # r.path
    <3>1. Cached(p)' = Cached(p) /\ \A h \in Cached(p) : handleMap'["hdd"][h] = handleMap["hdd"][h]
      BY <1>2, <1>5, <1>8, <2>1 DEF Cached
    <3> QED BY <1>4, <2>1, <3>1, LogicalKept
  <2>2. CASE p = r.path
    <3>1. r.handle \in Cached(p)'
      BY <1>2, <1>8, <2>2 DEF Cached
    <3> QED BY <1>2, <1>6, <1>8, <2>2, <3>1, LogicalIsNext DEF DirentsOf
  <2> QED BY <2>1, <2>2
<1> QED BY <1>1, <1>7, <1>8, BindsFiles

\* A packet on an open file gives its path the new dirent, and no other path.
LEMMA RecachedLogical ==
    ASSUME FilesInv, FilesInv', intact, intact', NEW r, NEW dirent, Recached(r, dirent), NEW p \in Paths
    PROVE  /\ r.handle \in FilesOpen /\ handleMap["hdd"][r.handle].path = owner[r.handle]
           /\ FilesOpen' = FilesOpen
           /\ \A h \in FilesOpen : handleMap'["hdd"][h].path = handleMap["hdd"][h].path
           /\ Logical(p)' = IF p # owner[r.handle] THEN Logical(p) ELSE IF dirent.live THEN dirent ELSE NoDirent
           /\ Stored(p)' = Stored(p)
<1> USE HandlesApart
<1> DEFINE k == r.handle
<1>1. /\ k \in Handles /\ handleMap'["hdd"][k] = [handleMap["hdd"][k] EXCEPT !.dirent = dirent]
      /\ handleMap'["hdd"][k] \in FatxFiles
      /\ \A d \in Devs, h \in AllHandles : d # "hdd" \/ h # k => handleMap'[d][h] = handleMap[d][h]
  BY RecachedEntries
<1>2. /\ handleMap["hdd"][k] \in FatxFiles /\ owner[k] \in Paths /\ UNCHANGED <<disk, intact, owner>>
  BY DEF Recached
<1>3. handleMap["hdd"][k] # NoFile /\ handleMap'["hdd"][k] # NoFile
  BY <1>1, <1>2, EntriesDiffer
<1>4. handleMap["hdd"][k].path = owner[k] /\ owner[k] # Root
  BY <1>1, <1>2, <1>3, OpenedHeld, NamesApart DEF Opened
<1>5. handleMap'["hdd"][k].path = owner[k] /\ handleMap'["hdd"][k].dirent = dirent
  BY <1>1, <1>2, <1>4 DEF FatxFiles
<1>6. \A h \in Handles : /\ handleMap'["hdd"][h] = NoFile <=> handleMap["hdd"][h] = NoFile
                         /\ handleMap'["hdd"][h].path = handleMap["hdd"][h].path
  BY <1>1, <1>3, <1>4, <1>5
<1>7. FilesOpen' = FilesOpen /\ k \in FilesOpen
  BY <1>1, <1>3, <1>4, <1>6 DEF FilesOpen, Opened
<1>8. Cached(p)' = Cached(p) /\ Find(p)' = Find(p)
  BY <1>2, <1>6, <1>7 DEF Cached, FilesOpen, Find
<1>11. Stored(p)' = Stored(p)
  BY <1>2, <1>8, StoredKept
<1>9. CASE p # owner[k]
  <2>1. \A h \in Cached(p) : handleMap'["hdd"][h] = handleMap["hdd"][h]
    BY <1>1, <1>4, <1>9 DEF Cached, FilesOpen
  <2>2. Logical(p)' = Logical(p)
    BY <1>2, <1>8, <2>1, LogicalKept
  <2> QED BY <1>4, <1>6, <1>7, <1>9, <1>11, <2>2 DEF FilesOpen
<1>10. CASE p = owner[k]
  <2>1. k \in Cached(p)'
    BY <1>4, <1>7, <1>8, <1>10 DEF Cached
  <2> QED BY <1>4, <1>5, <1>6, <1>7, <1>10, <1>11, <2>1, LogicalIsNext DEF FilesOpen, DirentsOf
<1> QED BY <1>9, <1>10

\* A flush leaves a path that it shuts the dirent that was cached for it or, when
\* the write fails, the one that is stored; the other paths keep theirs.  Slot by
\* slot, the cached copies of some open files are written back.
FlushLeaves(p, Shut) ==
    IF Cached(p) \cap Shut = {} THEN Logical(p)' = Logical(p) /\ Stored(p)' = Stored(p)
    ELSE /\ Cached(p)' = {} /\ Stored(p)' = Logical(p)'
         /\ Logical(p)' = Logical(p) \/ (HostFaults /\ Logical(p)' = Stored(p))

LEMMA FlushLogical ==
    ASSUME FilesInv, FilesInv', intact, intact', NEW Shut \in SUBSET FilesOpen, FilesOpen' = FilesOpen \ Shut,
           \A h \in FilesOpen \ Shut : handleMap'["hdd"][h] = handleMap["hdd"][h],
           \A s \in Slots :
               \/ disk'[s] = disk[s] /\ \A h \in Shut : handleMap["hdd"][h].slot # s
               \/ \E h \in Shut : handleMap["hdd"][h].slot = s /\ disk'[s] \in WrittenBack(handleMap["hdd"][h]),
           NEW p \in Paths
    PROVE  FlushLeaves(p, Shut)
<1>1. ASSUME NEW h \in Shut
      PROVE  LET file == handleMap["hdd"][h] IN
             /\ disk'[file.slot] = Flushed(file) \/ (HostFaults /\ disk'[file.slot] = disk[file.slot])
             /\ file.slot \in Slots /\ disk[file.slot].live /\ disk[file.slot].path = file.path
  <2> DEFINE file == handleMap["hdd"][h]
  <2>1. file.slot \in Slots /\ disk[file.slot].live /\ disk[file.slot].path = file.path
    BY FlushFits
  <2>2. disk'[file.slot] \in WrittenBack(file)
    BY <2>1, SlotsApart
  <2> HIDE DEF file
  <2> QED BY <2>1, <2>2 DEF WrittenBack, file
<1>2. Cached(p)' = Cached(p) \ Shut
  BY DEF Cached
<1>3. \A s \in Slots : disk'[s].live => disk[s].live /\ disk'[s].path = disk[s].path
  <2> TAKE s \in Slots
  <2>1. ASSUME NEW h \in Shut, handleMap["hdd"][h].slot = s PROVE disk'[s].live => disk[s].live /\ disk'[s].path = disk[s].path
    BY <1>1, <2>1, FlushFits
  <2> QED BY <2>1
<1>4. CASE Cached(p) \cap Shut = {}
  <2>1. \A s \in Find(p) : disk'[s] = disk[s]
    BY <1>1, <1>4 DEF Find, Cached
  <2>2. Find(p)' = Find(p)
    BY <1>3, <2>1 DEF Find
  <2>3. Cached(p)' = Cached(p) /\ \A h \in Cached(p) : handleMap'["hdd"][h] = handleMap["hdd"][h]
    BY <1>2, <1>4 DEF Cached
  <2> QED BY <1>4, <2>1, <2>2, <2>3, LogicalKept DEF FlushLeaves
<1>5. ASSUME NEW h \in Cached(p), h \in Shut PROVE FlushLeaves(p, Shut)
  <2> DEFINE file == handleMap["hdd"][h]
  <2>1. Cached(p)' = {}
    BY <1>2, <1>5, CachedOnce
  <2>2. /\ disk'[file.slot] = Flushed(file) \/ (HostFaults /\ disk'[file.slot] = disk[file.slot])
        /\ file.slot \in Slots /\ disk[file.slot].live /\ disk[file.slot].path = file.path /\ file.path = p
    BY <1>1, <1>5 DEF Cached
  <2>3. /\ Flushed(file).live = file.dirent.live
        /\ Flushed(file).live => Flushed(file) = file.dirent /\ Flushed(file).path = file.path
    BY <1>5, FlushFits
  <2>4. \A s \in Slots : s # file.slot => ~(disk'[s].live /\ disk'[s].path = p)
    BY <1>3, <2>2 DEF FilesInv, StoredOnce
  <2>5. Logical(p) = (IF file.dirent.live THEN file.dirent ELSE NoDirent) /\ Stored(p) = disk[file.slot]
    BY <2>2, LogicalIs DEF DirentsOf, Find
  <2>6. Logical(p)' = Stored(p)'
    BY <2>1, LogicalIsNext DEF DirentsOf
  <2>7. CASE disk'[file.slot] = Flushed(file) /\ file.dirent.live
    <3>1. file.slot \in Find(p)' /\ disk'[file.slot] = file.dirent
      BY <2>2, <2>3, <2>7 DEF Find
    <3>2. Stored(p)' = Logical(p)
      BY <2>5, <2>7, <3>1, LogicalIsNext DEF DirentsOf
    <3> QED BY <1>5, <2>1, <2>6, <3>2 DEF FlushLeaves
  <2>8. CASE disk'[file.slot] = Flushed(file) /\ ~file.dirent.live
    <3>1. Find(p)' = {}
      BY <2>2, <2>3, <2>4, <2>8 DEF Find
    <3>2. Stored(p)' = Logical(p)
      BY <2>5, <2>8, <3>1, LogicalIsNext DEF DirentsOf
    <3> QED BY <1>5, <2>1, <2>6, <3>2 DEF FlushLeaves
  <2>9. CASE HostFaults /\ disk'[file.slot] = disk[file.slot]
    <3>1. file.slot \in Find(p)'
      BY <2>2, <2>9 DEF Find
    <3>2. Stored(p)' = Stored(p)
      BY <2>5, <2>9, <3>1, LogicalIsNext DEF DirentsOf
    <3> QED BY <1>5, <2>1, <2>6, <2>9, <3>2 DEF FlushLeaves
  <2> QED BY <2>2, <2>7, <2>8, <2>9
<1> QED BY <1>4, <1>5

LEMMA ShutsLogical ==
    ASSUME FilesInv, FilesInv', intact, intact', NEW r, Shuts(r)
    PROVE  /\ \A p \in Paths : FlushLeaves(p, {r.handle} \cap FilesOpen)
           /\ FilesOpen' = FilesOpen \ {r.handle} /\ r.handle \in Handles
           /\ \A h \in FilesOpen \ {r.handle} : handleMap'["hdd"][h] = handleMap["hdd"][h]
<1> USE HandlesApart
<1> DEFINE d == r.dev  k == r.handle  file == handleMap[d][k]
<1>1. k \in Handles /\ k \in AllHandles /\ d = DevOf(owner[k]) /\ d \in Devs
  BY ClosesTyped DEF Shuts, Held, DevOf, Devs
<1>2. /\ handleMap' = [handleMap EXCEPT ![d][k] = NoFile] /\ handleMap \in Maps
      /\ IF d = "hdd" /\ file.path # Root
         THEN \E dirent \in WrittenBack(file) : disk' = [disk EXCEPT ![file.slot] = dirent] ELSE disk' = disk
      /\ Opened(d, k) /\ disk \in [Slots -> Dirents \cup {NoDirent}] /\ EntryAgrees(k)
  BY <1>1 DEF Shuts, Close, FilesInv, TypeOK
<1>3. /\ handleMap'[d][k] = NoFile
      /\ \A e \in Devs, h \in AllHandles : e # d \/ h # k => handleMap'[e][h] = handleMap[e][h]
  BY <1>1, <1>2 DEF Maps
<1>4. \A e \in Devs : handleMap'[e][k] = NoFile
  BY <1>1, <1>2, <1>3 DEF EntryAgrees
<1>5. /\ FilesOpen' = FilesOpen \ {k}
      /\ \A h \in FilesOpen \ {k} : handleMap'["hdd"][h] = handleMap["hdd"][h]
  <2>1. \A h \in Handles : h # k => handleMap'["hdd"][h] = handleMap["hdd"][h]
    BY <1>3
  <2>2. handleMap'["hdd"][k] = NoFile
    BY <1>4
  <2> QED BY <2>1, <2>2 DEF FilesOpen, Opened
<1> DEFINE shut == {k} \cap FilesOpen
<1>6. shut \in SUBSET FilesOpen /\ FilesOpen' = FilesOpen \ shut
      /\ \A h \in FilesOpen \ shut : handleMap'["hdd"][h] = handleMap["hdd"][h]
  BY <1>5
<1>7. \A s \in Slots :
          \/ disk'[s] = disk[s] /\ \A h \in shut : handleMap["hdd"][h].slot # s
          \/ \E h \in shut : handleMap["hdd"][h].slot = s /\ disk'[s] \in WrittenBack(handleMap["hdd"][h])
  <2>1. CASE d = "hdd" /\ file.path # Root
    <3>1. k \in shut
      BY <1>1, <1>2, <2>1 DEF FilesOpen
    <3>2. PICK dirent \in WrittenBack(file) : disk' = [disk EXCEPT ![file.slot] = dirent]
      BY <1>2, <2>1
    <3>3. \A s \in Slots : disk'[s] = IF s = file.slot THEN dirent ELSE disk[s]
      BY <1>2, <3>2
    <3> QED BY <2>1, <3>1, <3>2, <3>3
  <2>2. CASE ~(d = "hdd" /\ file.path # Root)
    <3>1. disk' = disk
      BY <1>2, <2>2
    <3>2. k \notin FilesOpen
      BY <1>1, <1>2, <2>2 DEF FilesOpen, Opened, EntryAgrees
    <3> QED BY <3>1, <3>2
  <2> QED BY <2>1, <2>2
<1> HIDE DEF shut
<1>8. \A p \in Paths : FlushLeaves(p, shut)
  BY <1>6, <1>7, FlushLogical
<1> QED BY <1>1, <1>5, <1>8 DEF shut

LEMMA StopLogical ==
    ASSUME FilesInv, FilesInv', intact, intact', Stop
    PROVE  FilesOpen' = {} /\ \A p \in Paths : FlushLeaves(p, FilesOpen)
<1>1. StopFiles /\ handleMap' = [d \in Devs |-> [h \in AllHandles |-> NoFile]]
  BY DEF Stop, StopFiles
<1>2. FilesOpen' = {}
  BY <1>1, HandlesApart DEF FilesOpen, Opened
<1>3. FilesOpen \in SUBSET FilesOpen /\ FilesOpen' = FilesOpen \ FilesOpen
  BY <1>2
<1>4. \A s \in Slots :
          \/ disk'[s] = disk[s] /\ \A h \in FilesOpen : handleMap["hdd"][h].slot # s
          \/ \E h \in FilesOpen : handleMap["hdd"][h].slot = s /\ disk'[s] \in WrittenBack(handleMap["hdd"][h])
  BY <1>1, StopFlushes
<1> QED BY <1>2, <1>3, <1>4, FlushLogical

-----------------------------------------------------------------------------
(***************************************************************************)
(* The handlers implement the file store                                   *)
(***************************************************************************)

\* The store's files and handles, as the refinement mapping of Store reads them.
metaBar == [p \in Paths |-> MetaOf(Logical(p))]
keptBar == [p \in Paths |-> MetaOf(Stored(p))]
openBar == [h \in Handles |-> IF h \in FilesOpen THEN handleMap["hdd"][h].path ELSE NoPath]
storeVars == <<metaBar, keptBar, openBar, intact>>

\* The files of the store follow the dirents of the paths.
LEMMA MetaFollows ==
    ASSUME \A p \in Paths : Logical(p)' = Logical(p) /\ Stored(p)' = Stored(p)
    PROVE  metaBar' = metaBar /\ keptBar' = keptBar
BY DEF metaBar, keptBar, MetaOf, AbsentMeta

\* The handles of the store follow the open files.
LEMMA OpenFollows ==
    ASSUME FilesOpen' = FilesOpen, \A h \in FilesOpen : handleMap'["hdd"][h].path = handleMap["hdd"][h].path
    PROVE  openBar' = openBar
BY DEF openBar

\* A dirent that is there is a file of the store.
LEMMA MetaIs ==
    ASSUME NEW dirent \in Dirents \cup {NoDirent}
    PROVE  /\ dirent.live => /\ MetaOf(dirent) # AbsentMeta /\ MetaOf(dirent) \in Store!Meta
                             /\ MetaOf(dirent) = [attrs |-> dirent.attrs, size |-> dirent.size]
           /\ ~dirent.live => MetaOf(dirent) = AbsentMeta
<1>1. ASSUME dirent.live
      PROVE  /\ MetaOf(dirent) # AbsentMeta /\ MetaOf(dirent) \in Store!Meta
             /\ MetaOf(dirent) = [attrs |-> dirent.attrs, size |-> dirent.size]
  <2>1. dirent.attrs \in SUBSET {"dir", "ro"} /\ dirent.size \in 0 .. MaxSize
    BY <1>1, EntriesDiffer DEF Dirents
  <2>2. MetaOf(dirent) = [attrs |-> dirent.attrs, size |-> dirent.size]
    BY <1>1 DEF MetaOf
  <2>3. MetaOf(dirent).size = dirent.size
    BY <2>2
  <2>4. MetaOf(dirent) \in Store!Meta
    BY <2>1, <2>2 DEF Store!Meta
  <2>5. AbsentMeta.size = MaxSize + 1
    BY DEF AbsentMeta, NoSize
  <2> QED BY <2>1, <2>2, <2>3, <2>4, <2>5, SizesAssumption
<1> QED BY <1>1 DEF MetaOf

\* The file of one path changes, as it is seen and as it is stored.
LEMMA MetaChanges ==
    ASSUME NEW p \in Paths, NEW d, \A q \in Paths : Logical(q)' = IF q = p THEN d ELSE Logical(q)
    PROVE  metaBar' = [metaBar EXCEPT ![p] = MetaOf(d)]
BY DEF metaBar, MetaOf, AbsentMeta, NoSize

LEMMA KeptChanges ==
    ASSUME NEW p \in Paths, NEW d, \A q \in Paths : Stored(q)' = IF q = p THEN d ELSE Stored(q)
    PROVE  keptBar' = [keptBar EXCEPT ![p] = MetaOf(d)]
BY DEF keptBar, MetaOf, AbsentMeta, NoSize

LEMMA MetaStays ==
    ASSUME \A q \in Paths : Logical(q)' = Logical(q)
    PROVE  metaBar' = metaBar
BY DEF metaBar, MetaOf, AbsentMeta, NoSize

LEMMA KeptStays ==
    ASSUME \A q \in Paths : Stored(q)' = Stored(q)
    PROVE  keptBar' = keptBar
BY DEF keptBar, MetaOf, AbsentMeta, NoSize

\* A handle of the store is bound to a path, and no other.
LEMMA OpenChanges ==
    ASSUME NEW k \in Handles, k \notin FilesOpen, FilesOpen' = FilesOpen \cup {k},
           \A h \in FilesOpen : handleMap'["hdd"][h] = handleMap["hdd"][h]
    PROVE  openBar[k] = NoPath /\ openBar' = [openBar EXCEPT ![k] = handleMap'["hdd"][k].path]
BY DEF openBar

\* A path that has no cached dirent is open in no handle of the store.
LEMMA NotOpenBar == ASSUME NEW p \in Paths, Cached(p) = {} PROVE \A h \in Handles : openBar[h] # p
BY NamesApart DEF openBar, Cached, FilesOpen

LEMMA StoreInit == ASSUME Init PROVE Store!Init
<1>1. FilesInv /\ intact
  BY FilesInvInit DEF Init
<1>2. FilesOpen = {}
  BY DeviceMapTyped, HandlesApart DEF Init, FilesOpen, Opened
<1>3. \A p \in Paths : Logical(p) = NoDirent /\ Stored(p) = NoDirent
  <2>1. \A p \in Paths : Cached(p) = {} /\ Find(p) = {}
    BY <1>2, EntriesDiffer DEF Cached, Find, Init
  <2> QED BY <1>1, <2>1, LogicalIs DEF DirentsOf
<1>4. metaBar = [p \in Paths |-> AbsentMeta] /\ keptBar = metaBar
  BY <1>3, EntriesDiffer DEF metaBar, keptBar, MetaOf
<1>5. openBar = [h \in Handles |-> NoPath]
  BY <1>2 DEF openBar
<1>6. intact = TRUE
  BY DEF Init
<1> QED BY <1>4, <1>5, <1>6 DEF Store!Init, metaBar, keptBar, openBar

\* The steps of the store, with the mapping's names for its variables.
AfterBar(p) == {metaBar[p]} \cup IF HostFaults THEN {keptBar[p]} ELSE {}

LEMMA StoreSteps ==
    /\ \A h \in Handles, p \in Paths :
           /\ openBar[h] = NoPath /\ openBar' = [openBar EXCEPT ![h] = p] /\ \A g \in Handles : openBar[g] # p
           /\ \/ metaBar[p] # AbsentMeta /\ metaBar' = metaBar /\ keptBar' = keptBar
              \/ \E m \in Store!Meta : metaBar' = [metaBar EXCEPT ![p] = m] /\ keptBar' = [keptBar EXCEPT ![p] = m]
           => Store!OpenFile(h, p)
    /\ \A h \in Handles :
           /\ Sharing /\ openBar[h] # NoPath /\ metaBar' = metaBar /\ openBar' = openBar
           /\ \E m \in Store!Meta : keptBar' = [keptBar EXCEPT ![openBar[h]] = m]
           => Store!OpenAgain(h)
    /\ \A h \in Handles :
           /\ openBar[h] # NoPath /\ metaBar' = [metaBar EXCEPT ![openBar[h]] = AbsentMeta]
           /\ openBar' = openBar /\ keptBar' = keptBar
           => Store!RemoveName(h)
    /\ \A h \in Handles :
           /\ openBar[h] # NoPath /\ openBar' = [openBar EXCEPT ![h] = NoPath]
           /\ \E m \in AfterBar(openBar[h]) : /\ metaBar' = [metaBar EXCEPT ![openBar[h]] = m]
                                            /\ keptBar' = [keptBar EXCEPT ![openBar[h]] = m]
           => Store!CloseFile(h)
    /\ /\ openBar' = [h \in Handles |-> NoPath] /\ \A p \in Paths : metaBar'[p] \in AfterBar(p)
       /\ metaBar' = [p \in Paths |-> metaBar'[p]] /\ keptBar' = metaBar'
       => Store!CloseAll
    /\ \A p \in Paths :
           /\ HostFaults /\ keptBar[p] = AbsentMeta /\ openBar' = openBar /\ \A g \in Handles : openBar[g] # p
           /\ \E m \in Store!Meta : metaBar' = [metaBar EXCEPT ![p] = m] /\ keptBar' = [keptBar EXCEPT ![p] = m]
           => Store!LeaveBehind(p)
BY Zenon DEF Store!OpenFile, Store!OpenAgain, Store!RemoveName, Store!CloseFile, Store!CloseAll,
             Store!LeaveBehind, Store!IsOpen, Store!After, AfterBar, metaBar, keptBar, openBar

LEMMA GrowStep ==
    ASSUME NEW h \in Handles, openBar[h] # NoPath, metaBar[openBar[h]] # AbsentMeta, openBar' = openBar, keptBar' = keptBar,
           NEW size \in metaBar[openBar[h]].size .. MaxSize, metaBar' = [metaBar EXCEPT ![openBar[h]].size = size]
    PROVE  Store!Grow(h)
BY Zenon DEF Store!Grow, metaBar, keptBar, openBar

LEMMA BindsFoundStores ==
    ASSUME FilesInv, FilesInv', intact, intact', Running, NEW r \in GuestOpens, NEW file, BindsFound(r, file)
    PROVE  Store!Next \/ UNCHANGED storeVars
<1>1. metaBar' = metaBar /\ keptBar' = keptBar /\ UNCHANGED intact
  BY BindsFoundLogical, MetaFollows DEF BindsFound
<1>2. Binds(r, file) /\ r.handle \in Handles
  BY OpensTyped DEF BindsFound
<1>3. \A h \in FilesOpen : handleMap'["hdd"][h] = handleMap["hdd"][h]
  BY <1>2, BindsFiles
<1>4. CASE FilesOpen' = FilesOpen
  BY <1>1, <1>3, <1>4, OpenFollows DEF storeVars
<1>5. CASE /\ r.dev = "hdd" /\ r.path \in Paths /\ Cached(r.path) = {}
           /\ r.handle \notin FilesOpen /\ FilesOpen' = FilesOpen \cup {r.handle}
           /\ handleMap'["hdd"][r.handle] = file
  <2>1. openBar[r.handle] = NoPath /\ openBar' = [openBar EXCEPT ![r.handle] = r.path]
    BY <1>2, <1>3, <1>5, OpenChanges DEF Binds
  <2>2. file.slot \in Find(r.path)
    BY <1>5, NamesApart DEF BindsFound
  <2>3. Logical(r.path) = disk[file.slot] /\ Logical(r.path) \in Dirents /\ Logical(r.path).live
    BY <1>5, <2>2, LogicalIs, FoundTyped DEF DirentsOf
  <2>4. metaBar[r.path] # AbsentMeta
    BY <1>5, <2>3, MetaIs DEF metaBar
  <2>5. Store!OpenFile(r.handle, r.path)
    BY <1>1, <1>2, <1>5, <2>1, <2>4, StoreSteps, NotOpenBar
  <2> QED BY <1>1, <1>2, <1>5, <2>5 DEF Store!Next
<1> QED BY <1>2, <1>4, <1>5, BindsFiles

LEMMA BindsMadeStores ==
    ASSUME FilesInv, FilesInv', intact, intact', Running, NEW r \in GuestOpens, NEW file, BindsMade(r, file)
    PROVE  Store!Next \/ UNCHANGED storeVars
<1>1. Binds(r, file) /\ r.handle \in Handles /\ r.path \in Paths /\ r.dev = "hdd" /\ UNCHANGED intact
  BY OpensTyped DEF BindsMade
<1>2. \A h \in FilesOpen : handleMap'["hdd"][h] = handleMap["hdd"][h]
  BY <1>1, BindsFiles
<1>3. file.dirent \in Dirents /\ file.dirent.live
  BY <1>1 DEF Binds, FreshFile, FatxFiles
<1> DEFINE m == MetaOf(file.dirent)
<1>4. m \in Store!Meta
  BY <1>3, MetaIs
<1>5. keptBar' = [keptBar EXCEPT ![r.path] = m]
  <2>1. \A q \in Paths : Stored(q)' = IF q = r.path THEN file.dirent ELSE Stored(q)
    BY BindsMadeLogical
  <2> QED BY <1>1, <2>1, KeptChanges
<1> HIDE DEF m
<1>6. CASE FilesOpen' = FilesOpen /\ r.handle \in Cached(r.path)
  <2>1. r.handle \in FilesOpen /\ handleMap["hdd"][r.handle].path = r.path
    BY <1>6 DEF Cached
  <2>2. metaBar' = metaBar
    BY <2>1, BindsMadeLogical, MetaStays
  <2>3. openBar' = openBar /\ openBar[r.handle] = r.path /\ r.path # NoPath
    BY <1>1, <1>2, <1>6, <2>1, OpenFollows, NamesApart DEF openBar
  <2>4. Sharing
    <3>1. r.handle \in Holders(r.path) /\ r.handle \in HandlesFor(r.path)
      BY <1>1, <2>1, OpenedHeld, OpensTyped, HandlesApart DEF Holders, FilesOpen
    <3> QED BY <3>1 DEF HandlesFor
  <2>5. Store!OpenAgain(r.handle)
    BY <1>1, <1>4, <1>5, <2>2, <2>3, <2>4, StoreSteps
  <2> QED BY <1>1, <2>5 DEF Store!Next
<1>7. CASE /\ Cached(r.path) = {} /\ r.handle \notin FilesOpen /\ FilesOpen' = FilesOpen \cup {r.handle}
           /\ handleMap'["hdd"][r.handle] = file
  <2>1. openBar[r.handle] = NoPath /\ openBar' = [openBar EXCEPT ![r.handle] = r.path]
    BY <1>1, <1>2, <1>7, OpenChanges DEF Binds
  <2>2. \A q \in Paths : Logical(q)' = IF q = r.path THEN file.dirent ELSE Logical(q)
    BY <1>7, BindsMadeLogical
  <2>3. metaBar' = [metaBar EXCEPT ![r.path] = m]
    BY <1>1, <2>2, MetaChanges DEF m
  <2>4. Store!OpenFile(r.handle, r.path)
    BY <1>1, <1>4, <1>5, <1>7, <2>1, <2>3, StoreSteps, NotOpenBar
  <2> QED BY <1>1, <2>4 DEF Store!Next
<1> QED BY <1>1, <1>6, <1>7, BindsFiles

LEMMA LeavesBehindStores ==
    ASSUME FilesInv, FilesInv', intact, intact', NEW r, NEW s, NEW dirent, LeavesBehind(r, s, dirent)
    PROVE  Store!Next
<1>1. /\ r.path \in Paths /\ HostFaults /\ UNCHANGED intact /\ handleMap' = handleMap
      /\ dirent \in Dirents /\ dirent.live
  BY DEF LeavesBehind, Rests
<1>2. /\ FilesOpen' = FilesOpen /\ Cached(r.path) = {} /\ Find(r.path) = {}
  BY <1>1, LeavesBehindLogical
<1>9. \A p \in Paths : Logical(p)' = IF p = r.path THEN dirent ELSE Logical(p)
  BY LeavesBehindLogical
<1>10. \A p \in Paths : Stored(p)' = IF p = r.path THEN dirent ELSE Stored(p)
  BY LeavesBehindLogical
<1>3. Stored(r.path) = NoDirent
  BY <1>1, <1>2, LogicalIs DEF DirentsOf
<1>4. keptBar[r.path] = AbsentMeta
  BY <1>1, <1>3, EntriesDiffer DEF keptBar, MetaOf
<1>5. openBar' = openBar
  BY <1>1, <1>2, OpenFollows
<1> DEFINE m == MetaOf(dirent)
<1>6. m \in Store!Meta
  BY <1>1, MetaIs
<1>7. metaBar' = [metaBar EXCEPT ![r.path] = m] /\ keptBar' = [keptBar EXCEPT ![r.path] = m]
  BY <1>1, <1>9, <1>10, MetaChanges, KeptChanges
<1> HIDE DEF m
<1>8. Store!LeaveBehind(r.path)
  BY <1>1, <1>2, <1>4, <1>5, <1>6, <1>7, StoreSteps, NotOpenBar
<1> QED BY <1>1, <1>8 DEF Store!Next

LEMMA RecachedStores ==
    ASSUME FilesInv, FilesInv', intact, intact', NEW r, NEW dirent, Grows(r, dirent) \/ Deletes(r, dirent)
    PROVE  Store!Next
<1> DEFINE k == r.handle  p == owner[k]
<1>1. Recached(r, dirent) /\ p \in Paths /\ k \in Handles /\ dirent \in Dirents /\ UNCHANGED intact
  BY DEF Grows, Deletes, Recached, Held
<1>2. /\ k \in FilesOpen /\ handleMap["hdd"][k].path = p /\ FilesOpen' = FilesOpen
      /\ \A h \in FilesOpen : handleMap'["hdd"][h].path = handleMap["hdd"][h].path
  BY <1>1, RecachedLogical
<1>8. \A q \in Paths : Stored(q)' = Stored(q)
  BY <1>1, RecachedLogical
<1>3. openBar[k] = p /\ openBar' = openBar /\ p # NoPath /\ keptBar' = keptBar
  BY <1>1, <1>2, <1>8, OpenFollows, NamesApart, KeptStays DEF openBar
<1> DEFINE d == IF dirent.live THEN dirent ELSE NoDirent
<1>4. \A q \in Paths : Logical(q)' = IF q = p THEN d ELSE Logical(q)
  BY <1>1, RecachedLogical
<1>5. metaBar' = [metaBar EXCEPT ![p] = MetaOf(d)]
  <2> HIDE DEF d, p
  <2> QED BY <1>1, <1>4, MetaChanges
<1>6. CASE Grows(r, dirent)
  <2> DEFINE old == handleMap["hdd"][k].dirent
  <2>1. dirent.live /\ dirent.attrs = old.attrs /\ dirent.size \in old.size .. MaxSize /\ k \notin doomed
    BY <1>6 DEF Grows, Recached
  <2>2. old.live /\ old \in Dirents
    BY <1>1, <1>2, <2>1, OpenedHeld DEF Devs, FilesOpen, FatxFiles
  <2>3. k \in Cached(p)
    BY <1>2 DEF Cached
  <2>4. Logical(p) = old
    BY <1>1, <2>2, <2>3, LogicalIs DEF DirentsOf
  <2>5. metaBar[p] = MetaOf(old)
    BY <1>1, <2>4 DEF metaBar
  <2>6. metaBar[p] # AbsentMeta /\ metaBar[p] = [attrs |-> old.attrs, size |-> old.size]
    <3> HIDE DEF old, p
    <3> QED BY <2>2, <2>5, MetaIs
  <2>7. MetaOf(d) = [attrs |-> old.attrs, size |-> dirent.size]
    BY <1>1, <2>1, MetaIs
  <2>8. metaBar' = [metaBar EXCEPT ![p].size = dirent.size]
    <3>1. [metaBar[p] EXCEPT !.size = dirent.size] = [attrs |-> old.attrs, size |-> dirent.size]
      BY <2>6
    <3> HIDE DEF p, d
    <3> QED BY <1>5, <2>7, <3>1
  <2>9. dirent.size \in metaBar[p].size .. MaxSize
    BY <2>1, <2>6
  <2>10. Store!Grow(k)
    <3> HIDE DEF k, p
    <3> QED BY <1>1, <1>3, <2>6, <2>8, <2>9, GrowStep
  <2> QED BY <1>1, <2>10 DEF Store!Next
<1>7. CASE Deletes(r, dirent)
  <2>1. ~d.live
    BY <1>7, EntriesDiffer DEF Deletes
  <2>2. metaBar' = [metaBar EXCEPT ![p] = AbsentMeta]
    BY <1>5, <2>1 DEF MetaOf
  <2>3. Store!RemoveName(k)
    BY <1>1, <1>3, <2>2, StoreSteps
  <2> QED BY <1>1, <2>3 DEF Store!Next
<1> QED BY <1>6, <1>7

\* What a flush leaves of a file in the store.
LEMMA FlushStores ==
    ASSUME NEW p \in Paths, NEW Shut, FlushLeaves(p, Shut)
    PROVE  IF Cached(p) \cap Shut = {} THEN metaBar'[p] = metaBar[p] /\ keptBar'[p] = keptBar[p]
           ELSE metaBar'[p] \in AfterBar(p) /\ keptBar'[p] = metaBar'[p]
<1>1. /\ metaBar[p] = MetaOf(Logical(p)) /\ keptBar[p] = MetaOf(Stored(p))
      /\ metaBar'[p] = MetaOf(Logical(p)') /\ keptBar'[p] = MetaOf(Stored(p)')
  BY DEF metaBar, keptBar, MetaOf, AbsentMeta, NoSize
<1> QED BY <1>1 DEF FlushLeaves, AfterBar

LEMMA ShutsStores ==
    ASSUME FilesInv, FilesInv', intact, intact', NEW r, Shuts(r)
    PROVE  Store!Next \/ UNCHANGED storeVars
<1> DEFINE k == r.handle  p == handleMap["hdd"][k].path
<1>1. /\ \A q \in Paths : FlushLeaves(q, {k} \cap FilesOpen)
      /\ FilesOpen' = FilesOpen \ {k} /\ k \in Handles /\ UNCHANGED intact
      /\ \A h \in FilesOpen \ {k} : handleMap'["hdd"][h] = handleMap["hdd"][h]
  BY ShutsLogical DEF Shuts, Close
<1>2. CASE k \notin FilesOpen
  <2>1. \A q \in Paths : Logical(q)' = Logical(q) /\ Stored(q)' = Stored(q)
    BY <1>1, <1>2 DEF FlushLeaves
  <2> QED BY <1>1, <1>2, <2>1, MetaFollows, OpenFollows DEF storeVars
<1>3. CASE k \in FilesOpen
  <2>1. p \in Paths /\ p # NoPath /\ k \in Cached(p) /\ openBar[k] = p
    BY <1>1, <1>3, FlushFits, NamesApart DEF Cached, openBar
  <2>2. openBar' = [openBar EXCEPT ![k] = NoPath]
    BY <1>1 DEF openBar
  <2>3. \A q \in Paths : q # p => metaBar'[q] = metaBar[q] /\ keptBar'[q] = keptBar[q]
    <3> SUFFICES ASSUME NEW q \in Paths, q # p PROVE metaBar'[q] = metaBar[q] /\ keptBar'[q] = keptBar[q]
      OBVIOUS
    <3>1. Cached(q) \cap ({k} \cap FilesOpen) = {}
      BY DEF Cached
    <3> QED BY <1>1, <3>1, FlushStores
  <2>4. metaBar'[p] \in AfterBar(p) /\ keptBar'[p] = metaBar'[p]
    <3>1. Cached(p) \cap ({k} \cap FilesOpen) # {}
      BY <1>3, <2>1
    <3> HIDE DEF p
    <3> QED BY <1>1, <2>1, <3>1, FlushStores
  <2> DEFINE m == metaBar'[p]
  <2>5. metaBar' = [metaBar EXCEPT ![p] = m] /\ keptBar' = [keptBar EXCEPT ![p] = m]
    <3>1. /\ metaBar = [q \in Paths |-> metaBar[q]] /\ metaBar' = [q \in Paths |-> metaBar'[q]]
          /\ keptBar = [q \in Paths |-> keptBar[q]] /\ keptBar' = [q \in Paths |-> keptBar'[q]]
      BY DEF metaBar, keptBar
    <3> HIDE DEF p
    <3> QED BY <2>1, <2>3, <2>4, <3>1
  <2> HIDE DEF m, p
  <2>6. Store!CloseFile(k)
    BY <1>1, <2>1, <2>2, <2>4, <2>5, StoreSteps DEF m
  <2> QED BY <1>1, <2>6 DEF Store!Next
<1> QED BY <1>2, <1>3

LEMMA StopStores ==
    ASSUME FilesInv, FilesInv', intact, intact', Stop
    PROVE  Store!Next
<1>1. FilesOpen' = {} /\ UNCHANGED intact /\ \A p \in Paths : FlushLeaves(p, FilesOpen)
  BY StopLogical DEF Stop
<1>2. openBar' = [h \in Handles |-> NoPath]
  BY <1>1 DEF openBar
<1>3. ASSUME NEW p \in Paths PROVE metaBar'[p] \in AfterBar(p) /\ keptBar'[p] = metaBar'[p]
  <2>1. CASE Cached(p) \cap FilesOpen # {}
    BY <1>1, <2>1, FlushStores
  <2>2. CASE Cached(p) \cap FilesOpen = {}
    <3>1. Cached(p) = {}
      BY <2>2 DEF Cached
    <3>2. Logical(p) = Stored(p)
      BY <3>1, LogicalIs DEF DirentsOf
    <3>3. metaBar[p] = keptBar[p]
      BY <3>2 DEF metaBar, keptBar
    <3> QED BY <1>1, <2>2, <3>3, FlushStores DEF AfterBar
  <2> QED BY <2>1, <2>2
<1>4. metaBar' = [p \in Paths |-> metaBar'[p]] /\ keptBar' = [p \in Paths |-> keptBar'[p]]
  BY DEF metaBar, keptBar
<1>5. keptBar' = metaBar'
  BY <1>3, <1>4
<1>6. Store!CloseAll
  BY <1>2, <1>3, <1>4, <1>5, StoreSteps
<1> QED BY <1>1, <1>6 DEF Store!Next

LEMMA StoreUnchanged ==
    ASSUME UNCHANGED <<disk, intact, handleMap>>
    PROVE  UNCHANGED storeVars
BY AllKept, MetaFollows, OpenFollows DEF storeVars

LEMMA StoreNext == FilesInv /\ FilesInv' /\ [Next]_vars => Store!Next \/ UNCHANGED storeVars
<1> SUFFICES ASSUME FilesInv, FilesInv', [Next]_vars
             PROVE  Store!Next \/ UNCHANGED storeVars
  OBVIOUS
<1>1. CASE ~intact'
  BY <1>1 DEF Store!Next, Store!GivenUp
<1>2. ASSUME NEW r \in GuestRequests, Serve(r), intact, intact' PROVE Store!Next \/ UNCHANGED storeVars
  <2>1. Effects(r) /\ Running
    BY <1>2, ServeDoes DEF Serve
  <2>2. CASE Nothing(r)
    BY <2>2, StoreUnchanged DEF Nothing, Rests
  <2>3. CASE Shuts(r)
    BY <1>2, <2>3, ShutsStores
  <2>4. ASSUME NEW file, BindsFound(r, file) PROVE Store!Next \/ UNCHANGED storeVars
    BY <1>2, <2>1, <2>4, BindsFoundStores DEF BindsFound, Binds
  <2>5. ASSUME NEW file, BindsMade(r, file) PROVE Store!Next \/ UNCHANGED storeVars
    BY <1>2, <2>1, <2>5, BindsMadeStores DEF BindsMade, Binds
  <2>6. ASSUME NEW dirent, Grows(r, dirent) \/ Deletes(r, dirent) PROVE Store!Next
    BY <1>2, <2>6, RecachedStores
  <2>7. ASSUME NEW s, NEW dirent, LeavesBehind(r, s, dirent) PROVE Store!Next
    BY <1>2, <2>7, LeavesBehindStores
  <2> QED BY <1>2, <2>1, <2>2, <2>3, <2>4, <2>5, <2>6, <2>7 DEF Effects, Overruns, BindsUnstored
<1>3. ASSUME Start PROVE UNCHANGED storeVars
  <2>1. FilesOpen = {} /\ disk' = disk /\ handleMap' = DeviceMap /\ UNCHANGED intact
    BY <1>3, HandlesApart DEF Start, FilesInv, NothingHeld, FilesOpen, Opened, stored
  <2>2. FilesOpen' = {}
    BY <2>1, DeviceMapTyped, HandlesApart DEF FilesOpen, Opened
  <2>3. \A p \in Paths : Logical(p)' = Logical(p) /\ Stored(p)' = Stored(p)
    BY <2>1, <2>2 DEF Logical, Stored, Cached, Find
  <2> QED BY <2>1, <2>2, <2>3, MetaFollows, OpenFollows DEF storeVars
<1>4. ASSUME HostFileLost \/ UNCHANGED vars PROVE UNCHANGED storeVars
  BY <1>4, StoreUnchanged DEF HostFileLost, vars, fileVars, stored
<1>5. intact' => intact
  BY IntactStays
<1> QED BY <1>1, <1>2, <1>3, <1>4, <1>5, StopStores DEF Next

\* The handlers, with their cache of dirents, their slots and their flushes,
\* implement the plain file store: whatever the guest sends and whatever fails
\* on the host, every name has the attributes and the size that the last
\* successful packet on it gave it while it is open and, once it is closed or
\* the worker stopped, these or those it had stored, the latter only if a write
\* to the host can fail (io.cpp, close_file and flush_all_files; fatx.cpp,
\* flush_dirent_for_file).
THEOREM StoreImplemented == Spec => ImplementsStore
<1>1. Init => Store!Init
  BY StoreInit
<1>2. FilesInv /\ FilesInv' /\ [Next]_vars => [Store!Next]_<<metaBar, keptBar, openBar, intact>>
  BY StoreNext DEF storeVars
<1> QED BY <1>1, <1>2, FilesInvariant, PTL DEF Spec, ImplementsStore, Store!Spec, metaBar, keptBar, openBar

-----------------------------------------------------------------------------
(***************************************************************************)
(* Dirents and host files                                                  *)
(***************************************************************************)

\* a path is made as a directory by every packet that can make it, or by none
KindsKept ==
    \A o, q \in OpenRequests :
        o.path = q.path /\ o.disp # "IO_OPEN" /\ q.disp # "IO_OPEN" => ("dir" \in o.attrs <=> "dir" \in q.attrs)

\* a dirent that is there has its host file, as long as it says, and is of the
\* kind that the packets on its path make
Backed(p) ==
    Logical(p).live =>
        /\ HostHas(p) /\ Logical(p).size <= host[p]
        /\ \A o \in OpenRequests : o.path = p /\ o.disp # "IO_OPEN" => ("dir" \in o.attrs <=> "dir" \in Logical(p).attrs)

BackedInv == \A p \in Paths : Backed(p)

\* While the host does not fail, a flush leaves every path the dirent it had.
LEMMA FlushSame ==
    ASSUME ~HostFaults, NEW p, NEW Shut, FlushLeaves(p, Shut)
    PROVE  Logical(p)' = Logical(p)
BY DEF FlushLeaves

\* A path that a packet is not about keeps its dirent.
LEMMA LogicalElsewhere ==
    ASSUME FilesInv, FilesInv', intact, intact', ~HostFaults, NEW r \in GuestRequests, Serve(r), NEW p \in Paths,
           IF r.type = "open" THEN r.path # p \/ UNCHANGED disk ELSE owner[r.handle] # p
    PROVE  Logical(p)' = Logical(p)
<1>1. Effects(r) /\ Running
  BY ServeDoes DEF Serve
<1>2. CASE Nothing(r)
  BY <1>2, AllKept DEF Nothing, Rests
<1>3. CASE Shuts(r)
  BY <1>3, ShutsLogical, FlushSame
<1>4. ASSUME NEW file, BindsFound(r, file) PROVE Logical(p)' = Logical(p)
  BY <1>1, <1>4, BindsFoundLogical DEF BindsFound, Binds
<1>5. ASSUME NEW file, BindsMade(r, file) PROVE Logical(p)' = Logical(p)
  <2>1. r \in GuestOpens /\ r.type = "open" /\ Binds(r, file)
    BY <1>5, OpensTyped DEF BindsMade, Binds
  <2>2. CASE r.path # p
    BY <1>1, <1>5, <2>1, <2>2, BindsMadeLogical
  <2>3. CASE r.path = p /\ disk' = disk
    <3>1. file.slot \in Slots /\ file.dirent.live /\ disk \in [Slots -> Dirents \cup {NoDirent}]
      BY <1>5, <2>1, NamesApart DEF BindsMade, Binds, FreshFile, FilesInv, TypeOK
    <3>2. disk[file.slot] = file.dirent
      BY <1>5, <2>3, <3>1 DEF BindsMade
    <3>3. file.slot \in Find(r.path)
      BY <1>5, <3>1, <3>2 DEF BindsMade
    <3>4. BindsFound(r, file)
      BY <1>5, <2>1, <2>3, <3>2, <3>3 DEF BindsFound, BindsMade
    <3> QED BY <1>4, <3>4
  <2> QED BY <2>1, <2>2, <2>3
<1>6. ASSUME NEW dirent, Grows(r, dirent) \/ Deletes(r, dirent) PROVE Logical(p)' = Logical(p)
  <2>1. Recached(r, dirent) /\ r.type # "open"
    BY <1>6 DEF Grows, Deletes, Recached
  <2> QED BY <2>1, RecachedLogical
<1> QED BY <1>1, <1>2, <1>3, <1>4, <1>5, <1>6 DEF Effects, Overruns, LeavesBehind, BindsUnstored

\* A host file that stays, and may get longer.
HostKept(p) == HostHas(p) => host'[p] \in host[p] .. MaxSize

LEMMA HostSame == ASSUME FilesInv, NEW p \in Paths, host'[p] = host[p] PROVE HostKept(p)
BY SizesAssumption DEF HostKept, HostHas, NoSize, FilesInv, TypeOK

LEMMA BackedSame ==
    ASSUME FilesInv, intact, NEW p \in Paths, Backed(p), Logical(p)' = Logical(p), HostKept(p)
    PROVE  Backed(p)'
<1>1. host[p] \in 0 .. MaxSize + 1
  BY DEF FilesInv, TypeOK
<1>2. CASE Logical(p).live
  <2>1. Logical(p).size <= host[p] /\ host'[p] \in host[p] .. MaxSize
    BY <1>2 DEF Backed, HostKept
  <2>2. Logical(p).size \in Nat
    BY <1>2, LogicalTyped, EntriesDiffer DEF Dirents
  <2> QED BY <1>1, <1>2, <2>1, <2>2, SizesAssumption DEF Backed, HostHas, NoSize
<1> QED BY <1>2 DEF Backed

\* A raw write that reaches no dirent leaves them all, and can lengthen a file.
LEMMA RawBacked ==
    ASSUME FilesInv, intact', NEW r, WriteRaw(r), NEW p \in Paths
    PROVE  Logical(p)' = Logical(p) /\ HostKept(p)
<1>1. /\ UNCHANGED <<disk, handleMap>>
      /\ \/ host' = host
         \/ \E q \in Paths : HostHas(q) /\ \E length \in (host[q] + 1) .. MaxSize : host' = [host EXCEPT ![q] = length]
  BY DEF WriteRaw, RawEffect, stored
<1>2. Logical(p)' = Logical(p)
  BY <1>1, AllKept
<1>3. ASSUME NEW q \in Paths, HostHas(q), NEW length \in (host[q] + 1) .. MaxSize, host' = [host EXCEPT ![q] = length]
      PROVE  HostKept(p)
  <2>1. host \in [Paths -> 0 .. MaxSize + 1]
    BY DEF FilesInv, TypeOK
  <2>2. CASE p = q
    BY <1>3, <2>1, <2>2, SizesAssumption DEF HostKept
  <2>3. CASE p # q
    BY <1>3, <2>1, <2>3, HostSame
  <2> QED BY <2>2, <2>3
<1> QED BY <1>1, <1>2, <1>3, HostSame

\* The host file of a path only gets shorter, or made, with a packet on that path.
LEMMA HostElsewhere ==
    ASSUME FilesInv, intact', NEW r \in GuestRequests, Serve(r), NEW p \in Paths,
           IF r.type = "open" THEN r.path # p ELSE owner[r.handle] # p
    PROVE  HostKept(p)
<1>1. host \in [Paths -> 0 .. MaxSize + 1] /\ Running
  BY DEF FilesInv, TypeOK, Serve
<1>2. CASE r.type = "open"
  <2>1. host' = host \/ \E length : host' = [host EXCEPT ![r.path] = length]
    BY <1>2 DEF Serve, Handle, OpenDisc, OpenHdd, OpenRoot, OpenSearchFails, OpenLost, OpenExisting, OpenOverwrite,
                OpenCreate, OpenNotFound, HostMakes, stored
  <2>2. host'[p] = host[p]
    BY <1>1, <1>2, <2>1
  <2> QED BY <2>2, HostSame
<1>3. CASE r.type = "write" /\ Opened(r.dev, r.handle) /\ WriteFile(r)
  <2>1. r \in GuestTransfers /\ r.handle \notin DevHandles
    BY <1>3, RequestKinds DEF WriteFile
  <2>2. handleMap[r.dev][r.handle].path = owner[r.handle]
    BY <1>1, <1>3, <2>1, TransferOpened, OpenedHeld
  <2> DEFINE q == handleMap[r.dev][r.handle].path  end == r.offset + r.size
             length == IF end > host[q] THEN end ELSE host[q]
  <2>3. host' = host \/ host' = [host EXCEPT ![q] = length]
    BY <1>3 DEF WriteFile
  <2> HIDE DEF length
  <2>4. host'[p] = host[p]
    BY <1>1, <1>3, <2>2, <2>3
  <2> QED BY <2>4, HostSame
<1>4. CASE host' = host
  BY <1>4, HostSame
<1>5. CASE WriteRaw(r)
  BY <1>5, RawBacked
<1> QED BY <1>2, <1>3, <1>4, <1>5 DEF Serve, Handle, UnknownHandle, Close, Read, RemoveFile, fileVars, stored

\* After an open that succeeds, the path's dirent is the one the handle got.
LEMMA OpenedLogical ==
    ASSUME FilesInv, FilesInv', intact', NEW r \in GuestOpens, Running, r.dev = "hdd", r.path \in Paths,
           Holders(r.path) = {}, NEW slot, NEW dirent, NEW open, NEW n,
           AddToMap(r, slot, dirent, open, n), dirent.live
    PROVE  Logical(r.path)' = dirent
<1> DEFINE file == [path |-> r.path, open |-> open, slot |-> slot, dirent |-> dirent]
<1>1. r.handle \in Handles /\ r.handle \in AllHandles /\ r.path # NoPath /\ r.path # Root
  BY OpensTyped, HandlesApart, NamesApart
<1>2. ~Opened("hdd", r.handle)
  BY <1>1, OpensWhere, HandlesApart DEF Holders
<1>3. handleMap' = [handleMap EXCEPT !["hdd"][r.handle] = file] /\ handleMap \in Maps
  BY <1>2 DEF AddToMap, Emplace, FilesInv
<1>4. handleMap'["hdd"][r.handle] = file
  BY <1>1, <1>3, HandlesApart DEF Maps
<1>5. file # NoFile
  <2>1. file.path = r.path /\ NoFile.path = NoPath
    BY DEF NoFile, NoPath
  <2> QED BY <1>1, <2>1
<1>6. r.handle \in Cached(r.path)'
  BY <1>1, <1>4, <1>5 DEF Cached, FilesOpen, Opened
<1> QED BY <1>4, <1>6, LogicalIsNext DEF DirentsOf

\* What a packet that makes a path makes it.
LEMMA KindsMade ==
    ASSUME KindsKept, NEW r \in GuestOpens, r.disp # "IO_OPEN", NEW o \in OpenRequests, o.path = r.path, o.disp # "IO_OPEN"
    PROVE  "dir" \in o.attrs <=> "dir" \in r.attrs
<1>1. PICK q \in OpenRequests : \E h \in HandlesFor(q.path) : r = [q EXCEPT !.handle = h]
  BY DEF GuestOpens
<1>2. q \in OpenPackets
  BY OpensAssumption
<1>3. r.path = q.path /\ r.attrs = q.attrs /\ r.disp = q.disp
  BY <1>1, <1>2 DEF OpenPackets
<1> QED BY <1>3 DEF KindsKept

LEMMA OpensBacked ==
    ASSUME FilesInv, FilesInv', intact, intact', ~HostFaults, ~Sharing, KindsKept, BackedInv,
           NEW r \in GuestRequests, Serve(r), r.type = "open", r.path \in Paths
    PROVE  Backed(r.path)'
<1> DEFINE p == r.path
<1>1. r \in GuestOpens /\ Running /\ r.dev = "hdd" /\ p # Root /\ Backed(p) /\ r.size \in 0 .. MaxSize
  BY RequestKinds, OpensTyped, NamesApart DEF Serve, DevOf, BackedInv
<1>2. Holders(p) = {}
  BY <1>1, OpensTyped DEF HandlesFor
<1>3. OpenHdd(r) /\ host \in [Paths -> 0 .. MaxSize + 1]
  BY <1>1 DEF Serve, Handle, OpenDisc, FilesInv, TypeOK
<1>4. CASE UNCHANGED <<disk, host>>
  <2>1. Logical(p)' = Logical(p)
    BY <1>4, LogicalElsewhere
  <2> QED BY <1>1, <1>4, <2>1, BackedSame, HostSame
<1>5. CASE OpenOverwrite(r) /\ ~UNCHANGED <<disk, host>>
  <2> DEFINE isDir(s) == "dir" \in disk[s].attrs
             new(s) == Overwritten(r, disk[s])
             outcome(s) == IF isDir(s) THEN exists ELSE IF r.disp = "IO_SUPERSEDE" THEN superseded ELSE overwritten
  <2>1. PICK s \in Find(p) :
          /\ host' = IF isDir(s) THEN host ELSE [host EXCEPT ![p] = r.size]
          /\ disk' = [disk EXCEPT ![s] = new(s)] /\ AddToMap(r, s, new(s), ~isDir(s), outcome(s))
          /\ r.disp # "IO_OPEN" /\ HostHas(p)
    BY <1>5 DEF OpenOverwrite, HostMakes
  <2>2. disk[s] \in Dirents /\ disk[s].live /\ disk[s].path = p
    BY FoundTyped
  <2>3. Cached(p) = {}
    <3>1. ASSUME NEW h \in Cached(p) PROVE h \in Holders(p)
      BY OpenedHeld, HandlesApart DEF Cached, FilesOpen, Holders
    <3> QED BY <1>2, <3>1
  <2>4. Logical(p) = disk[s]
    BY <2>3, LogicalIs DEF DirentsOf
  <2>5. new(s).live
    BY <2>2 DEF Overwritten, Dirents
  <2>6. Logical(p)' = new(s)
    <3> DEFINE dirent == new(s)  open == ~isDir(s)  n == outcome(s)
    <3>1. AddToMap(r, s, dirent, open, n) /\ dirent.live
      BY <2>1, <2>5
    <3> HIDE DEF dirent, open, n
    <3>2. Logical(p)' = dirent
      BY <1>1, <1>2, <3>1, OpenedLogical
    <3> QED BY <3>2 DEF dirent
  <2>7. host[p] # MaxSize + 1 /\ disk[s].size <= host[p]
        /\ \A o \in OpenRequests : o.path = p /\ o.disp # "IO_OPEN" => ("dir" \in o.attrs <=> isDir(s))
    BY <1>1, <2>2, <2>4 DEF Backed, HostHas, NoSize
  <2>8. \A o \in OpenRequests : o.path = p /\ o.disp # "IO_OPEN" => ("dir" \in o.attrs <=> "dir" \in r.attrs)
    BY <1>1, <2>1, KindsMade
  <2>9. isDir(s) <=> "dir" \in r.attrs
    <3>1. PICK q \in OpenRequests : \E h \in HandlesFor(q.path) : r = [q EXCEPT !.handle = h]
      BY <1>1 DEF GuestOpens
    <3>2. q \in OpenPackets
      BY OpensAssumption
    <3>3. r.path = q.path /\ r.attrs = q.attrs /\ r.disp = q.disp
      BY <3>1, <3>2 DEF OpenPackets
    <3> QED BY <2>1, <2>7, <3>3
  <2>10. new(s).attrs = r.attrs /\ new(s).size = IF isDir(s) THEN disk[s].size ELSE r.size
    BY <2>2, <2>9 DEF Overwritten, Dirents
  <2>11. host'[p] # MaxSize + 1 /\ new(s).size <= host'[p]
    <3>1. host'[p] = IF isDir(s) THEN host[p] ELSE r.size
      BY <1>3, <2>1
    <3> HIDE DEF isDir, new
    <3> QED BY <1>1, <2>7, <2>10, <3>1, SizesAssumption
  <2> QED BY <2>6, <2>8, <2>10, <2>11 DEF Backed, HostHas, NoSize
<1>6. CASE OpenCreate(r) /\ ~UNCHANGED <<disk, host>>
  <2> DEFINE size == NewSize(r)
             new == NewDirent(r)
             open == "dir" \notin r.attrs
  <2>1. PICK s \in Slots : /\ r.disp # "IO_OPEN" /\ host' = [host EXCEPT ![p] = size]
                          /\ AddToMap(r, s, new, open, created)
    BY <1>6 DEF OpenCreate, HostMakes, CreateDirent, stored
  <2>2. Logical(p)' = new
    <3>1. new.live
      BY DEF NewDirent
    <3> HIDE DEF new, open
    <3> QED BY <1>1, <1>2, <2>1, <3>1, OpenedLogical
  <2>3. \A o \in OpenRequests : o.path = p /\ o.disp # "IO_OPEN" => ("dir" \in o.attrs <=> "dir" \in r.attrs)
    BY <1>1, <2>1, KindsMade
  <2>4. host'[p] = size /\ size \in 0 .. MaxSize
    BY <1>1, <1>3, <2>1, SizesAssumption DEF NewSize
  <2>5. Logical(p)'.attrs = r.attrs /\ Logical(p)'.size = size
    BY <2>2 DEF NewDirent
  <2> HIDE DEF size
  <2> QED BY <2>3, <2>4, <2>5, SizesAssumption DEF Backed, HostHas, NoSize
<1> QED BY <1>1, <1>3, <1>4, <1>5, <1>6 DEF OpenHdd, OpenRoot, OpenSearchFails, OpenLost, OpenExisting, OpenNotFound, stored

LEMMA WritesBacked ==
    ASSUME FilesInv, FilesInv', intact, intact', ~HostFaults, Running, NEW p \in Paths, Backed(p),
           NEW r \in GuestTransfers, Opened(r.dev, r.handle), r.dev = "hdd", owner[r.handle] = p,
           WriteFile(r), ~UNCHANGED <<host, handleMap>>
    PROVE  Backed(p)'
<1> DEFINE k == r.handle  file == handleMap["hdd"][k]
           end == r.offset + r.size
           length == IF end > host[file.path] THEN end ELSE host[file.path]
           new == Appended(file.dirent, r.offset, r.size)
<1>1. k \in Held \ doomed /\ k \in Handles /\ k \in AllHandles
  BY TransferOpened, HandlesApart DEF WriteFile
<1>2. /\ file \in FatxFiles /\ file.dirent.path = p /\ file.path = p /\ file.dirent.live
  BY <1>1, OpenedHeld, HandlesApart
<1>3. file.dirent \in Dirents /\ host \in [Paths -> 0 .. MaxSize + 1] /\ handleMap \in Maps
  BY <1>2 DEF FatxFiles, FilesInv, TypeOK
<1>4. host' = [host EXCEPT ![file.path] = length] /\ handleMap' = [handleMap EXCEPT !["hdd"][k].dirent = new]
  BY DEF WriteFile
<1>5. k \in Cached(p)
  BY <1>1, <1>2, NamesApart DEF Cached, FilesOpen
<1>6. Logical(p) = file.dirent
  BY <1>2, <1>5, LogicalIs DEF DirentsOf
<1>7. /\ new \in Dirents /\ new.attrs = file.dirent.attrs /\ new.live
      /\ new.size = IF end > Aligned(file.dirent.size) THEN end ELSE file.dirent.size
  BY <1>2, <1>3, TransfersTyped, AppendedGrows DEF Appended, Dirents
<1>8. handleMap'["hdd"][k] = [file EXCEPT !.dirent = new]
  BY <1>1, <1>3, <1>4, HandlesApart DEF Maps
<1>9. handleMap'["hdd"][k].dirent = new /\ handleMap'["hdd"][k].path = p
  BY <1>2, <1>8 DEF FatxFiles
<1>10. k \in Cached(p)'
  <2>1. NoFile.path = NoPath /\ p # NoPath /\ p # Root
    BY NamesApart DEF NoFile, NoPath
  <2>2. handleMap'["hdd"][k] # NoFile
    BY <1>9, <2>1
  <2> QED BY <1>1, <1>9, <2>1, <2>2 DEF Cached, FilesOpen, Opened
<1>11. Logical(p)' = new
  BY <1>7, <1>9, <1>10, LogicalIsNext DEF DirentsOf
<1>12. host[p] # MaxSize + 1 /\ file.dirent.size <= host[p]
       /\ \A o \in OpenRequests : o.path = p /\ o.disp # "IO_OPEN" => ("dir" \in o.attrs <=> "dir" \in file.dirent.attrs)
  BY <1>2, <1>6 DEF Backed, HostHas, NoSize
<1>13. host'[p] = IF end > host[p] THEN end ELSE host[p]
  BY <1>2, <1>3, <1>4
<1>14. host'[p] # MaxSize + 1 /\ new.size <= host'[p]
  <2>1. end \in 0 .. MaxSize /\ host[p] \in 0 .. MaxSize + 1 /\ file.dirent.size \in 0 .. MaxSize
    BY <1>3, TransfersTyped, SizesAssumption DEF Dirents
  <2>2. new.size = end \/ new.size = file.dirent.size
    BY <1>7
  <2> HIDE DEF end, new, file
  <2> QED BY <1>12, <1>13, <2>1, <2>2, SizesAssumption
<1> HIDE DEF new, file, k
<1> QED BY <1>7, <1>11, <1>12, <1>14 DEF Backed, HostHas, NoSize

LEMMA HandlesBacked ==
    ASSUME FilesInv, FilesInv', intact, intact', ~HostFaults, NEW p \in Paths, Backed(p),
           NEW r \in GuestRequests, Serve(r),
           r.type # "open", owner[r.handle] = p
    PROVE  Backed(p)'
<1> DEFINE k == r.handle
<1>1. Running /\ GuestLearns(r, info') /\ handleMap \in Maps
  BY DEF Serve, FilesInv
<1>2. CASE UNCHANGED <<disk, handleMap, host>>
  <2>1. Logical(p)' = Logical(p)
    BY <1>2, AllKept
  <2> QED BY <1>2, <2>1, BackedSame, HostSame
<1>3. CASE r.type = "close" /\ Opened(r.dev, k) /\ Close(r)
  <2>1. Shuts(r)
    BY <1>1, <1>3, RequestKinds DEF Shuts, GuestLearns
  <2>2. Logical(p)' = Logical(p)
    BY <2>1, ShutsLogical, FlushSame
  <2> QED BY <1>3, <2>2, BackedSame, HostSame DEF Close
<1>4. CASE r.type = "write" /\ Opened(r.dev, k) /\ WriteFile(r)
  <2>1. r \in GuestTransfers /\ k \in Handles /\ r.dev \in Devs
    BY <1>1, <1>4, RequestKinds, TransferOpened DEF WriteFile
  <2>2. r.dev = "hdd"
    BY <1>4, <2>1, OpenedHeld, NamesApart DEF DevOf
  <2>3. CASE ~UNCHANGED <<host, handleMap>>
    BY <1>1, <1>4, <2>1, <2>2, <2>3, WritesBacked
  <2> QED BY <1>2, <1>4, <2>3 DEF WriteFile
<1>5. CASE r.type = "remove" /\ Opened(r.dev, k) /\ RemoveFile(r)
  <2>1. CASE UNCHANGED handleMap
    BY <1>2, <1>5, <2>1 DEF RemoveFile, stored
  <2>2. CASE r.dev = "hdd" /\ handleMap' = [handleMap EXCEPT !["hdd"][k].dirent.live = FALSE]
    <3> DEFINE file == handleMap["hdd"][k]
               new == [file.dirent EXCEPT !.live = FALSE]
    <3>1. k \in Handles /\ k \in AllHandles
      BY <1>5, RequestKinds, RemovesTyped, HandlesApart DEF Held
    <3>2. file \in FatxFiles /\ file.path = p
      BY <1>5, <2>2, <3>1, OpenedHeld, HandlesApart
    <3>3. handleMap'["hdd"][k] = [file EXCEPT !.dirent = new]
      BY <1>1, <2>2, <3>1, HandlesApart DEF Maps
    <3>4. handleMap'["hdd"][k].path = p /\ ~handleMap'["hdd"][k].dirent.live
      BY <3>2, <3>3 DEF FatxFiles, Dirents
    <3>5. k \in Cached(p)'
      <4>1. NoFile.path = NoPath /\ p # NoPath /\ p # Root
        BY NamesApart DEF NoFile, NoPath
      <4>2. handleMap'["hdd"][k] # NoFile
        BY <3>4, <4>1
      <4> QED BY <3>1, <3>4, <4>1, <4>2 DEF Cached, FilesOpen, Opened
    <3>6. Logical(p)' = NoDirent
      BY <3>4, <3>5, LogicalIsNext DEF DirentsOf
    <3> QED BY <3>6, EntriesDiffer DEF Backed
  <2> QED BY <1>5, <2>1, <2>2 DEF RemoveFile
<1>6. CASE WriteRaw(r)
  BY <1>6, RawBacked, BackedSame
<1> QED BY <1>2, <1>3, <1>4, <1>5, <1>6 DEF Serve, Handle, UnknownHandle, Read, fileVars, stored

LEMMA BackedNext ==
    ASSUME ~HostFaults, ~Sharing, KindsKept, FilesInv, FilesInv', intact, intact', BackedInv, [Next]_vars
    PROVE  BackedInv'
<1> SUFFICES ASSUME NEW p \in Paths PROVE Backed(p)'
  BY DEF BackedInv
<1>1. Backed(p)
  BY DEF BackedInv
<1>2. ASSUME NEW r \in GuestRequests, Serve(r) PROVE Backed(p)'
  <2>1. CASE IF r.type = "open" THEN r.path # p ELSE owner[r.handle] # p
    <3>1. Logical(p)' = Logical(p)
      BY <1>2, <2>1, LogicalElsewhere
    <3>2. HostKept(p)
      BY <1>2, <2>1, HostElsewhere
    <3> QED BY <1>1, <3>1, <3>2, BackedSame
  <2>2. CASE r.type = "open" /\ r.path = p
    BY <1>2, <2>2, OpensBacked
  <2>3. CASE r.type # "open" /\ owner[r.handle] = p
    BY <1>1, <1>2, <2>3, HandlesBacked
  <2> QED BY <2>1, <2>2, <2>3
<1>3. CASE Stop
  BY <1>1, <1>3, StopLogical, FlushSame, BackedSame, HostSame DEF Stop
<1>4. CASE Start
  <2>1. FilesOpen = {} /\ disk' = disk /\ host' = host /\ handleMap' = DeviceMap
    BY <1>4, HandlesApart DEF Start, FilesInv, NothingHeld, FilesOpen, Opened, stored
  <2>2. FilesOpen' = {}
    BY <2>1, DeviceMapTyped, HandlesApart DEF FilesOpen, Opened
  <2>3. Logical(p)' = Logical(p)
    BY <2>1, <2>2 DEF Logical, Stored, Cached, Find
  <2> QED BY <1>1, <2>1, <2>3, BackedSame, HostSame
<1>5. CASE UNCHANGED vars
  <2>1. UNCHANGED <<disk, handleMap, host>>
    BY <1>5 DEF vars, fileVars, stored
  <2>2. Logical(p)' = Logical(p)
    BY <2>1, AllKept
  <2> QED BY <1>1, <2>1, <2>2, BackedSame, HostSame
<1> QED BY <1>2, <1>3, <1>4, <1>5 DEF Next, HostFileLost

\* While the host does not fail and the guest opens no file twice, a dirent
\* never promises bytes that its host file has not got: each handler that sets a
\* size sets the file first, and grows the dirent by no more than the file
\* (fatx.cpp, append_clusters_to_file and overwrite_dirent_for_file).  A packet
\* that made a directory of a file would keep the size of the file it cut, and
\* after a create that left its dirent out or a raw write over the dirents
\* nothing is claimed.
THEOREM DirentsBacked ==
    ASSUME ~HostFaults, ~Sharing, KindsKept
    PROVE  Spec => []DirentBackedByHost
<1> DEFINE Safe == intact => BackedInv
<1>1. Init => Safe
  <2> SUFFICES ASSUME Init, NEW p \in Paths PROVE Backed(p)
    BY DEF BackedInv
  <2>1. FilesInv /\ intact /\ FilesOpen = {}
    BY FilesInvInit, DeviceMapTyped, HandlesApart DEF Init, FilesOpen, Opened
  <2>2. Cached(p) = {} /\ Find(p) = {}
    BY <2>1, EntriesDiffer DEF Cached, Find, Init
  <2>3. Logical(p) = NoDirent
    BY <2>1, <2>2, LogicalIs DEF DirentsOf
  <2> QED BY <2>3, EntriesDiffer DEF Backed
<1>2. FilesInv /\ FilesInv' /\ Safe /\ [Next]_vars => Safe'
  <2> SUFFICES ASSUME FilesInv, FilesInv', Safe, [Next]_vars, intact' PROVE BackedInv'
    OBVIOUS
  <2>1. intact
    BY IntactStays
  <2> QED BY <2>1, BackedNext
<1>3. Safe => DirentBackedByHost
  BY DEF BackedInv, Backed, DirentBackedByHost
<1> HIDE DEF Safe
<1> QED BY <1>1, <1>2, <1>3, FilesInvariant, PTL DEF Spec

-----------------------------------------------------------------------------
(***************************************************************************)
(* The two threads                                                         *)
(***************************************************************************)


CpuHolds == {"flag", "notify", "unlock", "stop_flag", "stop_notify", "stop_unlock"}

\* who holds the queue's mutex is read off the program counters
LocksAgree ==
    /\ queueMtx = "cpu" <=> cpuPc \in CpuHolds
    /\ queueMtx = "worker" <=> workerPc = "locked"

\* work in the queue is announced by the flag, or is about to be
WorkIsFlagged == queue # <<>> => pendingIo \/ cpuPc = "flag"

\* a set flag does not find the worker blocked, except before the notification
FlagIsNotified == workerPc = "parked" /\ pendingIo => cpuPc \in {"notify", "stop_notify"}

\* IO_CHECK_ENQUEUE tells exactly whether packets were put aside
PendingAgrees == pendingPackets <=> pendingVec # <<>>

\* the thread that restarts the worker has joined the old one
JoinedIsDone == cpuPc = "stopped" => workerPc = "done"

HostInv ==
    /\ ThreadTypeOK /\ LocksAgree /\ WorkIsFlagged /\ FlagIsNotified /\ NoLostWakeup
    /\ PendingAgrees /\ AcceptedIsQueued /\ JoinedIsDone

\* Whatever the guest may ask for is a packet of the static packet space.
LEMMA GuestRequestsTyped == GuestRequests \subseteq Requests
<1>1. GuestOpens \subseteq Requests
  BY DEF GuestOpens, Requests, HandlesFor, Holders, FreeHandles
<1>2. Targets \cup StrayTargets \cup DeviceTargets \subseteq Devs \X AllHandles
  BY DEF Targets, StrayTargets, DeviceTargets, Devs, AllHandles, DevHandles, Held, FreeHandles, DevOf
<1>3. GuestTransfers \subseteq Requests
  BY <1>2, ExtentsAssumption DEF GuestTransfers, Requests, Transfers
<1>4. GuestRemoves \subseteq Requests
  BY <1>2 DEF GuestRemoves, Requests
<1>5. GuestCloses \subseteq Requests
  BY DEF GuestCloses, Requests, Held, AllHandles, DevHandles, Devs, DevOf
<1> QED BY <1>1, <1>3, <1>4, <1>5 DEF GuestRequests

\* The packets of a flush are packets.
LEMMA ConcatTyped ==
    ASSUME NEW S, NEW s \in Seq(S), NEW t \in Seq(S), t # <<>>
    PROVE  s \o t \in Seq(S) /\ s \o t # <<>>
<1>1. s \o t \in Seq(S) OBVIOUS
<1>2. Len(s \o t) = Len(s) + Len(t) OBVIOUS
<1>3. Len(t) # 0 OBVIOUS
<1> QED BY <1>1, <1>2, <1>3

LEMMA InitInv == HostInit => HostInv
<1> SUFFICES ASSUME HostInit PROVE HostInv OBVIOUS
<1> USE DEF HostInit
<1>1. ThreadTypeOK
  <2>1. client \in [Clients -> {"idle", "retry", "poll"}] OBVIOUS
  <2>2. queue \in Seq(Packets) /\ pendingVec \in Seq(Packets) OBVIOUS
  <2> QED BY <2>1, <2>2 DEF ThreadTypeOK, CpuPcs, WorkerPcs
<1>2. LocksAgree /\ WorkIsFlagged /\ FlagIsNotified /\ NoLostWakeup /\ JoinedIsDone /\ PendingAgrees
  BY DEF LocksAgree, WorkIsFlagged, FlagIsNotified, NoLostWakeup, JoinedIsDone, PendingAgrees, CpuHolds
<1>3. AcceptedIsQueued
  BY DEF AcceptedIsQueued
<1> QED BY <1>1, <1>2, <1>3 DEF HostInv

LEMMA StutterInv == HostInv /\ UNCHANGED hostVars => HostInv'
BY DEF HostInv, ThreadTypeOK, LocksAgree, WorkIsFlagged, FlagIsNotified, NoLostWakeup,
       PendingAgrees, AcceptedIsQueued, JoinedIsDone, hostVars, threadVars

\* IO_START keeps the invariant, whether or not the lock was free.
LEMMA SubmitInv == ASSUME HostInv, NEW c \in Clients, Submit(c) PROVE HostInv'
<1> USE DEF HostInv, Submit, Enqueue, PutAside
<1>1. PICK r \in GuestRequests : Enqueue(c, r) \/ PutAside(c, r)
  OBVIOUS
<1>2. PacketOf(c, r) \in Packets
  BY <1>1, GuestRequestsTyped DEF PacketOf, Packets
<1>3. queue \in Seq(Packets) /\ pendingVec \in Seq(Packets)
  BY DEF ThreadTypeOK
<1>4. queue' \in Seq(Packets) /\ pendingVec' \in Seq(Packets)
  <2>1. Append(queue, PacketOf(c, r)) \in Seq(Packets) /\ Append(pendingVec, PacketOf(c, r)) \in Seq(Packets)
    BY <1>2, <1>3
  <2> QED BY <1>1, <1>3, <2>1
<1>5. ThreadTypeOK'
  BY <1>1, <1>4 DEF ThreadTypeOK, CpuPcs
<1>6. LocksAgree' /\ WorkIsFlagged' /\ FlagIsNotified' /\ NoLostWakeup' /\ JoinedIsDone'
  BY <1>1 DEF LocksAgree, WorkIsFlagged, FlagIsNotified, NoLostWakeup, JoinedIsDone, CpuHolds, ThreadTypeOK
<1>7. PendingAgrees'
  BY <1>1, <1>2, <1>3 DEF PendingAgrees
<1>8. AcceptedIsQueued'
  <2> SUFFICES ASSUME NEW d \in Clients, client'[d] = "poll", NEW i \in DOMAIN pendingVec'
               PROVE  pendingVec'[i].id # d
    BY DEF AcceptedIsQueued
  <2>1. d # c /\ client[d] = "poll"
    BY DEF ThreadTypeOK
  <2>2. CASE pendingVec' = pendingVec
    BY <2>1, <2>2 DEF AcceptedIsQueued
  <2>3. CASE pendingVec' = Append(pendingVec, PacketOf(c, r))
    <3>1. CASE i \in DOMAIN pendingVec
      BY <2>1, <2>3, <3>1, <1>3 DEF AcceptedIsQueued
    <3>2. CASE i = Len(pendingVec) + 1
      BY <2>1, <2>3, <3>2, <1>3 DEF PacketOf
    <3> QED BY <2>3, <3>1, <3>2, <1>3
  <2> QED BY <1>1, <2>2, <2>3
<1> QED BY <1>5, <1>6, <1>7, <1>8

\* A thread that reads IO_CHECK_ENQUEUE as zero has nothing put aside.
LEMMA AcceptedInv == ASSUME HostInv, NEW c \in Clients, Accepted(c) PROVE HostInv'
<1> USE DEF HostInv, Accepted, queueVars, lockVars
<1>1. ThreadTypeOK' BY DEF ThreadTypeOK
<1>2. LocksAgree' /\ WorkIsFlagged' /\ FlagIsNotified' /\ NoLostWakeup' /\ JoinedIsDone' /\ PendingAgrees'
  BY DEF LocksAgree, WorkIsFlagged, FlagIsNotified, NoLostWakeup, JoinedIsDone, PendingAgrees
<1>3. pendingVec' = <<>> BY DEF PendingAgrees, ThreadTypeOK
<1>4. AcceptedIsQueued' BY <1>3 DEF AcceptedIsQueued
<1> QED BY <1>1, <1>2, <1>4

\* IO_RETRY with the lock moves everything that was put aside.
LEMMA FlushInv == ASSUME HostInv, NEW c \in Clients, FlushPending(c) PROVE HostInv'
<1> USE DEF HostInv, FlushPending
<1>1. queue' \in Seq(Packets) /\ queue' # <<>>
  BY ConcatTyped DEF ThreadTypeOK
<1>2. ThreadTypeOK'
  <2>1. pendingVec' \in Seq(Packets) OBVIOUS
  <2> QED BY <1>1, <2>1 DEF ThreadTypeOK, CpuPcs
<1>3. LocksAgree' /\ WorkIsFlagged' /\ FlagIsNotified' /\ NoLostWakeup' /\ JoinedIsDone' /\ PendingAgrees'
  BY DEF LocksAgree, WorkIsFlagged, FlagIsNotified, NoLostWakeup, JoinedIsDone, PendingAgrees, CpuHolds, ThreadTypeOK
<1>4. AcceptedIsQueued' BY DEF AcceptedIsQueued
<1> QED BY <1>2, <1>3, <1>4

\* IO_QUERY takes a posted packet and lets its thread go.
LEMMA QueryInv == ASSUME HostInv, NEW c \in Clients, Query(c) PROVE HostInv'
<1> USE DEF HostInv, Query, queueVars, lockVars
<1>1. ThreadTypeOK' BY DEF ThreadTypeOK
<1>2. LocksAgree' /\ WorkIsFlagged' /\ FlagIsNotified' /\ NoLostWakeup' /\ JoinedIsDone' /\ PendingAgrees'
  BY DEF LocksAgree, WorkIsFlagged, FlagIsNotified, NoLostWakeup, JoinedIsDone, PendingAgrees
<1>3. AcceptedIsQueued' BY DEF AcceptedIsQueued, ThreadTypeOK
<1> QED BY <1>1, <1>2, <1>3

\* The steps of the CPU thread that touch the flag, the lock and the stop.
LEMMA CpuInv == ASSUME HostInv, CpuStep \/ RequestStop \/ Restart PROVE HostInv'
<1> USE DEF HostInv, queueVars, lockVars
<1>1. CASE SetPendingIo
  BY <1>1 DEF SetPendingIo, ThreadTypeOK, LocksAgree, WorkIsFlagged, FlagIsNotified, NoLostWakeup,
              PendingAgrees, AcceptedIsQueued, JoinedIsDone, CpuHolds, CpuPcs
<1>2. CASE Notify
  BY <1>2 DEF Notify, ThreadTypeOK, LocksAgree, WorkIsFlagged, FlagIsNotified, NoLostWakeup,
              PendingAgrees, AcceptedIsQueued, JoinedIsDone, CpuHolds, CpuPcs, WorkerPcs
<1>3. CASE Unlock
  BY <1>3 DEF Unlock, ThreadTypeOK, LocksAgree, WorkIsFlagged, FlagIsNotified, NoLostWakeup,
              PendingAgrees, AcceptedIsQueued, JoinedIsDone, CpuHolds, CpuPcs
<1>4. CASE StopLock
  BY <1>4 DEF StopLock, ThreadTypeOK, LocksAgree, WorkIsFlagged, FlagIsNotified, NoLostWakeup,
              PendingAgrees, AcceptedIsQueued, JoinedIsDone, CpuHolds, CpuPcs
<1>5. CASE Join
  BY <1>5 DEF Join, ThreadTypeOK, LocksAgree, WorkIsFlagged, FlagIsNotified, NoLostWakeup,
              PendingAgrees, AcceptedIsQueued, JoinedIsDone, CpuHolds, CpuPcs
<1>6. CASE RequestStop
  BY <1>6 DEF RequestStop, ThreadTypeOK, LocksAgree, WorkIsFlagged, FlagIsNotified, NoLostWakeup,
              PendingAgrees, AcceptedIsQueued, JoinedIsDone, CpuHolds, CpuPcs
<1>7. CASE Restart
  BY <1>7 DEF Restart, ThreadTypeOK, LocksAgree, WorkIsFlagged, FlagIsNotified, NoLostWakeup,
              PendingAgrees, AcceptedIsQueued, JoinedIsDone, CpuHolds, CpuPcs, WorkerPcs
<1> QED BY <1>1, <1>2, <1>3, <1>4, <1>5, <1>6, <1>7 DEF CpuStep

\* The steps of the worker.
LEMMA WorkerInv == ASSUME HostInv, Worker PROVE HostInv'
<1> USE DEF HostInv, queueVars, lockVars
<1>1. CASE WorkerWait
  BY <1>1 DEF WorkerWait, ThreadTypeOK, LocksAgree, WorkIsFlagged, FlagIsNotified, NoLostWakeup,
              PendingAgrees, AcceptedIsQueued, JoinedIsDone, CpuHolds, WorkerPcs
<1>2. CASE WorkerStop
  <2>1. ThreadTypeOK'
    <3>1. queue' \in Seq(Packets) /\ pendingVec' \in Seq(Packets) BY <1>2 DEF WorkerStop
    <3>2. client' \in [Clients -> {"idle", "retry", "poll"}] BY <1>2 DEF WorkerStop
    <3> QED BY <1>2, <3>1, <3>2 DEF WorkerStop, ThreadTypeOK, WorkerPcs
  <2>2. LocksAgree' /\ WorkIsFlagged' /\ FlagIsNotified' /\ NoLostWakeup' /\ JoinedIsDone' /\ PendingAgrees'
    BY <1>2 DEF WorkerStop, LocksAgree, WorkIsFlagged, FlagIsNotified, NoLostWakeup, JoinedIsDone, PendingAgrees
  <2>3. AcceptedIsQueued'
    BY <1>2 DEF WorkerStop, AcceptedIsQueued
  <2> QED BY <2>1, <2>2, <2>3
<1>3. CASE WorkerGoOn
  BY <1>3 DEF WorkerGoOn, ThreadTypeOK, LocksAgree, WorkIsFlagged, FlagIsNotified, NoLostWakeup,
              PendingAgrees, AcceptedIsQueued, JoinedIsDone, WorkerPcs
<1>4. CASE WorkerLock
  BY <1>4 DEF WorkerLock, ThreadTypeOK, LocksAgree, WorkIsFlagged, FlagIsNotified, NoLostWakeup,
              PendingAgrees, AcceptedIsQueued, JoinedIsDone, WorkerPcs
<1>5. CASE WorkerEmpty
  BY <1>5 DEF WorkerEmpty, ThreadTypeOK, LocksAgree, WorkIsFlagged, FlagIsNotified, NoLostWakeup,
              PendingAgrees, AcceptedIsQueued, JoinedIsDone, WorkerPcs, CpuHolds
<1>6. CASE WorkerPop
  <2>1. Head(queue) \in Packets /\ Tail(queue) \in Seq(Packets)
    BY <1>6 DEF WorkerPop, ThreadTypeOK
  <2>2. cpuPc \notin CpuHolds
    BY <1>6 DEF WorkerPop, LocksAgree
  <2> QED
    BY <1>6, <2>1, <2>2 DEF WorkerPop, ThreadTypeOK, LocksAgree, WorkIsFlagged, FlagIsNotified, NoLostWakeup,
              PendingAgrees, AcceptedIsQueued, JoinedIsDone, WorkerPcs, CpuHolds
<1>7. CASE WorkerHandle
  BY <1>7 DEF WorkerHandle, ThreadTypeOK, LocksAgree, WorkIsFlagged, FlagIsNotified, NoLostWakeup,
              PendingAgrees, AcceptedIsQueued, JoinedIsDone, WorkerPcs
<1>8. CASE WorkerPostLock
  BY <1>8 DEF WorkerPostLock, ThreadTypeOK, LocksAgree, WorkIsFlagged, FlagIsNotified, NoLostWakeup,
              PendingAgrees, AcceptedIsQueued, JoinedIsDone, WorkerPcs
<1>9. CASE WorkerPost
  BY <1>9 DEF WorkerPost, ThreadTypeOK, LocksAgree, WorkIsFlagged, FlagIsNotified, NoLostWakeup,
              PendingAgrees, AcceptedIsQueued, JoinedIsDone, WorkerPcs
<1> QED BY <1>1, <1>2, <1>3, <1>4, <1>5, <1>6, <1>7, <1>8, <1>9 DEF Worker

LEMMA StepInv == HostInv /\ [HostNext]_hostVars => HostInv'
BY StutterInv, SubmitInv, AcceptedInv, FlushInv, QueryInv, CpuInv, WorkerInv DEF HostNext, Guest

THEOREM InvHolds == HostSpec => []HostInv
BY InitInv, StepInv, PTL DEF HostSpec

\* The types of the variables both threads share, for every instance.
THEOREM ThreadTypes == HostSpec => []ThreadTypeOK
<1>1. HostInv => ThreadTypeOK BY DEF HostInv
<1> QED BY <1>1, InvHolds, PTL

\* However many guest threads submit, retry and query, the worker never sleeps
\* over a packet in its queue.
THEOREM WorkerNeverSleepsOverWork == HostSpec => []NoLostWakeup
<1>1. HostInv => NoLostWakeup BY DEF HostInv
<1> QED BY <1>1, InvHolds, PTL

\* However many guest threads there are, a packet whose thread went on to poll
\* is in the queue already and keeps its place in it.
THEOREM AcceptedNotOvertaken == HostSpec => []AcceptedIsQueued
<1>1. HostInv => AcceptedIsQueued BY DEF HostInv
<1> QED BY <1>1, InvHolds, PTL

-----------------------------------------------------------------------------
(***************************************************************************)
(* The threads implement IoService                                         *)
(***************************************************************************)

AtMostOne(q) == \A i, j \in DOMAIN q : q[i].id = q[j].id => i = j
Carries(c, r, q) == \E i \in DOMAIN q : q[i].id = c /\ q[i].req = r

\* The packet of a thread is in one place, and that of an idle one nowhere.
PlacesOK(q, v, k, m, cl) ==
    /\ AtMostOne(q) /\ AtMostOne(v)
    /\ \A c \in Clients :
         /\ cl[c] = "idle" <=> k.id # c /\ m[c] = NoResult /\ ~WaitsIn(c, q) /\ ~WaitsIn(c, v)
         /\ WaitsIn(c, q) => k.id # c /\ m[c] = NoResult /\ ~WaitsIn(c, v)
         /\ WaitsIn(c, v) => k.id # c /\ m[c] = NoResult
         /\ k.id = c => m[c] = NoResult

PlacesInv ==
    /\ PlacesOK(queue, pendingVec, curr, completed, client)
    /\ completed = [c \in Clients |-> completed[c]]
    /\ curr # NoPacket <=> workerPc \in {"handle", "post", "posting"}

LEMMA NoPacketIs == ASSUME NEW p \in Packets PROVE p # NoPacket /\ p.id \in Clients /\ NoPacket.id \notin Clients
<1>1. p.id \in Clients
  BY DEF Packets
<1>2. NoPacket.id = None /\ None \notin Clients
  BY ClientsAssumption DEF NoPacket
<1> QED BY <1>1, <1>2

\* One packet more at the end of a sequence.
LEMMA AppendPlaces ==
    ASSUME NEW q \in Seq(Packets), NEW p \in Packets
    PROVE  /\ \A c : WaitsIn(c, Append(q, p)) <=> WaitsIn(c, q) \/ c = p.id
           /\ \A c, r : Carries(c, r, q) => Carries(c, r, Append(q, p))
           /\ Carries(p.id, p.req, Append(q, p))
           /\ AtMostOne(q) /\ ~WaitsIn(p.id, q) => AtMostOne(Append(q, p))
<1>0. Append(q, p) \in Seq(Packets)
  OBVIOUS
<1>1. PICK s \in Seq(Packets) : s = Append(q, p)
  BY <1>0
<1>2. /\ Len(q) \in Nat /\ DOMAIN q = 1 .. Len(q) /\ DOMAIN s = 1 .. Len(q) + 1
      /\ \A i \in 1 .. Len(q) : s[i] = q[i]
      /\ s[Len(q) + 1] = p
  BY <1>1
<1>3. PICK n \in Nat : n = Len(q)
  BY <1>2
<1>4. \A i : i \in 1 .. n + 1 <=> i \in 1 .. n \/ i = n + 1
  OBVIOUS
<1>5. /\ DOMAIN q = 1 .. n /\ DOMAIN s = 1 .. n + 1 /\ s[n + 1] = p
      /\ \A i \in 1 .. n : s[i] = q[i]
  BY <1>2, <1>3
<1>6. \A c : WaitsIn(c, s) <=> WaitsIn(c, q) \/ c = p.id
  BY <1>4, <1>5 DEF WaitsIn
<1>7. /\ \A c, r : Carries(c, r, q) => Carries(c, r, s)
      /\ Carries(p.id, p.req, s)
  BY <1>4, <1>5 DEF Carries
<1>8. AtMostOne(q) /\ ~WaitsIn(p.id, q) => AtMostOne(s)
  <2> SUFFICES ASSUME AtMostOne(q), ~WaitsIn(p.id, q), NEW i \in 1 .. n + 1, NEW j \in 1 .. n + 1, s[i].id = s[j].id
               PROVE  i = j
    BY <1>5 DEF AtMostOne
  <2> QED BY <1>4, <1>5 DEF AtMostOne, WaitsIn
<1> QED BY <1>1, <1>6, <1>7, <1>8

\* One sequence put behind another.
LEMMA ConcatPlaces ==
    ASSUME NEW q \in Seq(Packets), NEW v \in Seq(Packets)
    PROVE  /\ \A c : WaitsIn(c, q \o v) <=> WaitsIn(c, q) \/ WaitsIn(c, v)
           /\ \A c, r : Carries(c, r, q) \/ Carries(c, r, v) => Carries(c, r, q \o v)
           /\ AtMostOne(q) /\ AtMostOne(v) /\ (\A c \in Clients : ~(WaitsIn(c, q) /\ WaitsIn(c, v))) => AtMostOne(q \o v)
<1>0. q \o v \in Seq(Packets)
  OBVIOUS
<1>1. PICK s \in Seq(Packets) : s = q \o v
  BY <1>0
<1>2. PICK n \in Nat, k \in Nat : n = Len(q) /\ k = Len(v)
  OBVIOUS
<1>3. /\ DOMAIN q = 1 .. n /\ DOMAIN v = 1 .. k /\ DOMAIN s = 1 .. n + k
      /\ \A i \in 1 .. n : s[i] = q[i]
      /\ \A i \in n + 1 .. n + k : s[i] = v[i - n]
  BY <1>1, <1>2
<1>4. /\ \A i \in 1 .. k : i + n \in n + 1 .. n + k /\ (i + n) - n = i
      /\ \A i \in n + 1 .. n + k : i - n \in 1 .. k
      /\ \A i : i \in 1 .. n + k <=> i \in 1 .. n \/ i \in n + 1 .. n + k
  OBVIOUS
<1>5. \A i \in 1 .. k : i + n \in 1 .. n + k /\ s[i + n] = v[i]
  BY <1>3, <1>4
<1>6. \A c : WaitsIn(c, s) <=> WaitsIn(c, q) \/ WaitsIn(c, v)
  <2>1. ASSUME NEW c, WaitsIn(c, s) PROVE WaitsIn(c, q) \/ WaitsIn(c, v)
    <3>1. PICK i \in 1 .. n + k : s[i].id = c
      BY <1>3, <2>1 DEF WaitsIn
    <3>2. CASE i \in 1 .. n
      BY <1>3, <3>1, <3>2 DEF WaitsIn
    <3>3. CASE i \in n + 1 .. n + k
      <4>1. PICK j \in 1 .. k : j = i - n
        BY <1>4, <3>3
      <4> QED BY <1>3, <3>1, <3>3, <4>1 DEF WaitsIn
    <3> QED BY <1>4, <3>2, <3>3
  <2>2. ASSUME NEW c, WaitsIn(c, q) PROVE WaitsIn(c, s)
    BY <1>3, <1>4, <2>2 DEF WaitsIn
  <2>3. ASSUME NEW c, WaitsIn(c, v) PROVE WaitsIn(c, s)
    <3>1. PICK i \in 1 .. k : v[i].id = c
      BY <1>3, <2>3 DEF WaitsIn
    <3>2. PICK j \in 1 .. n + k : j = i + n /\ s[j] = v[i]
      BY <1>5
    <3> QED BY <1>3, <3>1, <3>2 DEF WaitsIn
  <2> QED BY <2>1, <2>2, <2>3
<1>7. \A c, r : Carries(c, r, q) \/ Carries(c, r, v) => Carries(c, r, s)
  <2>1. ASSUME NEW c, NEW r, Carries(c, r, q) PROVE Carries(c, r, s)
    BY <1>3, <1>4, <2>1 DEF Carries
  <2>2. ASSUME NEW c, NEW r, Carries(c, r, v) PROVE Carries(c, r, s)
    <3>1. PICK i \in 1 .. k : v[i].id = c /\ v[i].req = r
      BY <1>3, <2>2 DEF Carries
    <3>2. PICK j \in 1 .. n + k : j = i + n /\ s[j] = v[i]
      BY <1>5
    <3> QED BY <1>3, <3>1, <3>2 DEF Carries
  <2> QED BY <2>1, <2>2
<1>8. ASSUME AtMostOne(q), AtMostOne(v), \A c \in Clients : ~(WaitsIn(c, q) /\ WaitsIn(c, v)) PROVE AtMostOne(s)
  <2>0. ASSUME NEW x \in 1 .. n, NEW y \in n + 1 .. n + k PROVE s[x].id # s[y].id
    <3>1. PICK j \in 1 .. k : j = y - n /\ s[y] = v[j]
      BY <1>3, <1>4
    <3>2. s[x] = q[x] /\ q[x] \in Packets
      BY <1>3
    <3>3. q[x].id \in Clients /\ WaitsIn(q[x].id, q)
      BY <1>3, <3>2 DEF Packets, WaitsIn
    <3>4. s[y].id = q[x].id => WaitsIn(q[x].id, v)
      BY <1>3, <3>1 DEF WaitsIn
    <3> QED BY <1>8, <3>2, <3>3, <3>4
  <2> SUFFICES ASSUME NEW i \in 1 .. n + k, NEW j \in 1 .. n + k, s[i].id = s[j].id PROVE i = j
    BY <1>3 DEF AtMostOne
  <2>1. CASE i \in 1 .. n /\ j \in 1 .. n
    BY <1>3, <1>8, <2>1 DEF AtMostOne
  <2>2. CASE i \in n + 1 .. n + k /\ j \in n + 1 .. n + k
    <3>1. PICK x \in 1 .. k, y \in 1 .. k : x = i - n /\ y = j - n /\ s[i] = v[x] /\ s[j] = v[y]
      BY <1>3, <1>4, <2>2
    <3>2. x = y
      BY <1>3, <1>8, <3>1 DEF AtMostOne
    <3> QED BY <2>2, <3>1, <3>2
  <2> QED BY <1>4, <2>0, <2>1, <2>2
<1> QED BY <1>1, <1>6, <1>7, <1>8

\* The first packet of a sequence taken out.
LEMMA TailPlaces ==
    ASSUME NEW q \in Seq(Packets), q # <<>>
    PROVE  /\ \A c : WaitsIn(c, q) <=> WaitsIn(c, Tail(q)) \/ c = Head(q).id
           /\ \A c, r : Carries(c, r, q) => Carries(c, r, Tail(q)) \/ (c = Head(q).id /\ r = Head(q).req)
           /\ AtMostOne(q) => AtMostOne(Tail(q)) /\ ~WaitsIn(Head(q).id, Tail(q))
           /\ Head(q) \in Packets /\ Carries(Head(q).id, Head(q).req, q)
<1>0. Tail(q) \in Seq(Packets) /\ Head(q) \in Packets
  OBVIOUS
<1>1. PICK s \in Seq(Packets), h \in Packets : s = Tail(q) /\ h = Head(q)
  BY <1>0
<1>2. PICK n \in Nat : Len(q) = n + 1
  <2>1. Len(q) \in Nat /\ Len(q) # 0
    OBVIOUS
  <2>2. Len(q) - 1 \in Nat /\ Len(q) = (Len(q) - 1) + 1
    BY <2>1
  <2> QED BY <2>2
<1>3. /\ DOMAIN q = 1 .. n + 1 /\ DOMAIN s = 1 .. n /\ q[1] = h
      /\ \A i \in 1 .. n : s[i] = q[i + 1]
  BY <1>1, <1>2
<1>4. /\ 1 \in 1 .. n + 1
      /\ \A i \in 1 .. n : i + 1 \in 1 .. n + 1 /\ i + 1 # 1
      /\ \A i \in 1 .. n + 1 : i = 1 \/ (i - 1 \in 1 .. n /\ i = (i - 1) + 1)
  OBVIOUS
<1>5. ASSUME NEW i \in 1 .. n + 1, i # 1 PROVE \E j \in 1 .. n : i = j + 1 /\ q[i] = s[j]
  <2>1. PICK j \in 1 .. n : j = i - 1 /\ i = j + 1
    BY <1>4, <1>5
  <2> QED BY <1>3, <2>1
<1>6. \A c : WaitsIn(c, q) <=> WaitsIn(c, s) \/ c = h.id
  <2>1. ASSUME NEW c, WaitsIn(c, q) PROVE WaitsIn(c, s) \/ c = h.id
    <3>1. PICK i \in 1 .. n + 1 : q[i].id = c
      BY <1>3, <2>1 DEF WaitsIn
    <3> QED BY <1>3, <1>5, <3>1 DEF WaitsIn
  <2>2. ASSUME NEW c, WaitsIn(c, s) PROVE WaitsIn(c, q)
    <3>1. PICK j \in 1 .. n : s[j].id = c
      BY <1>3, <2>2 DEF WaitsIn
    <3>2. PICK i \in 1 .. n + 1 : i = j + 1
      BY <1>4
    <3> QED BY <1>3, <3>1, <3>2 DEF WaitsIn
  <2>3. WaitsIn(h.id, q)
    BY <1>3, <1>4 DEF WaitsIn
  <2> QED BY <2>1, <2>2, <2>3
<1>7. \A c, r : Carries(c, r, q) => Carries(c, r, s) \/ (c = h.id /\ r = h.req)
  <2> SUFFICES ASSUME NEW c, NEW r, Carries(c, r, q) PROVE Carries(c, r, s) \/ (c = h.id /\ r = h.req)
    OBVIOUS
  <2>1. PICK i \in 1 .. n + 1 : q[i].id = c /\ q[i].req = r
    BY <1>3 DEF Carries
  <2> QED BY <1>3, <1>5, <2>1 DEF Carries
<1>8. ASSUME AtMostOne(q) PROVE AtMostOne(s) /\ ~WaitsIn(h.id, s)
  <2>1. ASSUME NEW i \in 1 .. n, NEW j \in 1 .. n, s[i].id = s[j].id PROVE i = j
    <3>1. PICK x \in 1 .. n + 1, y \in 1 .. n + 1 : x = i + 1 /\ y = j + 1
      BY <1>4
    <3>2. x = y
      BY <1>3, <1>8, <2>1, <3>1 DEF AtMostOne
    <3> QED BY <3>1, <3>2
  <2>2. ASSUME NEW i \in 1 .. n PROVE s[i].id # h.id
    <3>1. PICK x \in 1 .. n + 1 : x = i + 1 /\ x # 1
      BY <1>4
    <3> QED BY <1>3, <1>4, <1>8, <3>1 DEF AtMostOne
  <2> QED BY <1>3, <2>1, <2>2 DEF AtMostOne, WaitsIn
<1>9. Carries(h.id, h.req, q)
  BY <1>3, <1>4 DEF Carries
<1> QED BY <1>1, <1>6, <1>7, <1>8, <1>9

\* What a thread waits for, wherever its packet is.
HasIn(c, r, q, v, k, m) ==
    \/ k.id = c /\ r = k.req
    \/ m[c] # NoResult /\ r = m[c].req
    \/ Carries(c, r, q) \/ Carries(c, r, v)

LEMMA EmptyPlaces ==
    AtMostOne(<<>>) /\ \A c : ~WaitsIn(c, <<>>) /\ \A r : ~Carries(c, r, <<>>)
BY DEF AtMostOne, WaitsIn, Carries

\* The request the abstract service sees is the one the packet holds.
RequestsFollow ==
    \A c \in Clients :
        /\ client[c] = "idle" => RequestOf(c) = NoRequest
        /\ client[c] # "idle" => \E r : HasIn(c, r, queue, pendingVec, curr, completed)
        /\ \A r : HasIn(c, r, queue, pendingVec, curr, completed) => RequestOf(c) = r

LEMMA RequestIs == PlacesInv => RequestsFollow
<1> SUFFICES ASSUME PlacesInv, NEW c \in Clients
             PROVE  /\ client[c] = "idle" => RequestOf(c) = NoRequest
                    /\ client[c] # "idle" => \E r : HasIn(c, r, queue, pendingVec, curr, completed)
                    /\ \A r : HasIn(c, r, queue, pendingVec, curr, completed) => RequestOf(c) = r
  BY DEF RequestsFollow
<1>1. PlacesOK(queue, pendingVec, curr, completed, client)
  BY DEF PlacesInv
<1>2. client[c] = "idle" => RequestOf(c) = NoRequest
  BY <1>1 DEF PlacesOK, RequestOf
<1>3. ASSUME client[c] # "idle" PROVE \E r : HasIn(c, r, queue, pendingVec, curr, completed)
  <2>1. curr.id = c \/ completed[c] # NoResult \/ WaitsIn(c, queue) \/ WaitsIn(c, pendingVec)
    BY <1>1, <1>3 DEF PlacesOK
  <2> QED BY <2>1 DEF HasIn, Carries, WaitsIn
<1>4. ASSUME NEW r, HasIn(c, r, queue, pendingVec, curr, completed) PROVE RequestOf(c) = r
  <2>0. /\ \A s : Carries(c, s, queue) => WaitsIn(c, queue)
        /\ \A s : Carries(c, s, pendingVec) => WaitsIn(c, pendingVec)
    BY DEF Carries, WaitsIn
  <2>1. CASE curr.id = c /\ r = curr.req
    BY <2>1 DEF RequestOf
  <2>2. CASE completed[c] # NoResult /\ r = completed[c].req
    BY <1>1, <2>2 DEF RequestOf, PlacesOK
  <2>3. CASE Carries(c, r, queue)
    <3>1. WaitsIn(c, queue) /\ curr.id # c /\ completed[c] = NoResult
      BY <1>1, <2>0, <2>3 DEF PlacesOK
    <3>2. PICK i \in DOMAIN queue : queue[i].id = c /\ queue[i].req = r
      BY <2>3 DEF Carries
    <3>3. (CHOOSE j \in DOMAIN queue : queue[j].id = c) = i
      BY <1>1, <3>2 DEF PlacesOK, AtMostOne
    <3> QED BY <3>1, <3>2, <3>3 DEF RequestOf
  <2>4. CASE Carries(c, r, pendingVec)
    <3>1. WaitsIn(c, pendingVec) /\ ~WaitsIn(c, queue) /\ curr.id # c /\ completed[c] = NoResult
      BY <1>1, <2>0, <2>4 DEF PlacesOK
    <3>2. PICK i \in DOMAIN pendingVec : pendingVec[i].id = c /\ pendingVec[i].req = r
      BY <2>4 DEF Carries
    <3>3. (CHOOSE j \in DOMAIN pendingVec : pendingVec[j].id = c) = i
      BY <1>1, <3>2 DEF PlacesOK, AtMostOne
    <3> QED BY <3>1, <3>2, <3>3 DEF RequestOf
  <2> QED BY <1>4, <2>1, <2>2, <2>3, <2>4 DEF HasIn
<1> QED BY <1>2, <1>3, <1>4

\* A request seen before a step that keeps it in some place is seen after it.
LEMMA RequestKept ==
    ASSUME PlacesInv, PlacesInv', NEW c \in Clients, client'[c] = "idle" <=> client[c] = "idle",
           \A r : HasIn(c, r, queue, pendingVec, curr, completed)
                  => HasIn(c, r, queue', pendingVec', curr', completed')
    PROVE  RequestOf(c)' = RequestOf(c)
<1>1. (PlacesInv => RequestsFollow)'
  BY RequestIs, PTL
<1>2. /\ client'[c] = "idle" => RequestOf(c)' = NoRequest
      /\ \A r : HasIn(c, r, queue', pendingVec', curr', completed') => RequestOf(c)' = r
  BY <1>1 DEF RequestsFollow
<1>3. CASE client[c] = "idle"
  BY <1>2, <1>3, RequestIs DEF RequestsFollow
<1>4. CASE client[c] # "idle"
  <2>1. PICK r : HasIn(c, r, queue, pendingVec, curr, completed)
    BY <1>4, RequestIs DEF RequestsFollow
  <2> QED BY <1>2, <2>1, RequestIs DEF RequestsFollow
<1> QED BY <1>3, <1>4

\* A thread with a packet has it among those in flight.
LEMMA RequestInFlight ==
    ASSUME HostInv, PlacesInv, NEW c \in Clients, client[c] # "idle"
    PROVE  RequestOf(c) \in InFlight
<1>1. PICK r : HasIn(c, r, queue, pendingVec, curr, completed)
  BY RequestIs DEF RequestsFollow
<1>2. RequestOf(c) = r
  BY <1>1, RequestIs DEF RequestsFollow
<1>3. curr.id = c => curr # NoPacket
  BY ClientsAssumption DEF NoPacket
<1> QED BY <1>1, <1>2, <1>3 DEF HasIn, Carries, InFlight

LEMMA PlacesInit == HostInit => PlacesInv
<1> SUFFICES ASSUME HostInit PROVE PlacesInv OBVIOUS
<1>1. NoPacket.id \notin Clients
  BY ClientsAssumption DEF NoPacket
<1>2. PlacesOK(queue, pendingVec, curr, completed, client)
  BY <1>1, EmptyPlaces DEF HostInit, PlacesOK
<1> QED BY <1>2 DEF HostInit, PlacesInv

\* IO_START puts the packet of an idle thread in one place.
LEMMA SubmitPlaces == ASSUME HostInv, PlacesInv, NEW c \in Clients, Submit(c) PROVE PlacesInv'
<1>1. PICK r \in GuestRequests : Enqueue(c, r) \/ PutAside(c, r)
  BY DEF Submit
<1>2. PICK p \in Packets : p = PacketOf(c, r)
  BY <1>1, GuestRequestsTyped DEF PacketOf, Packets
<1>3. p.id = c
  BY <1>2 DEF PacketOf
<1>4. queue \in Seq(Packets) /\ pendingVec \in Seq(Packets) /\ client \in [Clients -> {"idle", "retry", "poll"}]
  BY DEF HostInv, ThreadTypeOK
<1>5. PlacesOK(queue, pendingVec, curr, completed, client) /\ client[c] = "idle"
  BY DEF PlacesInv, Submit
<1>6. /\ client' = [client EXCEPT ![c] = "retry"]
      /\ completed' = completed /\ curr' = curr /\ workerPc' = workerPc
  BY DEF Submit
<1>7. CASE Enqueue(c, r)
  <2>1. queue' = Append(queue, p) /\ pendingVec' = pendingVec
    BY <1>2, <1>7 DEF Enqueue
  <2>2. /\ \A d : WaitsIn(d, queue') <=> WaitsIn(d, queue) \/ d = c
        /\ AtMostOne(queue')
    BY <1>3, <1>4, <1>5, <2>1, AppendPlaces DEF PlacesOK
  <2>3. PlacesOK(queue', pendingVec', curr', completed', client')
    BY <1>4, <1>5, <1>6, <2>1, <2>2 DEF PlacesOK
  <2> QED BY <1>6, <2>3 DEF PlacesInv
<1>8. CASE PutAside(c, r)
  <2>1. pendingVec' = Append(pendingVec, p) /\ queue' = queue
    BY <1>2, <1>8 DEF PutAside
  <2>2. /\ \A d : WaitsIn(d, pendingVec') <=> WaitsIn(d, pendingVec) \/ d = c
        /\ AtMostOne(pendingVec')
    BY <1>3, <1>4, <1>5, <2>1, AppendPlaces DEF PlacesOK
  <2>3. PlacesOK(queue', pendingVec', curr', completed', client')
    BY <1>4, <1>5, <1>6, <2>1, <2>2 DEF PlacesOK
  <2> QED BY <1>6, <2>3 DEF PlacesInv
<1> QED BY <1>1, <1>7, <1>8

\* IO_RETRY moves what was put aside behind what is queued.
LEMMA FlushPlaces == ASSUME HostInv, PlacesInv, NEW c \in Clients, FlushPending(c) PROVE PlacesInv'
<1>1. queue \in Seq(Packets) /\ pendingVec \in Seq(Packets)
  BY DEF HostInv, ThreadTypeOK
<1>2. PlacesOK(queue, pendingVec, curr, completed, client)
  BY DEF PlacesInv
<1>3. /\ queue' = queue \o pendingVec /\ pendingVec' = <<>>
      /\ client' = client /\ completed' = completed /\ curr' = curr /\ workerPc' = workerPc
  BY DEF FlushPending
<1>4. \A d \in Clients : ~(WaitsIn(d, queue) /\ WaitsIn(d, pendingVec))
  BY <1>2 DEF PlacesOK
<1>5. /\ \A d : WaitsIn(d, queue') <=> WaitsIn(d, queue) \/ WaitsIn(d, pendingVec)
      /\ AtMostOne(queue')
  BY <1>1, <1>2, <1>3, <1>4, ConcatPlaces DEF PlacesOK
<1>6. PlacesOK(queue', pendingVec', curr', completed', client')
  BY <1>2, <1>3, <1>5, EmptyPlaces DEF PlacesOK
<1> QED BY <1>3, <1>6 DEF PlacesInv

LEMMA QueryPlaces == ASSUME HostInv, PlacesInv, NEW c \in Clients, Query(c) PROVE PlacesInv'
<1>1. PlacesOK(queue, pendingVec, curr, completed, client) /\ completed = [d \in Clients |-> completed[d]]
  BY DEF PlacesInv
<1>2. client \in [Clients -> {"idle", "retry", "poll"}]
  BY DEF HostInv, ThreadTypeOK
<1>3. /\ completed' = [completed EXCEPT ![c] = NoResult] /\ client' = [client EXCEPT ![c] = "idle"]
      /\ queue' = queue /\ pendingVec' = pendingVec /\ curr' = curr /\ workerPc' = workerPc
      /\ completed[c] # NoResult
  BY DEF Query, queueVars
<1>4. \A d \in Clients : completed'[d] = IF d = c THEN NoResult ELSE completed[d]
  BY <1>1, <1>3
<1>5. \A d \in Clients : client'[d] = IF d = c THEN "idle" ELSE client[d]
  BY <1>2, <1>3
<1>6. PlacesOK(queue', pendingVec', curr', completed', client')
  BY <1>1, <1>3, <1>4, <1>5 DEF PlacesOK
<1>7. completed' = [d \in Clients |-> completed'[d]]
  BY <1>1, <1>3
<1> QED BY <1>3, <1>6, <1>7 DEF PlacesInv

\* The worker takes the first packet of the queue.
LEMMA PopPlaces == ASSUME HostInv, PlacesInv, WorkerPop PROVE PlacesInv'
<1>1. queue \in Seq(Packets) /\ queue # <<>>
  BY DEF HostInv, ThreadTypeOK, WorkerPop
<1>2. PlacesOK(queue, pendingVec, curr, completed, client) /\ curr = NoPacket
  BY DEF PlacesInv, WorkerPop
<1>3. /\ curr' = Head(queue) /\ queue' = Tail(queue) /\ workerPc' = "handle"
      /\ client' = client /\ completed' = completed /\ pendingVec' = pendingVec
  BY DEF WorkerPop
<1>4. /\ \A d : WaitsIn(d, queue) <=> WaitsIn(d, queue') \/ d = curr'.id
      /\ AtMostOne(queue') /\ ~WaitsIn(curr'.id, queue') /\ curr' \in Packets
  BY <1>1, <1>2, <1>3, TailPlaces DEF PlacesOK
<1>5. curr' # NoPacket /\ NoPacket.id \notin Clients
  BY <1>4, NoPacketIs
<1>6. PlacesOK(queue', pendingVec', curr', completed', client')
  BY <1>2, <1>3, <1>4, <1>5 DEF PlacesOK
<1> QED BY <1>3, <1>5, <1>6 DEF PlacesInv

\* The worker posts what it handled.
LEMMA PostIs ==
    ASSUME HostInv, PlacesInv, WorkerPost
    PROVE  /\ curr \in Packets /\ curr.id \in Clients /\ completed[curr.id] = NoResult
           /\ completed' = [completed EXCEPT ![curr.id] = [id |-> curr.id, req |-> curr.req, info |-> info]]
           /\ \A d \in Clients : completed'[d] = IF d = curr.id THEN [id |-> curr.id, req |-> curr.req, info |-> info]
                                                 ELSE completed[d]
           /\ [id |-> curr.id, req |-> curr.req, info |-> info] # NoResult
<1>1. curr \in Packets /\ curr.id \in Clients
  <2>1. curr # NoPacket
    BY DEF WorkerPost, PlacesInv
  <2>2. curr \in Packets
    BY <2>1 DEF HostInv, ThreadTypeOK
  <2> QED BY <2>2, NoPacketIs
<1>2. completed[curr.id] = NoResult
  BY <1>1 DEF PlacesInv, PlacesOK
<1>3. completed' = [completed EXCEPT ![curr.id] = [id |-> curr.id, req |-> curr.req, info |-> info]]
  BY <1>2 DEF WorkerPost
<1>4. completed = [d \in Clients |-> completed[d]]
  BY DEF PlacesInv
<1>5. \A d \in Clients : completed'[d] = IF d = curr.id THEN [id |-> curr.id, req |-> curr.req, info |-> info]
                                         ELSE completed[d]
  BY <1>3, <1>4
<1>6. [id |-> curr.id, req |-> curr.req, info |-> info] # NoResult
  <2>1. PICK x : x = [id |-> curr.id, req |-> curr.req, info |-> info]
    OBVIOUS
  <2>2. x.id = curr.id
    BY <2>1
  <2>3. NoResult.id \notin Clients
    BY ClientsAssumption DEF NoResult
  <2> QED BY <1>1, <2>1, <2>2, <2>3
<1> QED BY <1>1, <1>2, <1>3, <1>5, <1>6

LEMMA PostPlaces == ASSUME HostInv, PlacesInv, WorkerPost PROVE PlacesInv'
<1>1. PlacesOK(queue, pendingVec, curr, completed, client) /\ completed = [d \in Clients |-> completed[d]]
  BY DEF PlacesInv
<1>2. /\ curr' = NoPacket /\ workerPc' = "wait"
      /\ queue' = queue /\ pendingVec' = pendingVec /\ client' = client
  BY DEF WorkerPost, queueVars
<1>3. PICK x : x # NoResult /\ \A d \in Clients : completed'[d] = IF d = curr.id THEN x ELSE completed[d]
  BY PostIs
<1>4. curr.id \in Clients /\ NoPacket.id \notin Clients
  BY PostIs, NoPacketIs
<1>5. PlacesOK(queue', pendingVec', curr', completed', client')
  BY <1>1, <1>2, <1>3, <1>4 DEF PlacesOK
<1>6. completed' = [d \in Clients |-> completed'[d]]
  BY <1>1, PostIs
<1> QED BY <1>2, <1>5, <1>6 DEF PlacesInv

LEMMA StopPlaces == ASSUME HostInv, PlacesInv, WorkerStop PROVE PlacesInv'
<1>1. curr = NoPacket /\ curr' = NoPacket /\ NoPacket.id \notin Clients
  BY ClientsAssumption DEF PlacesInv, WorkerStop, NoPacket
<1>2. /\ queue' = <<>> /\ pendingVec' = <<>> /\ completed' = [c \in Clients |-> NoResult]
      /\ client' = [c \in Clients |-> "idle"] /\ workerPc' = "done"
  BY DEF WorkerStop
<1>3. PlacesOK(queue', pendingVec', curr', completed', client')
  BY <1>1, <1>2, EmptyPlaces DEF PlacesOK
<1> QED BY <1>1, <1>2, <1>3 DEF PlacesInv

\* A step that moves no packet: the program counters, the flag and the locks.
PlacesStay ==
    /\ UNCHANGED <<queue, pendingVec, curr, completed>>
    /\ workerPc \in {"handle", "post", "posting"} <=> workerPc' \in {"handle", "post", "posting"}
    /\ \A c \in Clients : client'[c] = "idle" <=> client[c] = "idle"

LEMMA StayPlaces == ASSUME PlacesInv, PlacesStay PROVE PlacesInv'
BY DEF PlacesInv, PlacesOK, PlacesStay

LEMMA AcceptedStays == ASSUME HostInv, NEW c \in Clients, Accepted(c) PROVE PlacesStay
BY DEF HostInv, ThreadTypeOK, Accepted, queueVars, lockVars, PlacesStay

LEMMA QuietStays ==
    ASSUME HostInv, CpuStep \/ RequestStop \/ WorkerWait \/ WorkerGoOn \/ WorkerLock \/ WorkerEmpty \/ WorkerPostLock
                    \/ UNCHANGED hostVars
    PROVE  PlacesStay /\ UNCHANGED <<vars, client>>
           /\ (workerPc \in {"post", "posting"} <=> workerPc' \in {"post", "posting"})
BY DEF HostInv, CpuStep, RequestStop, WorkerWait, WorkerGoOn, WorkerLock, WorkerEmpty, WorkerPostLock,
       SetPendingIo, Notify, Unlock, StopLock, Join, hostVars, threadVars, queueVars, lockVars, PlacesStay

LEMMA RestartStays ==
    ASSUME HostInv, Restart
    PROVE  PlacesStay /\ UNCHANGED client
           /\ (workerPc \in {"post", "posting"} <=> workerPc' \in {"post", "posting"})
BY DEF HostInv, JoinedIsDone, Restart, queueVars, lockVars, PlacesStay

LEMMA HandleStays == ASSUME HostInv, WorkerHandle PROVE PlacesStay /\ UNCHANGED client
BY DEF WorkerHandle, queueVars, lockVars, PlacesStay

LEMMA PlacesNext == ASSUME HostInv, PlacesInv, [HostNext]_hostVars PROVE PlacesInv'
BY SubmitPlaces, FlushPlaces, QueryPlaces, PopPlaces, PostPlaces, StopPlaces, StayPlaces, AcceptedStays,
   QuietStays, RestartStays, HandleStays DEF HostNext, Guest, Worker

\* IoService takes the handlers, the requests and the life of the map from the
\* same module, and its copies of them are the operators used here.
LEMMA SameHandle == ASSUME NEW r PROVE Service!Handle(r) <=> Handle(r)
  BY DEF AccessGranted, AddToMap, Aligned, Appended, BytesRead, Close, DevHandles, Devs, Emplace, Find,
         FirstFree, Flushed, Handle, HostHas, NoDirent, NoFile, NoPath, NoSize, NotOpened, OpenCreate, OpenDisc,
         OpenExisting, OpenHdd, OpenLost, OpenNotFound, OpenOverwrite, OpenRoot, OpenSearchFails, Opened,
         Overwritten, Read, Readable, RemoveFile, Reply, Root, UnknownHandle, WriteFile, WriteRaw, ZeroInfo,
         created, exists, not_exists, opened, overwritten, superseded, stored, fileVars, Full, HostMakes, NewSize,
         NewDirent, NeedsCluster, CreateDirent, WrittenBack, RawEffect, Service!stored, Service!fileVars, Service!Full,
         Service!HostMakes, Service!NewSize, Service!NewDirent, Service!NeedsCluster, Service!CreateDirent,
         Service!WrittenBack, Service!RawEffect, Service!AccessGranted, Service!AddToMap,
         Service!Aligned, Service!Appended, Service!BytesRead, Service!Close, Service!DevHandles, Service!Devs,
         Service!Emplace, Service!Find, Service!FirstFree, Service!Flushed, Service!Handle, Service!HostHas,
         Service!NoDirent, Service!NoFile, Service!NoPath, Service!NoSize, Service!NotOpened, Service!OpenCreate,
         Service!OpenDisc, Service!OpenExisting, Service!OpenHdd, Service!OpenLost, Service!OpenNotFound,
         Service!OpenOverwrite, Service!OpenRoot, Service!OpenSearchFails, Service!Opened, Service!Overwritten,
         Service!Read, Service!Readable, Service!RemoveFile, Service!Reply, Service!Root, Service!UnknownHandle,
         Service!WriteFile, Service!WriteRaw, Service!ZeroInfo, Service!created, Service!exists,
         Service!not_exists, Service!opened, Service!overwritten, Service!superseded

LEMMA SameGuestLearns == ASSUME NEW r, NEW x PROVE Service!GuestLearns(r, x) <=> GuestLearns(r, x)
  BY DEF GuestLearns, NoPath, Service!GuestLearns, Service!NoPath

LEMMA SameIndependent == ASSUME NEW r, NEW x PROVE Service!Independent(r, x) <=> Independent(r, x)
  BY DEF DevHandles, Devs, Independent, NoPath, Target, Service!DevHandles, Service!Devs, Service!Independent,
         Service!NoPath, Service!Target

LEMMA SameGuestRequests == Service!GuestRequests = GuestRequests
  BY DEF DevOf, DeviceTargets, Devs, FreeHandles, GuestCloses, GuestOpens, GuestRemoves, GuestRequests,
         GuestTransfers, HandlesFor, Held, Holders, NoPath, Root, StrayTargets, Targets, Service!DevOf,
         Service!DeviceTargets, Service!Devs, Service!FreeHandles, Service!GuestCloses, Service!GuestOpens,
         Service!GuestRemoves, Service!GuestRequests, Service!GuestTransfers, Service!HandlesFor, Service!Held,
         Service!Holders, Service!NoPath, Service!Root, Service!StrayTargets, Service!Targets

LEMMA SameStop == Service!Stop <=> Stop
  BY DEF AllHandles, DevHandles, Devs, Flushed, NoDirent, NoFile, NoPath, Opened, Root, Running, Stop, StopFiles,
         ZeroInfo, CachedAt, FlushedAt, WrittenBack, Service!AllHandles, Service!DevHandles, Service!Devs,
         Service!Flushed, Service!NoDirent, Service!NoFile, Service!NoPath, Service!Opened, Service!Root,
         Service!Running, Service!Stop, Service!StopFiles, Service!ZeroInfo, Service!CachedAt, Service!FlushedAt,
         Service!WrittenBack

LEMMA SameStart == Service!Start <=> Start
  BY DEF AllHandles, DevHandles, DeviceMap, DeviceObject, Devs, NoFile, Opened, Running, Start, guestVars, stored, Service!stored,
         Service!AllHandles, Service!DevHandles, Service!DeviceMap, Service!DeviceObject, Service!Devs,
         Service!NoFile, Service!Opened, Service!Running, Service!Start, Service!guestVars

LEMMA SameInit == Service!Init <=> Init
  BY DEF AllHandles, DevHandles, DeviceMap, DeviceObject, Devs, Init, NoDirent, NoFile, NoPath, NoSize, Root,
         ZeroInfo, Service!AllHandles, Service!DevHandles, Service!DeviceMap, Service!DeviceObject, Service!Devs,
         Service!Init, Service!NoDirent, Service!NoFile, Service!NoPath, Service!NoSize, Service!Root,
         Service!ZeroInfo

\* The variables of the abstract service, as the threads show them.
PhaseNow == [c \in Clients |-> IF client[c] = "idle" THEN "idle" ELSE IF Handled(c) THEN "served" ELSE "submitted"]
RequestNow == [c \in Clients |-> RequestOf(c)]
ResultNow == [c \in Clients |-> IF completed[c] # NoResult THEN completed[c].info
                                ELSE IF Handled(c) THEN info ELSE ZeroInfo]
ServiceUnchanged == UNCHANGED <<vars, PhaseNow, RequestNow, ResultNow>>

\* What the step does to each abstract variable, and so which abstract step it is.
LEMMA SubmitStep ==
    ASSUME NEW c \in Clients, NEW r \in GuestRequests,
           PhaseNow[c] = "idle", Independent(r, {RequestNow[d] : d \in {e \in Clients : PhaseNow[e] # "idle"}}),
           PhaseNow' = [PhaseNow EXCEPT ![c] = "submitted"], RequestNow' = [RequestNow EXCEPT ![c] = r],
           ResultNow' = ResultNow, UNCHANGED vars
    PROVE  Service!ServiceNext
<1>1. Service!Independent(r, {RequestNow[d] : d \in {e \in Clients : PhaseNow[e] # "idle"}})
  BY SameIndependent
<1>2. Service!Submit(c, r)
  BY <1>1 DEF Service!Submit, PhaseNow, RequestNow, ResultNow, vars, fileVars, stored, guestVars,
     Service!vars, Service!fileVars, Service!stored, Service!guestVars
<1> QED BY <1>2, SameGuestRequests DEF Service!ServiceNext

LEMMA ExecuteStep ==
    ASSUME NEW c \in Clients,
           PhaseNow[c] = "submitted", Handle(RequestNow[c]),
           PhaseNow' = [PhaseNow EXCEPT ![c] = "served"], RequestNow' = RequestNow,
           ResultNow' = [ResultNow EXCEPT ![c] = info'], UNCHANGED guestVars
    PROVE  Service!ServiceNext
<1>1. Service!Handle(RequestNow[c])
  BY SameHandle
<1>2. Service!Execute(c)
  BY <1>1 DEF Service!Execute, PhaseNow, RequestNow, ResultNow, guestVars, Service!guestVars
<1> QED BY <1>2 DEF Service!ServiceNext

LEMMA AnswerStep ==
    ASSUME NEW c \in Clients,
           PhaseNow[c] = "served", GuestLearns(RequestNow[c], ResultNow[c]),
           PhaseNow' = [PhaseNow EXCEPT ![c] = "idle"], RequestNow' = [RequestNow EXCEPT ![c] = NoRequest],
           ResultNow' = [ResultNow EXCEPT ![c] = ZeroInfo], UNCHANGED <<fileVars, info>>
    PROVE  Service!ServiceNext
<1>1. Service!GuestLearns(RequestNow[c], ResultNow[c])
  BY SameGuestLearns
<1>2. Service!ZeroInfo = ZeroInfo
  BY DEF ZeroInfo, Service!ZeroInfo
<1>3. Service!Answer(c)
  BY <1>1, <1>2 DEF Service!Answer, PhaseNow, RequestNow, ResultNow, fileVars, stored, Service!fileVars, Service!stored
<1> QED BY <1>3 DEF Service!ServiceNext

LEMMA StopStep ==
    ASSUME Stop, PhaseNow' = [c \in Clients |-> "idle"], RequestNow' = [c \in Clients |-> NoRequest],
           ResultNow' = [c \in Clients |-> ZeroInfo]
    PROVE  Service!ServiceNext
<1>1. Service!Stop /\ Service!ZeroInfo = ZeroInfo
  BY SameStop DEF ZeroInfo, Service!ZeroInfo
<1>2. Service!ServiceStop
  BY <1>1 DEF Service!ServiceStop, PhaseNow, RequestNow, ResultNow
<1> QED BY <1>2 DEF Service!ServiceNext

LEMMA StartStep ==
    ASSUME Start, UNCHANGED <<PhaseNow, RequestNow, ResultNow>>
    PROVE  Service!ServiceNext
<1>1. Service!Start
  BY SameStart
<1>2. Service!ServiceStart
  BY <1>1 DEF Service!ServiceStart, Service!serviceVars, PhaseNow, RequestNow, ResultNow
<1> QED BY <1>2 DEF Service!ServiceNext

LEMMA ServiceStutters ==
    ASSUME ServiceUnchanged PROVE UNCHANGED <<Service!vars, Service!serviceVars>>
BY DEF ServiceUnchanged, stored, Service!stored, Service!vars, Service!fileVars, Service!guestVars, Service!serviceVars,
       vars, fileVars, guestVars, PhaseNow, RequestNow, ResultNow

\* The requests and the handled packets of the threads that a step leaves alone.
LEMMA RequestsStay == ASSUME PlacesInv, PlacesInv', PlacesStay PROVE RequestNow' = RequestNow
<1>1. \A c \in Clients : RequestOf(c)' = RequestOf(c)
  <2> SUFFICES ASSUME NEW c \in Clients PROVE RequestOf(c)' = RequestOf(c)
    OBVIOUS
  <2>1. client'[c] = "idle" <=> client[c] = "idle"
    BY DEF PlacesStay
  <2>2. \A r : HasIn(c, r, queue, pendingVec, curr, completed)
                 => HasIn(c, r, queue', pendingVec', curr', completed')
    BY DEF PlacesStay
  <2> QED BY <2>1, <2>2, RequestKept
<1> QED BY <1>1 DEF RequestNow

LEMMA QuietMaps ==
    ASSUME PlacesInv, PlacesInv', PlacesStay, UNCHANGED info,
           workerPc \in {"post", "posting"} <=> workerPc' \in {"post", "posting"}
    PROVE  UNCHANGED <<PhaseNow, RequestNow, ResultNow>>
<1>1. \A c \in Clients : Handled(c)' <=> Handled(c)
  BY DEF Handled, PlacesStay
<1>2. PhaseNow' = PhaseNow
  BY <1>1 DEF PhaseNow, PlacesStay
<1>3. ResultNow' = ResultNow
  BY <1>1 DEF ResultNow, PlacesStay, ZeroInfo
<1> QED BY <1>2, <1>3, RequestsStay

\* IO_START is the submission of the abstract service.
LEMMA SubmitMaps ==
    ASSUME HostInv, PlacesInv, PlacesInv', NEW c \in Clients, Submit(c) PROVE Service!ServiceNext
<1>1. PICK r \in GuestRequests : Independent(r, InFlight) /\ (Enqueue(c, r) \/ PutAside(c, r))
  BY DEF Submit
<1>2. PICK p \in Packets : p = PacketOf(c, r)
  BY <1>1, GuestRequestsTyped DEF PacketOf, Packets
<1>3. p.id = c /\ p.req = r
  BY <1>2 DEF PacketOf
<1>4. queue \in Seq(Packets) /\ pendingVec \in Seq(Packets) /\ client \in [Clients -> {"idle", "retry", "poll"}]
  BY DEF HostInv, ThreadTypeOK
<1>5. PlacesOK(queue, pendingVec, curr, completed, client) /\ client[c] = "idle"
  BY DEF PlacesInv, Submit
<1>6. /\ client' = [client EXCEPT ![c] = "retry"] /\ UNCHANGED vars
      /\ completed' = completed /\ curr' = curr /\ workerPc' = workerPc
  BY DEF Submit
<1>7. /\ \A d, s : Carries(d, s, queue) => Carries(d, s, queue')
      /\ \A d, s : Carries(d, s, pendingVec) => Carries(d, s, pendingVec')
      /\ Carries(c, r, queue') \/ Carries(c, r, pendingVec')
  <2>1. CASE Enqueue(c, r)
    <3>1. queue' = Append(queue, p) /\ pendingVec' = pendingVec
      BY <1>2, <2>1 DEF Enqueue
    <3> QED BY <1>3, <1>4, <3>1, AppendPlaces
  <2>2. CASE PutAside(c, r)
    <3>1. pendingVec' = Append(pendingVec, p) /\ queue' = queue
      BY <1>2, <2>2 DEF PutAside
    <3> QED BY <1>3, <1>4, <3>1, AppendPlaces
  <2> QED BY <1>1, <2>1, <2>2
<1>8. \A d \in Clients : RequestOf(d)' = IF d = c THEN r ELSE RequestOf(d)
  <2>1. (PlacesInv => RequestsFollow)'
    BY RequestIs, PTL
  <2>2. HasIn(c, r, queue', pendingVec', curr', completed')
    BY <1>7 DEF HasIn
  <2>3. RequestOf(c)' = r
    BY <2>1, <2>2 DEF RequestsFollow
  <2>4. ASSUME NEW d \in Clients, d # c PROVE RequestOf(d)' = RequestOf(d)
    <3>1. client'[d] = client[d]
      BY <1>4, <1>6, <2>4
    <3>2. \A s : HasIn(d, s, queue, pendingVec, curr, completed)
                   => HasIn(d, s, queue', pendingVec', curr', completed')
      BY <1>6, <1>7 DEF HasIn
    <3> QED BY <3>1, <3>2, RequestKept
  <2> QED BY <2>3, <2>4
<1>9. RequestNow' = [RequestNow EXCEPT ![c] = r]
  BY <1>8 DEF RequestNow
<1>10. \A d \in Clients : Handled(d)' <=> Handled(d)
  BY <1>6 DEF Handled
<1>11. ~Handled(c)
  BY <1>5 DEF Handled, PlacesOK
<1>12. PhaseNow' = [PhaseNow EXCEPT ![c] = "submitted"]
  BY <1>4, <1>6, <1>10, <1>11 DEF PhaseNow
<1>13. ResultNow' = ResultNow
  BY <1>6, <1>10 DEF ResultNow, ZeroInfo, vars
<1>14. PhaseNow[c] = "idle"
  BY <1>5 DEF PhaseNow
<1>15. \A d \in Clients : PhaseNow[d] # "idle" => RequestNow[d] \in InFlight
  BY RequestInFlight DEF PhaseNow, RequestNow
<1>16. Independent(r, {RequestNow[d] : d \in {e \in Clients : PhaseNow[e] # "idle"}})
  BY <1>1, <1>15 DEF Independent
<1> QED BY <1>6, <1>9, <1>12, <1>13, <1>14, <1>16, SubmitStep

\* The handler of the worker is the execution of the abstract service.
LEMMA HandleMaps ==
    ASSUME HostInv, PlacesInv, PlacesInv', WorkerHandle PROVE Service!ServiceNext
<1>1. PICK c \in Clients : c = curr.id
  <2>1. curr # NoPacket
    BY DEF PlacesInv, WorkerHandle
  <2>2. curr \in Packets
    BY <2>1 DEF HostInv, ThreadTypeOK
  <2> QED BY <2>2, NoPacketIs
<1>2. PlacesOK(queue, pendingVec, curr, completed, client)
  BY DEF PlacesInv
<1>3. client[c] # "idle" /\ completed[c] = NoResult
  BY <1>1, <1>2 DEF PlacesOK
<1>4. RequestNow[c] = curr.req
  BY <1>1 DEF RequestNow, RequestOf
<1>5. /\ workerPc = "handle" /\ workerPc' = "post" /\ curr' = curr /\ completed' = completed /\ client' = client
      /\ Handle(curr.req) /\ UNCHANGED guestVars
  BY DEF WorkerHandle
<1>6. /\ \A d \in Clients : d # c => (Handled(d)' <=> Handled(d))
      /\ ~Handled(c) /\ Handled(c)'
      /\ \A d \in Clients : d # c /\ Handled(d) => completed[d] # NoResult
  BY <1>1, <1>3, <1>5 DEF Handled
<1>7. PhaseNow' = [PhaseNow EXCEPT ![c] = "served"] /\ PhaseNow[c] = "submitted"
  BY <1>3, <1>5, <1>6 DEF PhaseNow
<1>8. ResultNow' = [ResultNow EXCEPT ![c] = info']
  BY <1>3, <1>5, <1>6 DEF ResultNow, ZeroInfo
<1>9. RequestNow' = RequestNow
  BY HandleStays, RequestsStay
<1> QED BY <1>4, <1>5, <1>7, <1>8, <1>9, ExecuteStep

\* IO_QUERY is the answer of the abstract service.
LEMMA QueryMaps ==
    ASSUME HostInv, PlacesInv, PlacesInv', NEW c \in Clients, Query(c) PROVE Service!ServiceNext
<1>1. PlacesOK(queue, pendingVec, curr, completed, client) /\ completed = [d \in Clients |-> completed[d]]
  BY DEF PlacesInv
<1>2. client \in [Clients -> {"idle", "retry", "poll"}] /\ client[c] = "poll"
  BY DEF HostInv, ThreadTypeOK, Query
<1>3. /\ completed' = [completed EXCEPT ![c] = NoResult] /\ client' = [client EXCEPT ![c] = "idle"]
      /\ queue' = queue /\ pendingVec' = pendingVec /\ curr' = curr /\ workerPc' = workerPc
      /\ completed[c] # NoResult /\ UNCHANGED <<fileVars, info>>
      /\ GuestLearns(completed[c].req, completed[c].info)
  BY DEF Query, queueVars
<1>4. \A d \in Clients : completed'[d] = IF d = c THEN NoResult ELSE completed[d]
  BY <1>1, <1>3
<1>5. \A d \in Clients : client'[d] = IF d = c THEN "idle" ELSE client[d]
  BY <1>2, <1>3
<1>6. curr.id # c
  BY <1>1, <1>3 DEF PlacesOK
<1>7. /\ \A d \in Clients : d # c => (Handled(d)' <=> Handled(d))
      /\ Handled(c) /\ ~Handled(c)'
  BY <1>3, <1>4, <1>6 DEF Handled
<1>8. \A d \in Clients : RequestOf(d)' = IF d = c THEN NoRequest ELSE RequestOf(d)
  <2>1. (PlacesInv => RequestsFollow)'
    BY RequestIs, PTL
  <2>2. RequestOf(c)' = NoRequest
    BY <1>5, <2>1 DEF RequestsFollow
  <2>3. ASSUME NEW d \in Clients, d # c PROVE RequestOf(d)' = RequestOf(d)
    <3>1. client'[d] = client[d]
      BY <1>5, <2>3
    <3>2. \A s : HasIn(d, s, queue, pendingVec, curr, completed)
                   => HasIn(d, s, queue', pendingVec', curr', completed')
      BY <1>3, <1>4, <2>3 DEF HasIn
    <3> QED BY <3>1, <3>2, RequestKept
  <2> QED BY <2>2, <2>3
<1>9. RequestNow' = [RequestNow EXCEPT ![c] = NoRequest]
  BY <1>8 DEF RequestNow
<1>10. PhaseNow' = [PhaseNow EXCEPT ![c] = "idle"] /\ PhaseNow[c] = "served"
  BY <1>2, <1>5, <1>7 DEF PhaseNow
<1>11. ResultNow' = [ResultNow EXCEPT ![c] = ZeroInfo] /\ ResultNow[c] = completed[c].info
  <2>1. ResultNow[c] = completed[c].info
    BY <1>3 DEF ResultNow
  <2>2. (completed[c] # NoResult)' <=> FALSE
    BY <1>4
  <2>3. \A d \in Clients : d # c => completed'[d] = completed[d]
    BY <1>4
  <2>4. \A d \in Clients : ResultNow'[d] = IF d = c THEN ZeroInfo ELSE ResultNow[d]
    BY <1>3, <1>7, <2>2, <2>3 DEF ResultNow, ZeroInfo
  <2>5. ResultNow' = [d \in Clients |-> ResultNow'[d]]
    BY DEF ResultNow
  <2>6. ResultNow = [d \in Clients |-> ResultNow[d]]
    BY DEF ResultNow
  <2> QED BY <2>1, <2>4, <2>5, <2>6
<1>12. RequestNow[c] = completed[c].req
  BY <1>3, <1>6 DEF RequestNow, RequestOf
<1> QED BY <1>3, <1>9, <1>10, <1>11, <1>12, AnswerStep

\* IO_RETRY, the pop and the post move a packet, which the guest does not see.
LEMMA FlushMaps ==
    ASSUME HostInv, PlacesInv, PlacesInv', NEW c \in Clients, FlushPending(c) PROVE ServiceUnchanged
<1>1. queue \in Seq(Packets) /\ pendingVec \in Seq(Packets)
  BY DEF HostInv, ThreadTypeOK
<1>2. /\ queue' = queue \o pendingVec /\ pendingVec' = <<>> /\ UNCHANGED vars
      /\ client' = client /\ completed' = completed /\ curr' = curr /\ workerPc' = workerPc
  BY DEF FlushPending
<1>3. \A d \in Clients : RequestOf(d)' = RequestOf(d)
  <2> SUFFICES ASSUME NEW d \in Clients PROVE RequestOf(d)' = RequestOf(d)
    OBVIOUS
  <2>1. \A s : HasIn(d, s, queue, pendingVec, curr, completed)
                 => HasIn(d, s, queue', pendingVec', curr', completed')
    BY <1>1, <1>2, ConcatPlaces DEF HasIn
  <2> QED BY <1>2, <2>1, RequestKept
<1>4. \A d \in Clients : Handled(d)' <=> Handled(d)
  BY <1>2 DEF Handled
<1> QED BY <1>2, <1>3, <1>4 DEF ServiceUnchanged, PhaseNow, RequestNow, ResultNow, ZeroInfo, vars

LEMMA PopMaps ==
    ASSUME HostInv, PlacesInv, PlacesInv', WorkerPop PROVE ServiceUnchanged
<1>1. queue \in Seq(Packets) /\ queue # <<>>
  BY DEF HostInv, ThreadTypeOK, WorkerPop
<1>2. curr = NoPacket /\ NoPacket.id \notin Clients
  BY ClientsAssumption DEF PlacesInv, WorkerPop, NoPacket
<1>3. /\ curr' = Head(queue) /\ queue' = Tail(queue) /\ workerPc' = "handle" /\ workerPc = "locked" /\ UNCHANGED vars
      /\ client' = client /\ completed' = completed /\ pendingVec' = pendingVec
  BY DEF WorkerPop
<1>4. \A d \in Clients : RequestOf(d)' = RequestOf(d)
  <2> SUFFICES ASSUME NEW d \in Clients PROVE RequestOf(d)' = RequestOf(d)
    OBVIOUS
  <2>1. \A s : Carries(d, s, queue) => Carries(d, s, queue') \/ (d = curr'.id /\ s = curr'.req)
    BY <1>1, <1>3, TailPlaces
  <2>2. \A s : HasIn(d, s, queue, pendingVec, curr, completed)
                 => HasIn(d, s, queue', pendingVec', curr', completed')
    BY <1>2, <1>3, <2>1 DEF HasIn
  <2> QED BY <1>3, <2>2, RequestKept
<1>5. \A d \in Clients : Handled(d)' <=> Handled(d)
  BY <1>3 DEF Handled
<1> QED BY <1>3, <1>4, <1>5 DEF ServiceUnchanged, PhaseNow, RequestNow, ResultNow, ZeroInfo, vars

LEMMA PostMaps ==
    ASSUME HostInv, PlacesInv, PlacesInv', WorkerPost PROVE ServiceUnchanged
<1>1. PICK x : /\ x # NoResult /\ x.req = curr.req /\ x.info = info
               /\ \A d \in Clients : completed'[d] = IF d = curr.id THEN x ELSE completed[d]
  BY PostIs
<1>2. /\ curr' = NoPacket /\ workerPc' = "wait" /\ workerPc = "posting" /\ UNCHANGED vars
      /\ queue' = queue /\ pendingVec' = pendingVec /\ client' = client
  BY DEF WorkerPost, queueVars
<1>3. curr.id \in Clients /\ NoPacket.id \notin Clients /\ completed[curr.id] = NoResult
  BY PostIs, NoPacketIs
<1>4. \A d \in Clients : RequestOf(d)' = RequestOf(d)
  <2> SUFFICES ASSUME NEW d \in Clients PROVE RequestOf(d)' = RequestOf(d)
    OBVIOUS
  <2>1. \A s : HasIn(d, s, queue, pendingVec, curr, completed)
                 => HasIn(d, s, queue', pendingVec', curr', completed')
    BY <1>1, <1>2, <1>3 DEF HasIn
  <2> QED BY <1>2, <2>1, RequestKept
<1>5. \A d \in Clients : Handled(d)' <=> Handled(d)
  BY <1>1, <1>2, <1>3 DEF Handled
<1>6. PhaseNow' = PhaseNow /\ RequestNow' = RequestNow
  BY <1>2, <1>4, <1>5 DEF PhaseNow, RequestNow
<1>7. ResultNow' = ResultNow
  BY <1>1, <1>2, <1>3, <1>5 DEF ResultNow, Handled, ZeroInfo, vars
<1> QED BY <1>2, <1>6, <1>7 DEF ServiceUnchanged

LEMMA StopMaps ==
    ASSUME HostInv, PlacesInv, PlacesInv', WorkerStop PROVE Service!ServiceNext
<1>1. /\ Stop /\ completed' = [c \in Clients |-> NoResult] /\ client' = [c \in Clients |-> "idle"] /\ workerPc' = "done"
  BY DEF WorkerStop
<1>2. (PlacesInv => RequestsFollow)'
  BY RequestIs, PTL
<1>3. \A c \in Clients : client'[c] = "idle" /\ completed'[c] = NoResult /\ ~Handled(c)'
  BY <1>1 DEF Handled
<1>4. PhaseNow' = [c \in Clients |-> "idle"]
  BY <1>3 DEF PhaseNow
<1>5. RequestNow' = [c \in Clients |-> NoRequest]
  BY <1>2, <1>3 DEF RequestNow, RequestsFollow
<1>6. ResultNow' = [c \in Clients |-> ZeroInfo]
  BY <1>3 DEF ResultNow, ZeroInfo
<1> QED BY <1>1, <1>4, <1>5, <1>6, StopStep

LEMMA RestartMaps ==
    ASSUME HostInv, PlacesInv, PlacesInv', Restart PROVE Service!ServiceNext
<1>1. Start
  BY DEF Restart
<1>2. UNCHANGED info
  BY <1>1 DEF Start
<1>3. UNCHANGED <<PhaseNow, RequestNow, ResultNow>>
  BY <1>2, RestartStays, QuietMaps
<1> QED BY <1>1, <1>3, StartStep

LEMMA AcceptedMaps ==
    ASSUME HostInv, PlacesInv, PlacesInv', NEW c \in Clients, Accepted(c) PROVE ServiceUnchanged
<1>1. PlacesStay
  BY AcceptedStays
<1>2. UNCHANGED vars /\ workerPc' = workerPc
  BY DEF Accepted
<1> QED BY <1>1, <1>2, QuietMaps DEF ServiceUnchanged, vars

LEMMA HostStepMaps ==
    ASSUME HostInv, PlacesInv, PlacesInv', [HostNext]_hostVars
    PROVE  Service!ServiceNext \/ ServiceUnchanged
<1>1. ASSUME CpuStep \/ RequestStop \/ WorkerWait \/ WorkerGoOn \/ WorkerLock \/ WorkerEmpty \/ WorkerPostLock
             \/ UNCHANGED hostVars
      PROVE  ServiceUnchanged
  <2>1. PlacesStay /\ UNCHANGED vars /\ (workerPc \in {"post", "posting"} <=> workerPc' \in {"post", "posting"})
    BY <1>1, QuietStays
  <2>2. UNCHANGED info
    BY <2>1 DEF vars
  <2> QED BY <2>1, <2>2, QuietMaps DEF ServiceUnchanged
<1> QED BY <1>1, SubmitMaps, AcceptedMaps, FlushMaps, QueryMaps, PopMaps, HandleMaps, PostMaps, StopMaps, RestartMaps
        DEF HostNext, Guest, Worker

LEMMA HostInitMaps == ASSUME HostInit, PlacesInv PROVE Service!ServiceInit
<1>1. Service!Init /\ Service!ZeroInfo = ZeroInfo
  BY SameInit DEF HostInit, ZeroInfo, Service!ZeroInfo
<1>2. \A c \in Clients : client[c] = "idle" /\ completed[c] = NoResult /\ ~Handled(c)
  BY DEF HostInit, Handled
<1>3. PhaseNow = [c \in Clients |-> "idle"]
  BY <1>2 DEF PhaseNow
<1>4. RequestNow = [c \in Clients |-> NoRequest]
  BY <1>2, RequestIs DEF RequestNow, RequestsFollow
<1>5. ResultNow = [c \in Clients |-> ZeroInfo]
  BY <1>2 DEF ResultNow, ZeroInfo
<1> QED BY <1>1, <1>3, <1>4, <1>5 DEF Service!ServiceInit, PhaseNow, RequestNow, ResultNow

\* The packet of a thread is in exactly one place: put aside, in the queue, in
\* the worker or among the posted, and an idle thread has none anywhere.
THEOREM PacketsHavePlaces == HostSpec => []PlacesInv
<1>1. HostInit => PlacesInv
  BY PlacesInit
<1>2. HostInv /\ PlacesInv /\ [HostNext]_hostVars => PlacesInv'
  BY PlacesNext
<1> QED BY <1>1, <1>2, InvHolds, PTL DEF HostSpec

\* However many guest threads there are, the queue, the list of packets put
\* aside, the two locks and the worker (io.cpp, kernel.cpp) handle every packet
\* exactly once between its submission and its answer, and the guest is
\* answered with what that handling produced.
THEOREM ServiceImplemented == HostSpec => ImplementsService
<1>1. HostInit /\ PlacesInv => Service!ServiceInit
  BY HostInitMaps
<1>2. HostInv /\ PlacesInv /\ PlacesInv' /\ [HostNext]_hostVars
      => [Service!ServiceNext]_<<Service!vars, Service!serviceVars>>
  BY HostStepMaps, ServiceStutters
<1> QED BY <1>1, <1>2, InvHolds, PacketsHavePlaces, PTL DEF HostSpec, ImplementsService, Service!ServiceSpec
=============================================================================
