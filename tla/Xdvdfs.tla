-------------------------------- MODULE Xdvdfs --------------------------------
(***************************************************************************)
(* Discs (fs/xdvdfs.cpp): an image is validated, and a path is looked up   *)
(* in its directories.  A directory is a binary search tree of entries,    *)
(* stored at the sector of the directory.                                  *)
(*                                                                         *)
(* The driver reads an image that has a game partition (redump) at the     *)
(* offsets of one that has not: the offset it found goes to the name, and  *)
(* m_xiso_offset stays zero.  What it reads there is not the game's.       *)
(***************************************************************************)
EXTENDS Naturals, Sequences, FiniteSets

CONSTANTS
    Images, \* the files that may be inserted
    Names,  \* names of files, in their order; 0 is below all
    Paths   \* paths the title opens, as sequences of names

Root == 1 \* the directory at the sector that the volume descriptor names

\* A search tree: the names on an entry's left are below its own, those on its right
\* above, and the tree of the first entry is the whole directory.  0 is the first
\* entry, and the number of a child that is not there.
Side(below, child) == IF child = 0 THEN {} ELSE below[child]
Grown(tree, below) ==
    /\ DOMAIN tree # {} => 0 \in DOMAIN tree /\ below[0] = DOMAIN tree
    /\ \A e \in DOMAIN tree :
         /\ \A child \in {tree[e].left, tree[e].right} \ {0} : child \in DOMAIN tree /\ child > e
         /\ below[e] = {e} \cup Side(below, tree[e].left) \cup Side(below, tree[e].right)
         /\ \A f \in Side(below, tree[e].left) : tree[f].name < tree[e].name
         /\ \A f \in Side(below, tree[e].right) : tree[f].name > tree[e].name
Sorted(tree) == \E below \in [DOMAIN tree -> SUBSET DOMAIN tree] : Grown(tree, below)

\* an image is the place of its volume descriptor, and for each directory the entries
\* by their places
ASSUME XdvdfsAssumption ==
    /\ Names \subseteq Nat /\ Paths \subseteq Seq(Names) \ {<<>>}
    /\ \A image \in Images :
         /\ image.volume \in {"start", "partition", "none"} /\ Root \in DOMAIN image.dirs
         /\ \A s \in DOMAIN image.dirs :
              /\ DOMAIN image.dirs[s] \subseteq Nat /\ Sorted(image.dirs[s])
              /\ \A e \in DOMAIN image.dirs[s] :
                   /\ image.dirs[s][e].name \in Names
                   /\ {image.dirs[s][e].left, image.dirs[s][e].right} \subseteq Nat
                   /\ image.dirs[s][e].isDir => image.dirs[s][e].sector \in DOMAIN image.dirs

VARIABLES
    disc,   \* the image, and whether it was validated
    lookup  \* a search_file: its directory, entry, names to come and its outcome

xvars == <<disc, lookup>>

NoLookup == [path |-> <<>>, rest |-> <<>>, sector |-> Root, offset |-> 0, outcome |-> "none", file |-> 0]

\* validate: at the start of the file, then where a game partition is
Insert(image) ==
    /\ lookup.outcome # "searching"
    /\ disc' = [image |-> image, valid |-> image.volume \in {"start", "partition"}]
    /\ lookup' = NoLookup

\* search_file: the root is found without a search (and is not modelled further)
Search(path) ==
    /\ disc.valid /\ lookup.outcome # "searching"
    /\ lookup' = [NoLookup EXCEPT !.path = path, !.rest = path, !.outcome = "searching"]
    /\ UNCHANGED disc

\* read_dirent
Readable(sector, offset) ==
    disc.image.volume = "start" /\ offset \in DOMAIN disc.image.dirs[sector]

\* Variant: the last entry of the level is not looked at.
DescendEarly(child) ==
    IF child <= lookup.offset + 1 THEN [lookup EXCEPT !.outcome = "absent"] ELSE [lookup EXCEPT !.offset = child]

\* the next entry on this level: children are behind their parents, or there are none
Descend(child) ==
    IF child <= lookup.offset THEN [lookup EXCEPT !.outcome = "absent"] ELSE [lookup EXCEPT !.offset = child]

\* the name was found: the end, or a directory to enter
Enter(entry) ==
    IF Len(lookup.rest) = 1 THEN [lookup EXCEPT !.outcome = "found", !.file = entry.sector]
    ELSE IF entry.isDir THEN [lookup EXCEPT !.rest = Tail(@), !.sector = entry.sector, !.offset = 0]
    ELSE [lookup EXCEPT !.outcome = "absent"]

\* one pass of the loop
SearchStep ==
    /\ lookup.outcome = "searching"
    /\ IF ~Readable(lookup.sector, lookup.offset) THEN lookup' = [lookup EXCEPT !.outcome = "absent"]
       ELSE LET entry == disc.image.dirs[lookup.sector][lookup.offset]
                name == Head(lookup.rest) IN
            lookup' = IF name < entry.name THEN Descend(entry.left)
                      ELSE IF name > entry.name THEN Descend(entry.right) ELSE Enter(entry)
    /\ UNCHANGED disc

DiscInit == disc = [image |-> CHOOSE image \in Images : TRUE, valid |-> FALSE] /\ lookup = NoLookup

DiscNext == (\E image \in Images : Insert(image)) \/ (\E path \in Paths : Search(path)) \/ SearchStep

-----------------------------------------------------------------------------
\* what a path means, whatever the trees look like: the directories it goes through
EntryOf(sector, name) == {e \in DOMAIN disc.image.dirs[sector] : disc.image.dirs[sector][e].name = name}
Named(sector, name) == disc.image.dirs[sector][CHOOSE e \in EntryOf(sector, name) : TRUE]
Walks(path) ==
    {walk \in [DOMAIN path -> DOMAIN disc.image.dirs] :
        /\ walk[1] = Root /\ \A i \in DOMAIN path : EntryOf(walk[i], path[i]) # {}
        /\ \A i \in 1 .. Len(path) - 1 : LET entry == Named(walk[i], path[i]) IN entry.isDir /\ walk[i + 1] = entry.sector}
Resolves(path) == {Named(walk[Len(path)], path[Len(path)]).sector : walk \in Walks(path)}

\* A search ends with the file its path names, or with none if there is none, in every
\* shape of the trees; of an image with a game partition it finds nothing.
SearchFinds ==
    /\ lookup.outcome = "found" => lookup.file \in Resolves(lookup.path)
    /\ lookup.outcome = "absent" /\ disc.image.volume = "start" => Resolves(lookup.path) = {}

\* Refuted: validate says of an image with a game partition that it was detected
\* (xdvdfs.cpp:75), and its files are found.
PartitionIsRead == lookup.outcome = "absent" => Resolves(lookup.path) = {}
=============================================================================
