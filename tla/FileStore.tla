------------------------------ MODULE FileStore ------------------------------
(***************************************************************************)
(* What the partition promises to the guest: a set of named files with     *)
(* attributes and a size.  Creating and overwriting a file are stored at   *)
(* once; growing and removing one take effect at once, and are stored when *)
(* the file is closed or the emulator stops.  If the host can fail, that   *)
(* last write may be lost without a word, and a file that could not be     *)
(* made may be there all the same.  Opening, reading and starting again    *)
(* change no file.  There is no handle map and no slot here.               *)
(***************************************************************************)
EXTENDS Naturals

CONSTANTS
    Names, Handles, MaxSize, Absent, None,
    MayFail, \* can the host fail?
    Reopens  \* can a file be opened, and overwritten, while it is open?

VARIABLES
    meta,    \* the attributes and size of a name that the guest sees
    kept,    \* those that are stored
    openAs,  \* the file a handle is bound to
    intact   \* nothing went past the files to what is stored

Meta == [attrs : SUBSET {"dir", "ro"}, size : 0 .. MaxSize]
IsOpen(n) == \E h \in Handles : openAs[h] = n

Init ==
    /\ meta = [n \in Names |-> Absent] /\ kept = meta
    /\ openAs = [h \in Handles |-> None]
    /\ intact = TRUE

\* a handle is bound to a file, which may have been made or made anew by it
OpenFile(h, n) ==
    /\ openAs[h] = None /\ ~IsOpen(n)
    /\ openAs' = [openAs EXCEPT ![h] = n]
    /\ \/ meta[n] # Absent /\ UNCHANGED <<meta, kept>>
       \/ \E m \in Meta : meta' = [meta EXCEPT ![n] = m] /\ kept' = [kept EXCEPT ![n] = m]

\* the handle is given once more, and what is stored made anew unseen
OpenAgain(h) ==
    /\ Reopens /\ openAs[h] # None
    /\ \E m \in Meta : kept' = [kept EXCEPT ![openAs[h]] = m]
    /\ UNCHANGED <<meta, openAs>>

\* writing can only make a file longer, and keeps its attributes
Grow(h) ==
    /\ openAs[h] # None /\ meta[openAs[h]] # Absent
    /\ \E size \in meta[openAs[h]].size .. MaxSize :
           meta' = [meta EXCEPT ![openAs[h]].size = size]
    /\ UNCHANGED <<kept, openAs>>

\* the name is gone at once, although the handle stays open
RemoveName(h) ==
    /\ openAs[h] # None
    /\ meta' = [meta EXCEPT ![openAs[h]] = Absent]
    /\ UNCHANGED <<kept, openAs>>

\* what a name has once its file was written back
After(n) == {meta[n]} \cup IF MayFail THEN {kept[n]} ELSE {}

CloseFile(h) ==
    /\ openAs[h] # None
    /\ openAs' = [openAs EXCEPT ![h] = None]
    /\ \E m \in After(openAs[h]) : /\ meta' = [meta EXCEPT ![openAs[h]] = m]
                                   /\ kept' = [kept EXCEPT ![openAs[h]] = m]

CloseAll ==
    /\ openAs' = [h \in Handles |-> None]
    /\ \A n \in Names : meta'[n] \in After(n)
    /\ meta' = [n \in Names |-> meta'[n]] /\ kept' = meta'

\* a file that could not be made for good, and is not open
LeaveBehind(n) ==
    /\ MayFail /\ kept[n] = Absent /\ ~IsOpen(n)
    /\ \E m \in Meta : meta' = [meta EXCEPT ![n] = m] /\ kept' = [kept EXCEPT ![n] = m]
    /\ UNCHANGED openAs

\* nothing is promised any more
GivenUp == ~intact'

Next ==
    \/ /\ UNCHANGED intact
       /\ \/ \E h \in Handles : \/ \E n \in Names : OpenFile(h, n)
                                \/ OpenAgain(h) \/ Grow(h) \/ RemoveName(h) \/ CloseFile(h)
          \/ CloseAll \/ \E n \in Names : LeaveBehind(n)
    \/ GivenUp

Spec == Init /\ [][Next]_<<meta, kept, openAs, intact>>
=============================================================================
