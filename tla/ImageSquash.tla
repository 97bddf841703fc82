----------------------------- MODULE ImageSquash ----------------------------
(***************************************************************************)
(* The one-time squash of a container image (materialize, squash,          *)
(* squashLayer and spool in internal/source/imagesource/squash.go): the    *)
(* layers are read from top to base, each one's tar entries in order, and  *)
(* the first version met of every path is kept unless a whiteout or an     *)
(* opaque marker of a higher layer hides it.  What is kept is spooled to   *)
(* memory, to a temporary file or as a header prefix, under two budgets.   *)
(*                                                                         *)
(* A path is the sequence of its components, cleaned by normalizeName.  A  *)
(* tar entry is a record [type, path]: "file", "other" (directory, link,   *)
(* device), "whiteout" of the path, "opaque" for the directory at the      *)
(* path.  How large a file is, and what fails while it is spooled, is      *)
(* chosen when it is.  A tar reader yields exactly the size in the header  *)
(* or fails, so what is copied is what was reserved.                       *)
(***************************************************************************)
EXTENDS Integers, Sequences, SequencesExt

CONSTANTS Path,           \* the paths entries may carry
          Images,         \* what an image may hold: sequences of layers, base first
          Size,           \* file sizes
          MaxMemPerFile, MaxDiskPerFile, MemBudget, DiskBudget,
          None

EntryType == [type : {"file", "other", "whiteout", "opaque"}, path : Path]

Version == [layer : Nat, pos : Nat, spool : {"mem", "disk", "header"}, size : Size]

ASSUME SquashAssumption ==
    /\ None \notin Version
    /\ Images \subseteq Seq(Seq(EntryType))
    /\ Size \subseteq Nat
    /\ MaxMemPerFile \in Nat \ {0} /\ MaxDiskPerFile \in Nat \ {0}
    /\ MemBudget \in Nat /\ DiskBudget \in Nat

VARIABLES
    image,        \* the layers, base first
    phase,        \* "parse", "open", "read", "done", "failed", "clean"
    layer,        \* the layer being squashed; 0 when none is left
    pos,          \* the entry tr.Next returns next
    broken,       \* the layer's stream has failed
    removed, opaque,            \* markers of the layers above
    localRemoved, localOpaque,  \* markers of this layer
    file,         \* per path: the version kept (seen, byPath and ordered)
    memUsed, diskUsed,
    unknowns      \* what was recorded: <<"layer", layer>>, <<"spool", path>>

markVars == <<removed, opaque, localRemoved, localOpaque>>
spoolVars == <<file, memUsed, diskUsed>>
vars == <<image, phase, layer, pos, broken, markVars, spoolVars, unknowns>>

Init ==
    /\ image \in Images
    /\ phase = "parse"
    /\ layer = Len(image)
    /\ pos = 1
    /\ broken = FALSE
    /\ removed = {} /\ opaque = {}
    /\ localRemoved = {} /\ localOpaque = {}
    /\ file = [p \in Path |-> None]
    /\ memUsed = 0 /\ diskUsed = 0
    /\ unknowns = {}

\* materialize: a temp dir and parseImage, or an error that ensure remembers.
Materialize ==
    /\ phase = "parse"
    /\ phase' \in {"open", "failed"}
    /\ UNCHANGED <<image, layer, pos, broken, markVars, spoolVars, unknowns>>

\* The next layer down is opened and its decoder chosen by magic bytes.
OpenLayer ==
    /\ phase = "open" /\ layer > 0
    /\ phase' = "read"
    /\ pos' = 1
    /\ broken' = FALSE
    /\ localRemoved' = {} /\ localOpaque' = {}
    /\ UNCHANGED <<image, layer, removed, opaque, spoolVars, unknowns>>

\* A layer that cannot be opened, or is compressed with zstd, is an Unknown.
OpenLayerFails ==
    /\ phase = "open" /\ layer > 0
    /\ unknowns' = unknowns \cup {<<"layer", layer>>}
    /\ layer' = layer - 1
    /\ UNCHANGED <<image, phase, pos, broken, markVars, spoolVars>>

Entry == image[layer][pos]

Reading == phase = "read" /\ ~broken /\ pos <= Len(image[layer])

Skip ==
    /\ pos' = pos + 1
    /\ UNCHANGED <<image, phase, layer, broken, removed, opaque>>

Opaque ==
    /\ Reading /\ Entry.type = "opaque"
    /\ localOpaque' = localOpaque \cup {Entry.path}
    /\ Skip
    /\ UNCHANGED <<localRemoved, spoolVars, unknowns>>

Whiteout_atOnce ==
    /\ Reading /\ Entry.type = "whiteout"
    /\ removed' = removed \cup {Entry.path}
    /\ pos' = pos + 1
    /\ UNCHANGED <<image, phase, layer, broken, opaque, localRemoved, localOpaque,
                   spoolVars, unknowns>>

\* A whiteout counts for the layers below only, wherever it stands in its own.
Whiteout ==
    /\ Reading /\ Entry.type = "whiteout"
    /\ localRemoved' = localRemoved \cup {Entry.path}
    /\ Skip
    /\ UNCHANGED <<localOpaque, spoolVars, unknowns>>

\* Directories, links and devices are not scannable content.
NotRegular ==
    /\ Reading /\ Entry.type = "other"
    /\ Skip
    /\ UNCHANGED <<localRemoved, localOpaque, spoolVars, unknowns>>

\* An ancestor of p, or the root, is opaque.
UnderOpaque(p) == \E d \in opaque : IsStrictPrefix(d, p)

Shadow(p) == file[p] # None \/ p \in removed \/ UnderOpaque(p)

Shadowed ==
    /\ Reading /\ Entry.type = "file"
    /\ Shadow(Entry.path)
    /\ Skip
    /\ UNCHANGED <<localRemoved, localOpaque, spoolVars, unknowns>>

-----------------------------------------------------------------------------
(* spool.                                                                  *)

Spooling == Reading /\ Entry.type = "file" /\ ~Shadow(Entry.path)

Kept(spool, n) ==
    /\ file' = [file EXCEPT ![Entry.path] =
                   [layer |-> layer, pos |-> pos, spool |-> spool, size |-> n]]
    /\ Skip
    /\ UNCHANGED <<localRemoved, localOpaque>>

\* The whole file fits in memory, and so does it in the budget.
SpoolMem(n) ==
    /\ Spooling
    /\ n <= MaxMemPerFile /\ memUsed + n <= MemBudget
    /\ memUsed' = memUsed + n
    /\ Kept("mem", n)
    /\ UNCHANGED <<diskUsed, unknowns>>

\* spillWhole or spillStreaming, to the end.
SpoolDisk(n) ==
    /\ Spooling
    /\ n <= MaxMemPerFile => memUsed + n > MemBudget
    /\ n > MaxMemPerFile => n <= MaxDiskPerFile
    /\ diskUsed + n <= DiskBudget
    /\ diskUsed' = diskUsed + n
    /\ Kept("disk", n)
    /\ UNCHANGED <<memUsed, unknowns>>

SpoolHeader_keepsReserve(n) ==
    /\ Spooling
    /\ n <= MaxMemPerFile => memUsed + n > MemBudget
    /\ diskUsed' \in {diskUsed} \cup (IF diskUsed + n <= DiskBudget THEN {diskUsed + n} ELSE {})
    /\ unknowns' = unknowns \cup {<<"spool", Entry.path>>}
    /\ Kept("header", n)
    /\ UNCHANGED memUsed

\* Over a cap or a budget, or a temp file that cannot be made or, for a small
\* file, written: the reservation is given back, a prefix is kept, and the
\* truncation is on record.
SpoolHeader(n) ==
    /\ Spooling
    /\ n <= MaxMemPerFile => memUsed + n > MemBudget
    /\ unknowns' = unknowns \cup {<<"spool", Entry.path>>}
    /\ Kept("header", n)
    /\ UNCHANGED <<memUsed, diskUsed>>

\* The stream fails within the file, and then for the rest of the layer; or
\* the temp file of a large file cannot be written.  Nothing is kept.
SpoolFails ==
    /\ Spooling
    /\ unknowns' = unknowns \cup {<<"spool", Entry.path>>}
    /\ broken' \in BOOLEAN
    /\ pos' = pos + 1
    /\ UNCHANGED <<image, phase, layer, markVars, spoolVars>>

-----------------------------------------------------------------------------
Fold_replaces ==
    /\ removed' = localRemoved
    /\ opaque' = localOpaque

\* squash folds the layer's markers, as far as it was read, for those below.
Fold ==
    /\ removed' = removed \cup localRemoved
    /\ opaque' = opaque \cup localOpaque

NextLayer ==
    /\ Fold
    /\ layer' = layer - 1
    /\ phase' = "open"
    /\ UNCHANGED <<image, pos, broken, localRemoved, localOpaque, spoolVars>>

LayerEnd ==
    /\ phase = "read" /\ ~broken /\ pos = Len(image[layer]) + 1
    /\ NextLayer
    /\ UNCHANGED unknowns

\* tr.Next fails: what follows in the layer is lost, and that is on record.
LayerBreaks ==
    /\ phase = "read"
    /\ NextLayer
    /\ unknowns' = unknowns \cup {<<"layer", layer>>}

SquashEnd ==
    /\ phase = "open" /\ layer = 0
    /\ phase' = "done"
    /\ UNCHANGED <<image, layer, pos, broken, markVars, spoolVars, unknowns>>

\* Close: every temp file goes with the temp dir.
Clean ==
    /\ phase \in {"done", "failed"}
    /\ phase' = "clean"
    /\ diskUsed' = 0
    /\ UNCHANGED <<image, layer, pos, broken, markVars, file, memUsed, unknowns>>

Next ==
    \/ Materialize \/ OpenLayer \/ OpenLayerFails
    \/ Opaque \/ Whiteout \/ NotRegular \/ Shadowed
    \/ \E n \in Size : SpoolMem(n) \/ SpoolDisk(n) \/ SpoolHeader(n)
    \/ SpoolFails \/ LayerEnd \/ LayerBreaks \/ SquashEnd \/ Clean

Spec == Init /\ [][Next]_vars

-----------------------------------------------------------------------------
(* Properties.                                                             *)

\* The range of every variable.
TypeOK ==
    /\ image \in Seq(Seq(EntryType))
    /\ phase \in {"parse", "open", "read", "done", "failed", "clean"}
    /\ layer \in 0..Len(image)
    /\ pos \in Nat \ {0}
    /\ broken \in BOOLEAN
    /\ removed \in SUBSET Path /\ opaque \in SUBSET Path
    /\ localRemoved \in SUBSET Path /\ localOpaque \in SUBSET Path
    /\ file \in [Path -> Version \cup {None}]
    /\ memUsed \in Nat /\ diskUsed \in Nat
    /\ unknowns \in SUBSET (({"layer"} \X (1..Len(image))) \cup ({"spool"} \X Path))

\* Layer j has an entry of that type at p.
Has(j, type, p) == \E k \in DOMAIN image[j] : image[j][k] = [type |-> type, path |-> p]

\* Layer j hides a lower version of p, as the code reads an image.
Hides(j, p) ==
    \/ Has(j, "file", p) \/ Has(j, "whiteout", p)
    \/ \E d \in Path : IsStrictPrefix(d, p) /\ Has(j, "opaque", d)

LayerRead(j) == <<"layer", j>> \notin unknowns

\* No stale file: what is kept was taken from a layer that no layer above it,
\* read to its end, hides, wherever the marker stands in that layer and
\* whatever was spooled in between.
KeptIsVisible ==
    phase = "done" => \A p \in Path : file[p] # None =>
        \A j \in (file[p].layer + 1)..Len(image) :
            LayerRead(j) /\ <<"spool", p>> \notin unknowns => ~Hides(j, p)

\* Nothing is lost in silence: a file that no higher layer hides is kept, or
\* it, or its layer, is on record as an Unknown.
NothingLost ==
    phase = "done" => \A i \in DOMAIN image : \A p \in Path :
        /\ Has(i, "file", p)
        /\ \A j \in (i + 1)..Len(image) : ~Hides(j, p)
        => file[p] # None \/ <<"spool", p>> \in unknowns \/ ~LayerRead(i)

\* The units a kind of spool holds, by summing over the kept files.
Held(spool) ==
    LET Kind == {p \in Path : file[p] # None /\ file[p].spool = spool}
    IN  FoldFunctionOnSet(+, 0, [p \in Kind |-> file[p].size], Kind)

\* Both budgets hold at every moment, and the books agree with what is kept:
\* no path of an error leaks a reservation that later files would miss.
BudgetsHonoured ==
    /\ memUsed <= MemBudget /\ diskUsed <= DiskBudget
    /\ memUsed = Held("mem")
    /\ diskUsed = IF phase = "clean" THEN 0 ELSE Held("disk")

\* squash's comment: "keeping the first (topmost) version of each path and
\* honoring whiteouts/opaque markers from higher layers".  A whiteout of a
\* directory removes what is below it, and any entry at a path replaces the
\* lower version of it.  No configuration checks it, the code does not have it:
\* a whiteout is compared with the exact path, and what is not a file is
\* skipped before it is marked as seen.
TopmostVersion ==
    phase = "done" => \A p \in Path : file[p] # None =>
        \A j \in (file[p].layer + 1)..Len(image) :
            /\ ~Has(j, "other", p)
            /\ \A d \in Path : IsPrefix(d, p) => ~Has(j, "whiteout", d)
=============================================================================
