------------------------- MODULE ImageSquash_proofs -------------------------
(***************************************************************************)
(* Proofs about ImageSquash, for any images, paths, sizes and budgets:     *)
(* what is kept is not hidden by a layer above it, nothing a reader of the *)
(* image should see is lost in silence, and both budgets hold.  The books  *)
(* of the budgets are sums over the kept files: a sum over a finite set is *)
(* the number of its cells, one for each unit of each member, so what is   *)
(* known of cardinalities is known of it, in whatever order it is taken.   *)
(***************************************************************************)
EXTENDS ImageSquash, FiniteSetTheorems, TLAPS

(* The inductive invariant.                                                *)

\* The range of the variables the proof needs one of.
TypeInv ==
    /\ image \in Seq(Seq(EntryType))
    /\ layer \in 0..Len(image)
    /\ pos \in Nat \ {0}
    /\ removed \subseteq Path /\ opaque \subseteq Path
    /\ localRemoved \subseteq Path /\ localOpaque \subseteq Path
    /\ file \in [Path -> Version \cup {None}]
    /\ phase = "read" => layer > 0
    /\ phase = "done" => layer = 0

Over(i) == (i + 1)..Len(image)

\* The version of p in layer i was kept, or failed, or lost to an earlier one,
\* or a marker of a layer above hides it.
Accounted(i, p) ==
    \/ file[p] # None
    \/ <<"spool", p>> \in unknowns
    \/ p \in removed /\ \E j \in Over(i) : Has(j, "whiteout", p)
    \/ \E d \in opaque : IsStrictPrefix(d, p) /\ \E j \in Over(i) : Has(j, "opaque", d)

\* The markers in force are those of the layers above; a layer read to its end
\* has all of its own among them, and all of its files accounted for.
RemovedInv == \A p \in removed : \E j \in Over(layer) : Has(j, "whiteout", p)
OpaqueInv == \A d \in opaque : \E j \in Over(layer) : Has(j, "opaque", d)
Folded(j) ==
    \A p \in Path :
        /\ Has(j, "whiteout", p) => p \in removed
        /\ Has(j, "opaque", p) => p \in opaque
        /\ Has(j, "file", p) => Accounted(j, p)
AboveInv == \A j \in Over(layer) : LayerRead(j) => Folded(j)

\* The same of the layer being read, as far as it was read.
Met(k) ==
    LET e == image[layer][k]
    IN  /\ e.type = "whiteout" => e.path \in localRemoved
        /\ e.type = "opaque" => e.path \in localOpaque
        /\ e.type = "file" => Accounted(layer, e.path)
LocalInv ==
    phase = "read" =>
        /\ \A p \in localRemoved : Has(layer, "whiteout", p)
        /\ \A d \in localOpaque : Has(layer, "opaque", d)
        /\ \A k \in DOMAIN image[layer] : k < pos => Met(k)

\* KeptIsVisible, at every moment.
VisibleAt(p) ==
    file[p] # None =>
        \A j \in Over(file[p].layer) :
            LayerRead(j) /\ <<"spool", p>> \notin unknowns => ~Hides(j, p)
VisibleInv == \A p \in Path : VisibleAt(p)

IInv ==
    /\ TypeInv /\ RemovedInv /\ OpaqueInv /\ AboveInv /\ LocalInv /\ VisibleInv

-----------------------------------------------------------------------------
\* The entries of a layer.
LEMMA EntryTyped ==
    ASSUME TypeInv, NEW j \in 1..Len(image), NEW k \in DOMAIN image[j]
    PROVE  image[j][k] \in EntryType /\ image[j] \in Seq(EntryType)
  BY DEF TypeInv

\* What an image holds does not change.
LEMMA FixedHas ==
    ASSUME UNCHANGED image, NEW j, NEW type, NEW p
    PROVE  Has(j, type, p)' <=> Has(j, type, p)
  BY DEF Has

\* Nothing known is ever forgotten.
LEMMA Grows ==
    ASSUME TypeInv, [Next]_vars
    PROVE  /\ image' = image
           /\ unknowns \subseteq unknowns' /\ removed \subseteq removed' /\ opaque \subseteq opaque'
           /\ \A p \in Path : file[p] # None => file'[p] = file[p]
<1> USE DEF markVars, spoolVars
<1>1. image' = image
  BY DEF Next, vars, Materialize, OpenLayer, OpenLayerFails, Opaque, Whiteout, NotRegular, Shadowed,
         SpoolMem, SpoolDisk, SpoolHeader, SpoolFails, LayerEnd, LayerBreaks, SquashEnd, Clean,
         Kept, Skip, NextLayer
<1>2. unknowns \subseteq unknowns'
  BY DEF Next, vars, Materialize, OpenLayer, OpenLayerFails, Opaque, Whiteout, NotRegular, Shadowed,
         SpoolMem, SpoolDisk, SpoolHeader, SpoolFails, LayerEnd, LayerBreaks, SquashEnd, Clean
<1>3. removed \subseteq removed' /\ opaque \subseteq opaque'
  BY DEF Next, vars, Materialize, OpenLayer, OpenLayerFails, Opaque, Whiteout, NotRegular, Shadowed,
         SpoolMem, SpoolDisk, SpoolHeader, SpoolFails, LayerEnd, LayerBreaks, SquashEnd, Clean,
         Kept, Skip, NextLayer, Fold
<1>4. ASSUME NEW p \in Path, file[p] # None PROVE file'[p] = file[p]
  <2>1. CASE \E n \in Size : SpoolMem(n) \/ SpoolDisk(n) \/ SpoolHeader(n)
    BY <1>4, <2>1 DEF SpoolMem, SpoolDisk, SpoolHeader, Kept, Spooling, Shadow, TypeInv
  <2>2. CASE ~ \E n \in Size : SpoolMem(n) \/ SpoolDisk(n) \/ SpoolHeader(n)
    BY <2>2 DEF Next, vars, Materialize, OpenLayer, OpenLayerFails, Opaque, Whiteout, NotRegular,
           Shadowed, SpoolFails, LayerEnd, LayerBreaks, SquashEnd, Clean, NextLayer
  <2> QED
    BY <2>1, <2>2
<1> QED
  BY <1>1, <1>2, <1>3, <1>4

\* So what was accounted for stays so.
LEMMA StaysAccounted ==
    ASSUME TypeInv, [Next]_vars, NEW i, NEW p \in Path, Accounted(i, p)
    PROVE  Accounted(i, p)'
<1>1. \A j, type, q : Has(j, type, q)' <=> Has(j, type, q)
  BY Grows, FixedHas
<1> QED
  BY <1>1, Grows DEF Accounted, Over

\* The entry that is read.
LEMMA ReadsTyped ==
    ASSUME TypeInv, Reading PROVE Entry \in EntryType /\ Entry.path \in Path
<1>1. pos \in DOMAIN image[layer] /\ layer \in 1..Len(image)
  <2>1. layer \in 1..Len(image)
    BY DEF Reading, TypeInv
  <2>2. image[layer] \in Seq(EntryType)
    BY <2>1 DEF TypeInv
  <2> QED
    BY <2>1, <2>2 DEF Reading, TypeInv
<1> QED
  BY <1>1, EntryTyped DEF Entry, EntryType

\* Every step keeps the variables in range.
LEMMA TypeStep == TypeInv /\ [Next]_vars => TypeInv'
<1> SUFFICES ASSUME TypeInv, [Next]_vars PROVE TypeInv'
  OBVIOUS
<1> USE DEF markVars, spoolVars
<1>1. ASSUME Reading PROVE Entry \in EntryType /\ Entry.path \in Path
  BY <1>1, ReadsTyped
<1>2. CASE Opaque \/ Whiteout
  BY <1>1, <1>2 DEF Opaque, Whiteout, Skip, TypeInv
<1>3. CASE NotRegular \/ Shadowed \/ SpoolFails
  BY <1>3 DEF NotRegular, Shadowed, SpoolFails, Skip, TypeInv
<1>4. ASSUME NEW n \in Size, SpoolMem(n) \/ SpoolDisk(n) \/ SpoolHeader(n) PROVE TypeInv'
  <2>1. PICK spool \in {"mem", "disk", "header"} : Kept(spool, n)
    BY <1>4 DEF SpoolMem, SpoolDisk, SpoolHeader
  <2>2. [layer |-> layer, pos |-> pos, spool |-> spool, size |-> n] \in Version
    BY DEF TypeInv, Version
  <2>3. Entry.path \in Path
    BY <1>1, <1>4 DEF SpoolMem, SpoolDisk, SpoolHeader, Spooling
  <2> QED
    BY <2>1, <2>2, <2>3 DEF Kept, Skip, TypeInv
<1>5. CASE Materialize \/ OpenLayer \/ OpenLayerFails \/ SquashEnd \/ Clean
  BY <1>5 DEF Materialize, OpenLayer, OpenLayerFails, SquashEnd, Clean, TypeInv
<1>6. CASE LayerEnd \/ LayerBreaks
  BY <1>6 DEF LayerEnd, LayerBreaks, NextLayer, Fold, TypeInv
<1>7. CASE UNCHANGED vars
  BY <1>7 DEF vars, TypeInv
<1> QED
  BY <1>2, <1>3, <1>4, <1>5, <1>6, <1>7 DEF Next

\* One entry of the layer, whatever is made of it.
Entries ==
    \/ Opaque \/ Whiteout \/ NotRegular \/ Shadowed \/ SpoolFails
    \/ \E n \in Size : SpoolMem(n) \/ SpoolDisk(n) \/ SpoolHeader(n)

\* An entry read moves the cursor on, within the layer it is read from.
LEMMA EntryStep ==
    ASSUME Entries
    PROVE  /\ Reading /\ UNCHANGED <<image, phase, layer, removed, opaque>> /\ pos' = pos + 1
           /\ \A l \in Over(layer) : <<"layer", l>> \in unknowns' <=> <<"layer", l>> \in unknowns
  BY DEF Entries, Opaque, Whiteout, NotRegular, Shadowed, SpoolMem, SpoolDisk, SpoolHeader,
         SpoolFails, Spooling, Kept, Skip, markVars

\* A file that is passed over is accounted for.
LEMMA ShadowAccounted ==
    ASSUME TypeInv, RemovedInv, OpaqueInv, NEW p \in Path, Shadow(p)
    PROVE  Accounted(layer, p)
  BY DEF Shadow, UnderOpaque, RemovedInv, OpaqueInv, Accounted

\* The step that meets an entry leaves what LocalInv says of it.
LEMMA MeetStep ==
    ASSUME TypeInv, RemovedInv, OpaqueInv, Entries, [Next]_vars,
           Entry.path \in Path
    PROVE  /\ Entry.type = "whiteout" => Entry.path \in localRemoved'
           /\ Entry.type = "opaque" => Entry.path \in localOpaque'
           /\ Entry.type = "file" => \/ file'[Entry.path] # None
                                     \/ <<"spool", Entry.path>> \in unknowns'
                                     \/ Shadow(Entry.path)
<1>1. CASE Opaque \/ Whiteout
  BY <1>1 DEF Opaque, Whiteout
<1>2. CASE NotRegular \/ Shadowed \/ SpoolFails
  BY <1>2 DEF NotRegular, Shadowed, SpoolFails, Spooling
<1>3. ASSUME NEW n \in Size, SpoolMem(n) \/ SpoolDisk(n) \/ SpoolHeader(n)
      PROVE  Entry.type = "file" /\ file'[Entry.path] # None
  <2>1. PICK spool \in {"mem", "disk", "header"} : Kept(spool, n)
    BY <1>3 DEF SpoolMem, SpoolDisk, SpoolHeader
  <2>2. [layer |-> layer, pos |-> pos, spool |-> spool, size |-> n] \in Version
    BY DEF TypeInv, Version
  <2> QED
    BY <1>3, <2>1, <2>2, SquashAssumption
       DEF Kept, TypeInv, SpoolMem, SpoolDisk, SpoolHeader, Spooling
<1> QED
  BY <1>1, <1>2, <1>3 DEF Entries

\* Every step keeps the markers in force.
LEMMA MarkStep ==
    TypeInv /\ RemovedInv /\ OpaqueInv /\ LocalInv /\ [Next]_vars => RemovedInv' /\ OpaqueInv'
<1> SUFFICES ASSUME TypeInv, RemovedInv, OpaqueInv, LocalInv, [Next]_vars
             PROVE  RemovedInv' /\ OpaqueInv'
  OBVIOUS
<1>1. image' = image /\ \A j, type, q : Has(j, type, q)' <=> Has(j, type, q)
  BY Grows, FixedHas
<1>2. CASE LayerEnd \/ LayerBreaks
  <2>1. /\ phase = "read" /\ layer > 0 /\ layer' = layer - 1
        /\ removed' = removed \cup localRemoved /\ opaque' = opaque \cup localOpaque
    BY <1>2 DEF LayerEnd, LayerBreaks, NextLayer, Fold, TypeInv
  <2>2. Over(layer)' = Over(layer) \cup {layer}
    BY <1>1, <2>1 DEF Over, TypeInv
  <2> QED
    BY <1>1, <2>1, <2>2 DEF RemovedInv, OpaqueInv, LocalInv
<1>3. CASE ~LayerEnd /\ ~LayerBreaks
  <2>1. removed' = removed /\ opaque' = opaque
    BY <1>3 DEF Next, vars, markVars, Materialize, OpenLayer, OpenLayerFails, Opaque, Whiteout,
           NotRegular, Shadowed, SpoolMem, SpoolDisk, SpoolHeader, SpoolFails, SquashEnd, Clean,
           Kept, Skip
  <2>2. layer' \in {layer, layer - 1}
    BY <1>3 DEF Next, vars, markVars, Materialize, OpenLayer, OpenLayerFails, Opaque, Whiteout,
           NotRegular, Shadowed, SpoolMem, SpoolDisk, SpoolHeader, SpoolFails, SquashEnd, Clean,
           Kept, Skip
  <2>3. Over(layer) \subseteq Over(layer)'
    BY <1>1, <2>2 DEF Over, TypeInv
  <2> QED
    BY <1>1, <2>1, <2>3 DEF RemovedInv, OpaqueInv
<1> QED
  BY <1>2, <1>3

\* Every step keeps the account of the layer being read.
LEMMA LocalStep ==
    TypeInv /\ RemovedInv /\ OpaqueInv /\ LocalInv /\ [Next]_vars => LocalInv'
<1> SUFFICES ASSUME TypeInv, RemovedInv, OpaqueInv, LocalInv, [Next]_vars, phase' = "read"
             PROVE  LocalInv'
  BY DEF LocalInv
<1>1. image' = image /\ \A j, type, q : Has(j, type, q)' <=> Has(j, type, q)
  BY Grows, FixedHas
<1>2. \A i : \A p \in Path : Accounted(i, p) => Accounted(i, p)'
  BY StaysAccounted
<1>7. ASSUME layer' = layer, layer \in 1..Len(image), NEW k \in DOMAIN image[layer], Met(k),
             localRemoved \subseteq localRemoved', localOpaque \subseteq localOpaque'
      PROVE  Met(k)'
  <2>1. PICK p \in Path : p = image[layer][k].path
    BY <1>7, EntryTyped DEF EntryType
  <2>2. PICK here : here = layer
    OBVIOUS
  <2>3. Accounted(here, p) => Accounted(here, p)'
    BY <1>2
  <2> QED
    BY <1>1, <1>7, <2>1, <2>2, <2>3 DEF Met
<1>3. CASE Entries
  <2>1. Reading /\ layer' = layer /\ pos' = pos + 1 /\ phase = "read" /\ layer \in 1..Len(image)
    BY <1>3, EntryStep DEF Reading, TypeInv
  <2>2. \A k \in DOMAIN image[layer] : image[layer][k] \in EntryType /\ image[layer][k].path \in Path
    BY <2>1, EntryTyped DEF EntryType
  <2>3. image[layer] \in Seq(EntryType)
    BY <2>1 DEF TypeInv
  <2>4. pos \in DOMAIN image[layer]
    BY <2>1, <2>3 DEF Reading, TypeInv
  <2>5. \A p \in localRemoved' : Has(layer, "whiteout", p)
    <3>1. CASE Whiteout
      BY <2>1, <2>2, <2>4, <3>1 DEF Whiteout, LocalInv, Has, Entry, EntryType
    <3>2. CASE ~Whiteout
      BY <1>3, <2>1, <3>2 DEF Entries, Opaque, NotRegular, Shadowed, SpoolMem, SpoolDisk,
             SpoolHeader, SpoolFails, Kept, markVars, LocalInv
    <3> QED
      BY <3>1, <3>2
  <2>6. \A p \in localOpaque' : Has(layer, "opaque", p)
    <3>1. CASE Opaque
      BY <2>1, <2>2, <2>4, <3>1 DEF Opaque, LocalInv, Has, Entry, EntryType
    <3>2. CASE ~Opaque
      BY <1>3, <2>1, <3>2 DEF Entries, Whiteout, NotRegular, Shadowed, SpoolMem, SpoolDisk,
             SpoolHeader, SpoolFails, Kept, markVars, LocalInv
    <3> QED
      BY <3>1, <3>2
  <2>7. localRemoved \subseteq localRemoved' /\ localOpaque \subseteq localOpaque'
    BY <1>3 DEF Entries, Opaque, Whiteout, NotRegular, Shadowed, SpoolMem, SpoolDisk, SpoolHeader,
           SpoolFails, Kept, markVars
  <2>8. ASSUME NEW k \in DOMAIN image[layer], k < pos PROVE Met(k)'
    BY <1>7, <2>1, <2>7, <2>8 DEF LocalInv
  <2>9. ASSUME NEW k \in DOMAIN image[layer], k = pos PROVE Met(k)'
    <3>1. PICK p \in Path : p = Entry.path
      BY <2>2, <2>4 DEF Entry
    <3>2. PICK here : here = layer
      OBVIOUS
    <3>3. /\ Entry.type = "whiteout" => p \in localRemoved'
          /\ Entry.type = "opaque" => p \in localOpaque'
          /\ Entry.type = "file" => file'[p] # None \/ <<"spool", p>> \in unknowns' \/ Shadow(p)
      BY <1>3, <3>1, MeetStep
    <3>4. Shadow(p) => Accounted(here, p)'
      BY <1>2, <3>2, ShadowAccounted
    <3>5. Entry.type = "file" => Accounted(here, p)'
      BY <3>3, <3>4 DEF Accounted
    <3> QED
      BY <1>1, <2>1, <2>9, <3>1, <3>2, <3>3, <3>5 DEF Met, Entry
  <2>10. \A k \in DOMAIN image[layer] : k < pos + 1 => k < pos \/ k = pos
    BY <2>3 DEF TypeInv
  <2>11. \A k \in DOMAIN image[layer] : k < pos' => Met(k)'
    BY <2>1, <2>8, <2>9, <2>10
  <2> QED
    BY <1>1, <2>1, <2>5, <2>6, <2>11 DEF LocalInv
<1>4. CASE OpenLayer
  BY <1>4 DEF OpenLayer, LocalInv, TypeInv
<1>5. CASE UNCHANGED vars
  <2>1. /\ phase = "read" /\ layer' = layer /\ pos' = pos /\ layer \in 1..Len(image)
        /\ localRemoved' = localRemoved /\ localOpaque' = localOpaque
    BY <1>5 DEF vars, markVars, TypeInv
  <2>2. \A k \in DOMAIN image[layer] : k < pos => Met(k)'
    BY <1>7, <2>1 DEF LocalInv
  <2> QED
    BY <1>1, <2>1, <2>2 DEF LocalInv
<1>6. CASE Materialize \/ OpenLayerFails \/ LayerEnd \/ LayerBreaks \/ SquashEnd \/ Clean
  BY <1>6 DEF Materialize, OpenLayerFails, LayerEnd, LayerBreaks, NextLayer, SquashEnd, Clean
<1> QED
  BY <1>3, <1>4, <1>5, <1>6 DEF Next, Entries

\* Every step keeps the account of the layers above.
LEMMA AboveStep ==
    TypeInv /\ AboveInv /\ LocalInv /\ [Next]_vars => AboveInv'
<1> SUFFICES ASSUME TypeInv, AboveInv, LocalInv, [Next]_vars,
                    NEW j \in Over(layer)', LayerRead(j)', NEW p \in Path
             PROVE  /\ Has(j, "whiteout", p)' => p \in removed'
                    /\ Has(j, "opaque", p)' => p \in opaque'
                    /\ Has(j, "file", p)' => Accounted(j, p)'
  BY DEF AboveInv, Folded
<1>1. /\ image' = image /\ removed \subseteq removed' /\ opaque \subseteq opaque'
      /\ \A i, type, q : Has(i, type, q)' <=> Has(i, type, q)
  BY Grows, FixedHas
<1>2. Accounted(j, p) => Accounted(j, p)'
  BY StaysAccounted
<1>3. LayerRead(j)
  BY Grows DEF LayerRead
<1>4. CASE j \in Over(layer)
  BY <1>1, <1>2, <1>3, <1>4 DEF AboveInv, Folded
<1>5. CASE j \notin Over(layer)
  <2>1. layer' = layer - 1
    BY <1>1, <1>5 DEF Next, vars, markVars, Materialize, OpenLayer, OpenLayerFails, Opaque, Whiteout,
           NotRegular, Shadowed, SpoolMem, SpoolDisk, SpoolHeader, SpoolFails, SquashEnd, Clean,
           Kept, Skip, LayerEnd, LayerBreaks, NextLayer, Over
  <2>2. j = layer
    BY <1>1, <1>5, <2>1 DEF Over, TypeInv
  <2>3. LayerEnd
    <3>1. <<"layer", layer>> \notin unknowns' /\ layer' # layer
      BY <2>1, <2>2 DEF LayerRead, TypeInv
    <3>2. ~OpenLayerFails /\ ~LayerBreaks
      BY <3>1 DEF OpenLayerFails, LayerBreaks
    <3>3. ~Entries
      BY <3>1, EntryStep
    <3> QED
      BY <3>1, <3>2, <3>3 DEF Next, Entries, vars, Materialize, OpenLayer, SquashEnd, Clean
  <2>4. /\ phase = "read" /\ layer \in 1..Len(image) /\ pos = Len(image[layer]) + 1
        /\ removed' = removed \cup localRemoved /\ opaque' = opaque \cup localOpaque
    BY <2>3 DEF LayerEnd, NextLayer, Fold, TypeInv
  <2>5. \A k \in DOMAIN image[layer] : Met(k)
    <3>1. image[layer] \in Seq(EntryType)
      BY <2>4 DEF TypeInv
    <3> QED
      BY <2>4, <3>1 DEF LocalInv
  <2>6. ASSUME NEW type, Has(j, type, p)
        PROVE  /\ type = "whiteout" => p \in localRemoved
               /\ type = "opaque" => p \in localOpaque
               /\ type = "file" => Accounted(j, p)
    <3>1. PICK k \in DOMAIN image[layer] : image[layer][k] = [type |-> type, path |-> p]
      BY <2>2, <2>6 DEF Has
    <3> QED
      BY <2>2, <2>5, <3>1 DEF Met
  <2> QED
    BY <1>1, <1>2, <2>4, <2>6
<1> QED
  BY <1>4, <1>5

\* Every step keeps what is kept visible.
LEMMA VisibleStep ==
    TypeInv /\ AboveInv /\ VisibleInv /\ [Next]_vars => VisibleInv'
<1> SUFFICES ASSUME TypeInv, AboveInv, VisibleInv, [Next]_vars,
                    NEW p \in Path, file'[p] # None,
                    NEW j \in Over(file[p].layer)', LayerRead(j)', <<"spool", p>> \notin unknowns'
             PROVE  ~Hides(j, p)'
  BY DEF VisibleInv, VisibleAt
<1>1. /\ image' = image /\ unknowns \subseteq unknowns'
      /\ \A i, type, q : Has(i, type, q)' <=> Has(i, type, q)
  BY Grows, FixedHas
<1>2. LayerRead(j) /\ <<"spool", p>> \notin unknowns
  BY <1>1 DEF LayerRead
<1>3. SUFFICES ~Hides(j, p)
  BY <1>1 DEF Hides
<1>4. CASE file[p] # None
  <2>1. j \in Over(file[p].layer)
    BY <1>1, <1>4, Grows DEF Over
  <2> QED
    BY <1>2, <1>4, <2>1 DEF VisibleInv, VisibleAt
<1>5. CASE file[p] = None
  <2>1. PICK n \in Size : SpoolMem(n) \/ SpoolDisk(n) \/ SpoolHeader(n)
    BY <1>5 DEF Next, vars, markVars, spoolVars, Materialize, OpenLayer, OpenLayerFails, Opaque,
           Whiteout, NotRegular, Shadowed, SpoolFails, SquashEnd, Clean, LayerEnd, LayerBreaks,
           NextLayer
  <2>2. PICK spool : Kept(spool, n)
    BY <2>1 DEF SpoolMem, SpoolDisk, SpoolHeader
  <2>3. p = Entry.path /\ ~Shadow(p) /\ file'[p].layer = layer
    BY <1>5, <2>1, <2>2 DEF Kept, SpoolMem, SpoolDisk, SpoolHeader, Spooling, TypeInv
  <2>4. j \in Over(layer)
    BY <1>1, <2>3 DEF Over
  <2>5. Folded(j)
    BY <1>2, <2>4 DEF AboveInv
  <2> QED
    BY <1>2, <1>5, <2>3, <2>5 DEF Folded, Hides, Accounted, Shadow, UnderOpaque
<1> QED
  BY <1>4, <1>5

-----------------------------------------------------------------------------
\* The initial states.
LEMMA InitIInv == Init => IInv
<1> SUFFICES ASSUME Init PROVE IInv
  OBVIOUS
<1>1. TypeInv
  <2>1. image \in Seq(Seq(EntryType)) /\ layer = Len(image)
    BY SquashAssumption DEF Init
  <2> QED
    BY <2>1 DEF Init, TypeInv
<1>2. Over(layer) = {}
  BY <1>1 DEF Init, Over, TypeInv
<1> QED
  BY <1>1, <1>2 DEF Init, IInv, RemovedInv, OpaqueInv, AboveInv, LocalInv, VisibleInv, VisibleAt

\* ImageSquash keeps its inductive invariant.
THEOREM Invariance == Spec => []IInv
<1>1. Init => IInv
  BY InitIInv
<1>2. IInv /\ [Next]_vars => IInv'
  BY TypeStep, MarkStep, LocalStep, AboveStep, VisibleStep DEF IInv
<1> QED
  BY <1>1, <1>2, PTL DEF Spec

\* What is kept of a path is hidden by no layer above it that was read.
THEOREM Visibility == Spec => []KeptIsVisible
<1>1. IInv => KeptIsVisible
  BY DEF IInv, VisibleInv, VisibleAt, KeptIsVisible, Over
<1> QED
  BY <1>1, Invariance, PTL

\* A file no higher layer hides is kept, or its absence is on record.
THEOREM Completeness == Spec => []NothingLost
<1>1. IInv => NothingLost
  <2> SUFFICES ASSUME IInv, phase = "done", NEW i \in DOMAIN image, NEW p \in Path,
                      Has(i, "file", p), \A j \in (i + 1)..Len(image) : ~Hides(j, p), LayerRead(i)
               PROVE  file[p] # None \/ <<"spool", p>> \in unknowns
    BY DEF NothingLost
  <2>1. i \in Over(layer)
    BY DEF IInv, TypeInv, Over
  <2>2. Accounted(i, p)
    BY <2>1 DEF IInv, AboveInv, Folded
  <2>3. opaque \subseteq Path
    BY DEF IInv, TypeInv
  <2> QED
    BY <2>2, <2>3 DEF Accounted, Hides, Over
<1> QED
  BY <1>1, Invariance, PTL

-----------------------------------------------------------------------------
(* Sums over finite sets.                                                  *)

\* A set of subsets of a finite set holds them all when it holds the empty one
\* and every subset that is in it without any one of its members.
LEMMA SubsetInduction ==
    ASSUME NEW S, IsFiniteSet(S), NEW T,
           {} \in T,
           \A s \in SUBSET S : s # {} /\ (\A x \in s : s \ {x} \in T) => s \in T
    PROVE  SUBSET S \subseteq T
<1> SUFFICES ASSUME (SUBSET S) \ T # {} PROVE FALSE
  OBVIOUS
<1>1. IsWellFoundedOn(StrictSubsetOrdering(S), SUBSET S)
  BY FS_StrictSubsetOrderingWellFounded, FS_FiniteSubsetsOfFinite
<1>2. PICK R : R = StrictSubsetOrdering(S)
  OBVIOUS
<1>3. PICK U : U = SUBSET S
  OBVIOUS
<1>4. IsWellFoundedOn(R, U) /\ U \ T \subseteq U /\ U \ T # {}
  BY <1>1, <1>2, <1>3
<1>5. \E s \in U \ T : \A t \in U \ T : ~(<<t, s>> \in R)
  BY <1>4, WFMin
<1>6. PICK s \in U \ T : \A t \in U \ T : ~(<<t, s>> \in R)
  BY <1>5
<1>7. ASSUME NEW x \in s PROVE s \ {x} \in T
  <2>1. /\ <<s \ {x}, s>> \in (SUBSET S) \X (SUBSET S)
        /\ s \ {x} \subseteq s /\ s \ {x} # s
    BY <1>3, <1>6, <1>7
  <2>2. <<s \ {x}, s>> \in R
    BY <1>2, <2>1 DEF StrictSubsetOrdering
  <2> QED
    BY <1>3, <1>6, <2>1, <2>2
<1> QED
  BY <1>3, <1>6, <1>7

\* One cell for every unit the members of K have under f.
Cells(f, K) == {c \in K \X Nat : c[2] < f[c[1]]}

\* A member adds as many cells as it has units.
LEMMA CellsStep ==
    ASSUME NEW S, NEW f \in [S -> Nat], NEW K \in SUBSET S, NEW x \in S \ K, 
           IsFiniteSet(Cells(f, K))
    PROVE  /\ IsFiniteSet(Cells(f, K \cup {x}))
           /\ Cardinality(Cells(f, K \cup {x})) = Cardinality(Cells(f, K)) + f[x]
<1>1. PICK own : own = {x} \X (0..(f[x] - 1))
  OBVIOUS
<1>2. f[x] \in Nat
  OBVIOUS
<1>3. Cells(f, K \cup {x}) = Cells(f, K) \cup own
  <2>1. \A i \in Nat : i < f[x] <=> i \in 0..(f[x] - 1)
    BY <1>2
  <2> QED
    BY <1>1, <2>1 DEF Cells
<1>4. Cells(f, K) \cap own = {}
  BY <1>1 DEF Cells
<1>5. IsFiniteSet(own) /\ Cardinality(own) = f[x]
  <2>1. IsFiniteSet({x}) /\ Cardinality({x}) = 1
    BY FS_Singleton
  <2>2. IsFiniteSet(0..(f[x] - 1)) /\ Cardinality(0..(f[x] - 1)) = f[x]
    BY SMTT(30), <1>2, FS_Interval
  <2>3. IsFiniteSet(own) /\ Cardinality(own) = 1 * f[x]
    BY <1>1, <2>1, <2>2, FS_Product
  <2> QED
    BY <1>2, <2>3
<1>6. /\ IsFiniteSet(Cells(f, K) \cup own)
      /\ Cardinality(Cells(f, K) \cup own)
           = Cardinality(Cells(f, K)) + Cardinality(own) - Cardinality(Cells(f, K) \cap own)
  BY <1>5, FS_Union
<1>7. Cardinality(Cells(f, K)) \in Nat /\ Cardinality(Cells(f, K) \cap own) = 0
  BY <1>4, FS_CardinalityType, FS_EmptySet
<1>8. Cardinality(Cells(f, K) \cup own) = Cardinality(Cells(f, K)) + f[x] - 0
  BY <1>5, <1>6, <1>7
<1>9. \A c, d \in Nat : c + d - 0 = c + d
  OBVIOUS
<1>10. Cardinality(Cells(f, K)) + f[x] - 0 = Cardinality(Cells(f, K)) + f[x]
  BY <1>2, <1>7, <1>9
<1> QED
  BY <1>3, <1>6, <1>8, <1>10

\* No member, no cell.
LEMMA CellsEmpty ==
    ASSUME NEW f PROVE IsFiniteSet(Cells(f, {})) /\ Cardinality(Cells(f, {})) = 0
<1>1. Cells(f, {}) = {}
  BY DEF Cells
<1> QED
  BY <1>1, FS_EmptySet

\* Finitely many members have finitely many cells.
LEMMA CellsFinite ==
    ASSUME NEW S, IsFiniteSet(S), NEW f \in [S -> Nat]
    PROVE  \A K \in SUBSET S : IsFiniteSet(Cells(f, K))
<1>1. PICK T : T = {K \in SUBSET S : IsFiniteSet(Cells(f, K))}
  OBVIOUS
<1>2. {} \in T
  BY <1>1, CellsEmpty
<1>3. ASSUME NEW s \in SUBSET S, s # {}, \A x \in s : s \ {x} \in T PROVE s \in T
  <2> PICK x \in s : TRUE
    BY <1>3
  <2>1. IsFiniteSet(Cells(f, s \ {x})) /\ x \in S \ (s \ {x}) /\ s \ {x} \in SUBSET S
    BY <1>1, <1>3
  <2>2. IsFiniteSet(Cells(f, (s \ {x}) \cup {x}))
    BY <2>1, CellsStep
  <2>3. (s \ {x}) \cup {x} = s
    OBVIOUS
  <2> QED
    BY <1>1, <2>2, <2>3
<1>4. SUBSET S \subseteq T
  BY <1>2, <1>3, SubsetInduction
<1> QED
  BY <1>1, <1>4

\* The equation the fold's function is chosen by.
Sums(f, S, g) ==
    g = [s \in SUBSET S |->
            IF s = {} THEN 0 ELSE LET x == CHOOSE x \in s : TRUE IN f[x] + g[s \ {x}]]

\* To count cells is to sum, whichever member is taken first.
LEMMA SumsExist ==
    ASSUME NEW S, IsFiniteSet(S), NEW f \in [S -> Nat]
    PROVE  Sums(f, S, [s \in SUBSET S |-> Cardinality(Cells(f, s))])
<1>1. PICK g : g = [s \in SUBSET S |-> Cardinality(Cells(f, s))]
  OBVIOUS
<1>2. ASSUME NEW s \in SUBSET S, s # {}, NEW x \in s PROVE g[s] = f[x] + g[s \ {x}]
  <2>1. IsFiniteSet(Cells(f, s \ {x})) /\ x \in S \ (s \ {x}) /\ s \ {x} \in SUBSET S
    BY <1>2, CellsFinite
  <2>2. Cardinality(Cells(f, (s \ {x}) \cup {x})) = Cardinality(Cells(f, s \ {x})) + f[x]
    BY <2>1, CellsStep
  <2>3. (s \ {x}) \cup {x} = s
    OBVIOUS
  <2>4. Cardinality(Cells(f, s \ {x})) \in Nat /\ f[x] \in Nat
    BY <2>1, FS_CardinalityType
  <2>5. Cardinality(Cells(f, s)) = Cardinality(Cells(f, s \ {x})) + f[x]
    BY <2>2, <2>3
  <2>6. g[s] = Cardinality(Cells(f, s)) /\ g[s \ {x}] = Cardinality(Cells(f, s \ {x}))
    BY <1>1, <2>1
  <2>7. \A c, d \in Nat : c + d = d + c
    OBVIOUS
  <2> QED
    BY <2>4, <2>5, <2>6, <2>7
<1>3. g[{}] = 0
  BY <1>1, CellsEmpty
<1>4. \A s \in SUBSET S : g[s] = IF s = {} THEN 0
                                ELSE LET x == CHOOSE x \in s : TRUE IN f[x] + g[s \ {x}]
  BY <1>2, <1>3
<1>5. Sums(f, S, g)
  BY <1>1, <1>4 DEF Sums
<1> QED
  BY <1>1, <1>5

\* And nothing else sums.
LEMMA SumsUnique ==
    ASSUME NEW S, IsFiniteSet(S), NEW f \in [S -> Nat], NEW g, Sums(f, S, g)
    PROVE  g[S] = Cardinality(Cells(f, S))
<1>1. PICK h : h = [s \in SUBSET S |-> Cardinality(Cells(f, s))]
  OBVIOUS
<1>2. Sums(f, S, h)
  BY <1>1, SumsExist
<1>3. PICK T : T = {s \in SUBSET S : g[s] = h[s]}
  OBVIOUS
<1>4. {} \in T
  BY <1>2, <1>3 DEF Sums
<1>5. ASSUME NEW s \in SUBSET S, s # {}
      PROVE  \E x \in s : g[s] = f[x] + g[s \ {x}] /\ h[s] = f[x] + h[s \ {x}]
  <2>1. PICK x : x = CHOOSE y \in s : TRUE
    OBVIOUS
  <2>2. g[s] = f[x] + g[s \ {x}]
    BY <1>5, <2>1 DEF Sums
  <2>3. h[s] = f[x] + h[s \ {x}]
    BY <1>2, <1>5, <2>1 DEF Sums
  <2> QED
    BY <1>5, <2>1, <2>2, <2>3
<1>6. ASSUME NEW s \in SUBSET S, s # {}, \A x \in s : s \ {x} \in T PROVE s \in T
  <2>1. PICK x \in s : g[s] = f[x] + g[s \ {x}] /\ h[s] = f[x] + h[s \ {x}]
    BY <1>5, <1>6
  <2>2. g[s \ {x}] = h[s \ {x}]
    BY <1>3, <1>6
  <2> QED
    BY <1>3, <2>1, <2>2
<1>7. SUBSET S \subseteq T
  BY <1>4, <1>6, SubsetInduction
<1> QED
  BY <1>1, <1>3, <1>7

\* So a fold with + over finitely many members counts their cells.
LEMMA FoldCounts ==
    ASSUME NEW S, IsFiniteSet(S), NEW f \in [S -> Nat]
    PROVE  FoldFunctionOnSet(+, 0, f, S) = Cardinality(Cells(f, S))
<1>1. PICK g : g = CHOOSE h : Sums(f, S, h)
  OBVIOUS
<1>2. Sums(f, S, g)
  BY <1>1, SumsExist
<1>3. g[S] = Cardinality(Cells(f, S))
  BY <1>2, SumsUnique
<1>4. FoldFunctionOnSet(+, 0, f, S) = g[S]
  BY <1>1 DEF FoldFunctionOnSet, MapThenFoldSet, Sums
<1> QED
  BY <1>3, <1>4

-----------------------------------------------------------------------------
(* The books.                                                              *)

\* The paths with a version, and those whose version is of a kind.
KeptPaths(F) == {p \in Path : F[p] # None}
KindOf(F, spool) == {p \in Path : F[p] # None /\ F[p].spool = spool}
Units(F, spool) == [p \in KindOf(F, spool) |-> F[p].size]
HeldIn(F, spool) == FoldFunctionOnSet(+, 0, Units(F, spool), KindOf(F, spool))

\* Held, of the books at any moment.
LEMMA HeldIsHeldIn == \A spool : Held(spool) = HeldIn(file, spool)
  BY DEF Held, HeldIn, KindOf, Units

\* And of those the step leaves.
LEMMA HeldIsHeldInNext == \A spool : Held(spool)' = HeldIn(file', spool)
<1>1. (\A spool : Held(spool) = HeldIn(file, spool))'
  BY HeldIsHeldIn, PTL
<1> QED
  BY <1>1

Books == [Path -> Version \cup {None}]

\* The units of a kind, counted.
LEMMA HeldCounts ==
    ASSUME NEW F \in Books, NEW spool, IsFiniteSet(KeptPaths(F))
    PROVE  /\ IsFiniteSet(KindOf(F, spool))
           /\ Units(F, spool) \in [KindOf(F, spool) -> Nat]
           /\ HeldIn(F, spool) = Cardinality(Cells(Units(F, spool), KindOf(F, spool)))
           /\ HeldIn(F, spool) \in Nat
<1>1. IsFiniteSet(KindOf(F, spool))
  <2>1. KindOf(F, spool) \in SUBSET KeptPaths(F)
    BY DEF KindOf, KeptPaths
  <2> QED
    BY <2>1, FS_Subset
<1>2. Units(F, spool) \in [KindOf(F, spool) -> Nat]
  <2>1. \A p \in KindOf(F, spool) : F[p] \in Version
    BY DEF KindOf, Books
  <2>2. \A v \in Version : v.size \in Nat
    BY SquashAssumption DEF Version
  <2> QED
    BY <2>1, <2>2 DEF Units
<1>3. HeldIn(F, spool) = Cardinality(Cells(Units(F, spool), KindOf(F, spool)))
  BY <1>1, <1>2, FoldCounts DEF HeldIn
<1>4. IsFiniteSet(Cells(Units(F, spool), KindOf(F, spool)))
  BY <1>1, <1>2, CellsFinite
<1> QED
  BY <1>1, <1>2, <1>3, <1>4, FS_CardinalityType

\* A path that had no version and gets one adds its units to its own kind.
LEMMA Keeps ==
    ASSUME NEW F \in Books, IsFiniteSet(KeptPaths(F)), NEW p \in Path, F[p] = None,
           NEW v \in Version, NEW G \in Books, G = [F EXCEPT ![p] = v]
    PROVE  /\ IsFiniteSet(KeptPaths(G))
           /\ HeldIn(G, v.spool) = HeldIn(F, v.spool) + v.size
           /\ \A spool : spool # v.spool => HeldIn(G, spool) = HeldIn(F, spool)
<1>1. \A q \in Path : G[q] = IF q = p THEN v ELSE F[q]
  BY DEF Books
<1>2. v # None /\ v.size \in Nat
  BY SquashAssumption DEF Version
<1>3. IsFiniteSet(KeptPaths(G))
  <2>1. KeptPaths(G) = KeptPaths(F) \cup {p}
    BY <1>1, <1>2 DEF KeptPaths
  <2>2. IsFiniteSet(KeptPaths(F) \cup {p})
    BY FS_AddElement
  <2> QED
    BY <2>1, <2>2
<1>4. ASSUME NEW spool, spool # v.spool PROVE HeldIn(G, spool) = HeldIn(F, spool)
  <2>1. KindOf(G, spool) = KindOf(F, spool)
    BY <1>1, <1>2, <1>4 DEF KindOf
  <2>2. \A q \in KindOf(F, spool) : G[q] = F[q]
    BY <1>1, <1>4 DEF KindOf
  <2>3. PICK K : K = KindOf(F, spool)
    OBVIOUS
  <2>4. [q \in K |-> G[q].size] = [q \in K |-> F[q].size]
    BY <2>2, <2>3
  <2>5. Units(G, spool) = Units(F, spool)
    BY <2>1, <2>3, <2>4 DEF Units
  <2> QED
    BY <2>1, <2>5 DEF HeldIn
<1>5. HeldIn(G, v.spool) = HeldIn(F, v.spool) + v.size
  <2>1. PICK K : K = KindOf(F, v.spool)
    OBVIOUS
  <2>2. PICK f : f = Units(F, v.spool)
    OBVIOUS
  <2>3. PICK S : S = KindOf(G, v.spool)
    OBVIOUS
  <2>4. PICK g : g = Units(G, v.spool)
    OBVIOUS
  <2>5. S = K \cup {p} /\ p \notin K
    BY <1>1, <1>2, <2>1, <2>3 DEF KindOf
  <2>6. g[p] = v.size /\ \A q \in K : g[q] = f[q]
    <3>1. \A q \in S : g[q] = G[q].size
      BY <2>3, <2>4 DEF Units
    <3>2. \A q \in K : f[q] = F[q].size
      BY <2>1, <2>2 DEF Units
    <3>3. \A q \in K : q \in Path
      BY <2>1 DEF KindOf
    <3> QED
      BY <1>1, <2>5, <3>1, <3>2, <3>3
  <2>7. HeldIn(F, v.spool) = Cardinality(Cells(f, K)) /\ IsFiniteSet(K) /\ f \in [K -> Nat]
    BY <2>1, <2>2, HeldCounts
  <2>8. HeldIn(G, v.spool) = Cardinality(Cells(g, S)) /\ IsFiniteSet(S) /\ g \in [S -> Nat]
    BY <1>3, <2>3, <2>4, HeldCounts
  <2>9. Cells(g, K) = Cells(f, K)
    BY <2>6 DEF Cells
  <2>10. K \in SUBSET S /\ p \in S \ K /\ IsFiniteSet(Cells(g, K))
    BY <2>5, <2>8, CellsFinite
  <2>11. Cardinality(Cells(g, K \cup {p})) = Cardinality(Cells(g, K)) + g[p]
    BY <2>8, <2>10, CellsStep
  <2> QED
    BY <2>5, <2>6, <2>7, <2>8, <2>9, <2>11
<1> QED
  BY <1>3, <1>4, <1>5

\* The budgets, with the range of the books and finitely many files kept.
BookInv ==
    /\ memUsed \in Nat /\ diskUsed \in Nat
    /\ IsFiniteSet(KeptPaths(file))
    /\ BudgetsHonoured

\* What is not spooling keeps the books as they are.
LEMMA IdleStep ==
    ASSUME BookInv, file' = file, memUsed' = memUsed,
           \/ diskUsed' = diskUsed /\ (phase' = "clean" <=> phase = "clean")
           \/ diskUsed' = 0 /\ phase' = "clean"
    PROVE  BookInv'
<1>1. \A spool \in {"mem", "disk"} : Held(spool)' = Held(spool)
  BY HeldIsHeldIn, HeldIsHeldInNext
<1>2. IsFiniteSet(KeptPaths(file'))
  BY DEF BookInv
<1>3. 0 \in Nat /\ 0 <= DiskBudget
  BY SquashAssumption
<1> QED
  BY <1>1, <1>2, <1>3 DEF BookInv, BudgetsHonoured

\* A file that is spooled is charged to the budget of its kind.
LEMMA SpoolStep ==
    ASSUME TypeInv, BookInv, NEW n \in Size, SpoolMem(n) \/ SpoolDisk(n) \/ SpoolHeader(n),
           Entry.path \in Path
    PROVE  BookInv'
<1>1. PICK p \in Path : p = Entry.path
  OBVIOUS
<1>2. file[p] = None /\ phase = "read" /\ phase' = "read"
  BY <1>1 DEF SpoolMem, SpoolDisk, SpoolHeader, Spooling, Reading, Shadow, Kept, Skip
<1>3. PICK spool \in {"mem", "disk", "header"} :
          /\ Kept(spool, n)
          /\ spool = "mem" => /\ memUsed' = memUsed + n /\ diskUsed' = diskUsed
                              /\ memUsed + n <= MemBudget
          /\ spool = "disk" => /\ memUsed' = memUsed /\ diskUsed' = diskUsed + n
                               /\ diskUsed + n <= DiskBudget
          /\ spool = "header" => memUsed' = memUsed /\ diskUsed' = diskUsed
  BY DEF SpoolMem, SpoolDisk, SpoolHeader
<1>4. PICK v : v = [layer |-> layer, pos |-> pos, spool |-> spool, size |-> n]
  OBVIOUS
<1>5. v \in Version /\ v.spool = spool /\ v.size = n
  BY <1>4 DEF TypeInv, Version
<1>6. file' = [file EXCEPT ![p] = v]
  BY <1>1, <1>3, <1>4 DEF Kept
<1>7. file \in Books /\ file' \in Books
  BY <1>5, <1>6 DEF TypeInv, Books
<1>8. IsFiniteSet(KeptPaths(file))
  BY DEF BookInv
<1>9. /\ IsFiniteSet(KeptPaths(file'))
      /\ HeldIn(file', v.spool) = HeldIn(file, v.spool) + v.size
      /\ \A s : s # v.spool => HeldIn(file', s) = HeldIn(file, s)
  <2>1. /\ file \in Books /\ IsFiniteSet(KeptPaths(file)) /\ file[p] = None
        /\ v \in Version /\ file' \in Books /\ file' = [file EXCEPT ![p] = v]
    BY <1>2, <1>5, <1>6, <1>7, <1>8
  <2> QED
    BY <2>1, Keeps
<1>10. /\ memUsed \in Nat /\ diskUsed \in Nat /\ n \in Nat
       /\ memUsed = HeldIn(file, "mem") /\ memUsed <= MemBudget
       /\ diskUsed = HeldIn(file, "disk") /\ diskUsed <= DiskBudget
  BY <1>2, HeldIsHeldIn, SquashAssumption DEF BookInv, BudgetsHonoured
<1>11. /\ memUsed' \in Nat /\ diskUsed' \in Nat
       /\ memUsed' = HeldIn(file', "mem") /\ memUsed' <= MemBudget
       /\ diskUsed' = HeldIn(file', "disk") /\ diskUsed' <= DiskBudget
  <2>1. CASE spool = "mem"
    BY <1>3, <1>5, <1>9, <1>10, <2>1
  <2>2. CASE spool = "disk"
    BY <1>3, <1>5, <1>9, <1>10, <2>2
  <2>3. CASE spool = "header"
    BY <1>3, <1>5, <1>9, <1>10, <2>3
  <2> QED
    BY <2>1, <2>2, <2>3
<1>12. phase' # "clean" /\ Held("mem")' = HeldIn(file', "mem") /\ Held("disk")' = HeldIn(file', "disk")
  BY <1>2, HeldIsHeldInNext
<1>13. IsFiniteSet(KeptPaths(file)')
  BY <1>9
<1> QED
  BY <1>9, <1>11, <1>12 DEF BookInv, BudgetsHonoured

\* Every step keeps the books.
LEMMA BookStep == TypeInv /\ BookInv /\ [Next]_vars => BookInv'
<1> SUFFICES ASSUME TypeInv, BookInv, [Next]_vars PROVE BookInv'
  OBVIOUS
<1>1. ASSUME NEW n \in Size, SpoolMem(n) \/ SpoolDisk(n) \/ SpoolHeader(n) PROVE BookInv'
  <2>1. Reading
    BY <1>1 DEF SpoolMem, SpoolDisk, SpoolHeader, Spooling
  <2>2. Entry.path \in Path
    BY <2>1, ReadsTyped
  <2> QED
    BY <1>1, <2>2, SpoolStep
<1>2. CASE ~ \E n \in Size : SpoolMem(n) \/ SpoolDisk(n) \/ SpoolHeader(n)
  <2>1. CASE Clean
    <3>1. file' = file /\ memUsed' = memUsed /\ diskUsed' = 0 /\ phase' = "clean"
      BY <2>1 DEF Clean
    <3> QED
      BY <3>1, IdleStep
  <2>2. CASE ~Clean
    <3>1. file' = file /\ memUsed' = memUsed /\ diskUsed' = diskUsed
      BY <1>2, <2>2 DEF Next, vars, spoolVars, Materialize, OpenLayer, OpenLayerFails, Opaque,
             Whiteout, NotRegular, Shadowed, SpoolFails, LayerEnd, LayerBreaks, NextLayer, SquashEnd
    <3>2. phase' = "clean" <=> phase = "clean"
      BY <1>2, <2>2 DEF Next, vars, Materialize, OpenLayer, OpenLayerFails, Opaque, Whiteout,
             NotRegular, Shadowed, SpoolFails, LayerEnd, LayerBreaks, NextLayer, SquashEnd, Skip,
             Reading, Spooling
    <3> QED
      BY <3>1, <3>2, IdleStep
  <2> QED
    BY <2>1, <2>2
<1> QED
  BY <1>1, <1>2

\* Nothing is kept, and nothing charged.
LEMMA InitBooks == Init => BookInv
<1> SUFFICES ASSUME Init PROVE BookInv
  OBVIOUS
<1>1. file = [p \in Path |-> None] /\ memUsed = 0 /\ diskUsed = 0
  BY DEF Init
<1>2. KeptPaths(file) = {} /\ \A spool : KindOf(file, spool) = {}
  BY <1>1 DEF KeptPaths, KindOf
<1>3. IsFiniteSet(KeptPaths(file)) /\ file \in Books
  BY <1>1, <1>2, FS_EmptySet DEF Books
<1>4. ASSUME NEW spool PROVE Held(spool) = 0
  <2>1. HeldIn(file, spool) = Cardinality(Cells(Units(file, spool), {}))
    BY <1>2, <1>3, HeldCounts
  <2> QED
    BY <2>1, CellsEmpty, HeldIsHeldIn
<1> QED
  BY <1>1, <1>3, <1>4, SquashAssumption DEF BookInv, BudgetsHonoured

\* Both budgets hold at every moment, and the books are the sums of what is
\* kept: no error path of spool leaks a reservation or forgets one.
THEOREM Budgets == Spec => []BudgetsHonoured
<1>1. Init => BookInv
  BY InitBooks
<1>2. IInv /\ BookInv /\ [Next]_vars => BookInv'
  BY BookStep DEF IInv
<1>3. BookInv => BudgetsHonoured
  BY DEF BookInv
<1> QED
  BY <1>1, <1>2, <1>3, Invariance, PTL DEF Spec
=============================================================================
