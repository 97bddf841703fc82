-------------------------- MODULE Inventory_proofs ---------------------------
(* Theorems about the assembler, the overlays and the gate, for any findings  *)
(* and any world they are scanned in. These invariants carry them: NamesInv   *)
(* (identities, stage by stage), KindInv (a draft is of its key's class),     *)
(* DraftInv (each finding is filed, whole, in the draft of its identity),     *)
(* ParamInv (a model binds only parameters found), RelationInv (each relation *)
(* is settled or warned of), RiskInv (a draft's risks can be listed, and what *)
(* it knows is from the findings), FlowInv (the document is what the overlays *)
(* run so far make of the assembler's inventory) and GoneInv (the steps taken *)
(* so far are those of Build). The last parts show that the documents written *)
(* from it resolve and tell one story, and what a comparison may blame.       *)
EXTENDS Inventory, FiniteSetTheorems, SequenceTheorems, WellFoundedInduction, TLAPS

-----------------------------------------------------------------------------
(* Identities: where a draft may go *)

(* The identities of the findings absorbed so far. *)
Keys(fs) == {normalizeKey(f.claim) : f \in Range(fs)}

(* Where a draft may go: to the only declared package of its name and vendor,
   or to the only model of its name with a vendor, or to its publisher's. *)
Declared(D, k) == {t \in D : /\ t.class = "package" /\ ~Discless(t)
                             /\ t.name = k.name /\ t.provider = k.provider}
Vendored(D, n) == {t \in D : t.class = "hosted-model" /\ t.name = n /\ t.provider # ""}
PackageMove(D, k, t) == k.class = "package" /\ Discless(k) /\ Declared(D, k) = {t}
ModelMove(D, k, t) ==
  /\ k.class = "hosted-model" /\ t \in Vendored(D, k.name)
  /\ \/ Vendored(D, k.name) = {t}
     \/ k.name \in DOMAIN Publisher /\ t.provider = Publisher[k.name]
Moves(D, to) ==
  /\ DOMAIN to \subseteq D
  /\ \A k \in DOMAIN to : /\ to[k] \in D \ DOMAIN to
                          /\ PackageMove(D, k, to[k]) \/ ModelMove(D, k, to[k])
Stays(D, to) ==
  \A k \in D : k.class = "package" /\ Discless(k) /\ (\E t : Declared(D, k) = {t}) => k \in DOMAIN to

(* A set of one element has nothing else. *)
LEMMA Single == ASSUME NEW S, IsFiniteSet(S), Cardinality(S) = 1 PROVE \E t \in S : S = {t}
  BY FS_Singleton

(* foldPackages only sends a package of unknown ecosystem, and to the one it was declared as. *)
LEMMA PackagesMove ==
  ASSUME NEW ds, IsFiniteSet(DOMAIN ds), NEW k \in DOMAIN foldPackages(ds)
  PROVE  k \in DOMAIN ds /\ PackageMove(DOMAIN ds, k, foldPackages(ds)[k])
<1> DEFINE D == DOMAIN ds
<1>1. /\ k \in D /\ k.class = "package" /\ Discless(k) /\ Cardinality(Declared(D, k)) = 1
      /\ foldPackages(ds)[k] = CHOOSE t \in Declared(D, k) : TRUE
  BY DEF foldPackages, Declared
<1>2. IsFiniteSet(Declared(D, k))
  BY FS_Subset DEF Declared
<1>3. PICK t : Declared(D, k) = {t}
  BY <1>1, <1>2, Single
<1> QED
  BY <1>1, <1>3 DEF PackageMove

(* foldModels only sends a model to a vendor's, and sends none of its targets anywhere. *)
LEMMA ModelsMove ==
  ASSUME NEW ds, IsFiniteSet(DOMAIN ds), NEW k \in DOMAIN foldModels(ds)
  PROVE  /\ k \in DOMAIN ds /\ ModelMove(DOMAIN ds, k, foldModels(ds)[k])
         /\ foldModels(ds)[k] \notin DOMAIN foldModels(ds)
<1> DEFINE D == DOMAIN ds
           named(n)   == {x \in D : x.class = "hosted-model" /\ x.name = n}
           targets(n) == {x \in named(n) : x.provider # ""}
           home(n)    == {x \in targets(n) : /\ Cardinality(targets(n)) > 1
                                             /\ n \in DOMAIN Publisher
                                             /\ x.provider = Publisher[n]}
           homeOf(n)  == IF Cardinality(targets(n)) = 1 THEN targets(n) ELSE home(n)
           moving     == {x \in D : /\ x.class = "hosted-model"
                                    /\ homeOf(x.name) \notin {{}, {x}}
                                    /\ x \notin homeOf(x.name)}
           t == foldModels(ds)[k]
<1>1. /\ DOMAIN foldModels(ds) = moving
      /\ t = CHOOSE x \in homeOf(k.name) : TRUE
  BY DEF foldModels
<1>2. k \in D /\ k.class = "hosted-model" /\ homeOf(k.name) # {} /\ k \notin homeOf(k.name)
  BY <1>1
<1> HIDE DEF homeOf
<1>3. t \in homeOf(k.name)
  BY <1>1, <1>2
<1> HIDE DEF t
<1>4. t \in targets(k.name) /\ (Cardinality(targets(k.name)) = 1 \/ t \in home(k.name))
  BY <1>3 DEF homeOf
<1>5. t \notin moving
  BY <1>3, <1>4
<1>6. targets(k.name) = Vendored(D, k.name)
  BY DEF Vendored
<1>7. IsFiniteSet(Vendored(D, k.name))
  BY FS_Subset DEF Vendored
<1>8. Cardinality(targets(k.name)) = 1 => Vendored(D, k.name) = {t}
  <2> HAVE Cardinality(targets(k.name)) = 1
  <2> HIDE DEF targets
  <2>1. PICK x : Vendored(D, k.name) = {x}
    BY <1>6, <1>7, Single
  <2> QED
    BY <1>4, <1>6, <2>1
<1>9. ModelMove(D, k, t)
  <2>1. CASE Cardinality(targets(k.name)) = 1
    BY <1>2, <1>4, <1>6, <1>8, <2>1 DEF ModelMove
  <2>2. CASE t \in home(k.name)
    BY <1>2, <1>4, <1>6, <2>2 DEF ModelMove
  <2> QED
    BY <1>4, <2>1, <2>2
<1> QED
  BY <1>1, <1>2, <1>5, <1>9 DEF t

(* Both folds of Build together: what they send moves once, and nothing settled is left behind. *)
LEMMA Redirects ==
  ASSUME NEW ds, IsFiniteSet(DOMAIN ds)
  PROVE  Moves(DOMAIN ds, redirected(ds)) /\ Stays(DOMAIN ds, redirected(ds))
<1> DEFINE D == DOMAIN ds
           to == redirected(ds)
           P  == foldPackages(ds)
           M  == foldModels(ds)
<1>1. /\ DOMAIN to = DOMAIN P \cup DOMAIN M
      /\ \A k \in DOMAIN P : to[k] = P[k]
      /\ \A k \in DOMAIN M \ DOMAIN P : to[k] = M[k]
  BY DEF redirected
<1>2. \A k \in DOMAIN P : k \in D /\ PackageMove(D, k, P[k])
  BY PackagesMove
<1>3. \A k \in DOMAIN M : k \in D /\ ModelMove(D, k, M[k]) /\ M[k] \notin DOMAIN M
  BY ModelsMove
<1>4. \A k \in D : k.class = "package" /\ Discless(k) /\ Cardinality(Declared(D, k)) = 1 => k \in DOMAIN P
  BY DEF foldPackages, Declared
<1> HIDE DEF D, to, P, M
<1>5. ASSUME NEW k \in DOMAIN P PROVE to[k] \in D \ DOMAIN to /\ PackageMove(D, k, to[k])
  <2>1. PackageMove(D, k, to[k])
    BY <1>1, <1>2
  <2>2. to[k] \in D /\ to[k].class = "package" /\ ~Discless(to[k])
    BY <2>1 DEF PackageMove, Declared
  <2>3. to[k] \notin DOMAIN P
    BY <1>2, <2>2 DEF PackageMove
  <2>4. to[k] \notin DOMAIN M
    BY <1>3, <2>2 DEF ModelMove
  <2> QED
    BY <1>1, <2>1, <2>2, <2>3, <2>4
<1>6. ASSUME NEW k \in DOMAIN M, k \notin DOMAIN P
      PROVE  to[k] \in D \ DOMAIN to /\ ModelMove(D, k, to[k])
  <2>1. ModelMove(D, k, to[k]) /\ to[k] \notin DOMAIN M
    BY <1>1, <1>3, <1>6
  <2>2. to[k] \in D /\ to[k].class = "hosted-model"
    BY <2>1 DEF ModelMove, Vendored
  <2>3. to[k] \notin DOMAIN P
    BY <1>2, <2>2 DEF PackageMove
  <2> QED
    BY <1>1, <2>1, <2>2, <2>3
<1>7. Moves(D, to)
  BY <1>1, <1>2, <1>3, <1>5, <1>6 DEF Moves
<1>8. \A k \in D : (\E t : Declared(D, k) = {t}) => Cardinality(Declared(D, k)) = 1
  BY FS_Singleton
<1>9. Stays(D, to)
  BY <1>1, <1>4, <1>8 DEF Stays
<1> QED
  BY <1>7, <1>9 DEF D, to

-----------------------------------------------------------------------------
(* The assembly, and what it never guesses *)

(* Two identities that end up together were meant to. *)
LEMMA Meet ==
  ASSUME NEW D, NEW to, Moves(D, to), NEW j \in D, NEW k \in D,
         canonicalID(to, j) = canonicalID(to, k)
  PROVE  /\ j.class = "package" /\ ~Discless(j) /\ ~Discless(k) => j = k
         /\ j.class = "hosted-model" /\ j.provider # k.provider
              => \/ "" \in {j.provider, k.provider}
                 \/ LET t == canonicalID(to, j) IN t.name \in DOMAIN Publisher /\ t.provider = Publisher[t.name]
<1> DEFINE t == canonicalID(to, j)
<1>1. (j \notin DOMAIN to => t = j) /\ (j \in DOMAIN to => t = to[j])
  BY DEF canonicalID, Lookup
<1>2. (k \notin DOMAIN to => t = k) /\ (k \in DOMAIN to => t = to[k])
  BY DEF canonicalID, Lookup
<1> HIDE DEF t
<1>3. \A x \in DOMAIN to : to[x] \in D \ DOMAIN to /\ (PackageMove(D, x, to[x]) \/ ModelMove(D, x, to[x]))
  BY DEF Moves
<1>4. ASSUME j.class = "package", ~Discless(j), ~Discless(k) PROVE j = k
  <2>1. j \notin DOMAIN to
    BY <1>3, <1>4 DEF PackageMove, ModelMove
  <2>2. k \notin DOMAIN to
    <3> SUFFICES ASSUME k \in DOMAIN to PROVE FALSE
      OBVIOUS
    <3>1. ModelMove(D, k, j)
      BY <1>1, <1>2, <1>3, <1>4, <2>1 DEF PackageMove
    <3> QED
      BY <1>4, <3>1 DEF ModelMove, Vendored
  <2> QED
    BY <1>1, <1>2, <2>1, <2>2
<1>5. ASSUME j.class = "hosted-model", j.provider # k.provider, j.provider # "", k.provider # ""
      PROVE  t.name \in DOMAIN Publisher /\ t.provider = Publisher[t.name]
  <2>1. ASSUME NEW x \in {j, k}, x \in DOMAIN to, x.class = "hosted-model"
        PROVE  t.name \in DOMAIN Publisher /\ t.provider = Publisher[t.name]
    <3>1. t = to[x] /\ x.provider # "" /\ x \in D
      BY <1>1, <1>2, <1>5, <2>1
    <3>2. ModelMove(D, x, t)
      BY <1>3, <2>1, <3>1 DEF PackageMove
    <3>3. x \in Vendored(D, x.name) /\ t.name = x.name
      BY <2>1, <3>1, <3>2 DEF ModelMove, Vendored
    <3>4. x # t
      BY <1>3, <2>1, <3>1
    <3> QED
      BY <3>2, <3>3, <3>4 DEF ModelMove
  <2>2. CASE j \in DOMAIN to
    BY <1>5, <2>1, <2>2
  <2>3. CASE j \notin DOMAIN to
    <3>1. t = j /\ k \in DOMAIN to /\ t = to[k]
      BY <1>1, <1>2, <1>5, <2>3
    <3>2. k.class = "hosted-model"
      BY <1>3, <1>5, <3>1 DEF PackageMove, ModelMove, Declared
    <3> QED
      BY <2>1, <3>1, <3>2
  <2> QED
    BY <2>2, <2>3
<1> QED
  BY <1>4, <1>5 DEF t

(* A package without an ecosystem stays what it is when two may be meant. *)
LEMMA Unsettled ==
  ASSUME NEW D, NEW to, Moves(D, to), NEW k \in D, NEW g \in D, NEW h \in D,
         k.class = "package", Discless(k), g # h,
         g \in Declared(D, k), h \in Declared(D, k)
  PROVE  canonicalID(to, k) # canonicalID(to, g)
<1>1. k \notin DOMAIN to
  BY DEF Moves, PackageMove, ModelMove
<1>2. g \notin DOMAIN to
  BY DEF Moves, PackageMove, ModelMove, Declared
<1>3. g # k
  BY DEF Declared
<1> QED
  BY <1>1, <1>2, <1>3 DEF canonicalID, Lookup
-----------------------------------------------------------------------------
AllFindings == UNION Candidates
Stages == {"absorb", "relate", "finish", "done"}

(* What the assembly knows of identities, stage by stage: one draft for each
   claimed, before the folds; afterwards the folds have moved what they may
   and taken nothing else away. *)
ArrivalInv == absorbed \in Seq(AllFindings) /\ pending \subseteq AllFindings /\ stage \in Stages
KeyInv ==
  /\ IsFiniteSet(Keys(absorbed))
  /\ stage = "absorb" => DOMAIN drafts = Keys(absorbed)
  /\ stage # "absorb" => /\ Moves(Keys(absorbed), redirects) /\ Stays(Keys(absorbed), redirects)
                         /\ DOMAIN drafts = (Keys(absorbed) \ DOMAIN redirects) \cup {RootKey}
InvInv ==
  stage = "done" => \A c \in inv.components :
                      c.id \in DOMAIN drafts /\ c.name = c.id.name /\ c.provider = c.id.provider
NamesInv == ArrivalInv /\ KeyInv /\ InvInv

(* One more finding adds one identity. *)
LEMMA MoreKeys ==
  ASSUME NEW S, NEW fs \in Seq(S), NEW f \in S
  PROVE  Keys(Append(fs, f)) = Keys(fs) \cup {normalizeKey(f.claim)}
<1>1. /\ Len(fs) \in Nat /\ DOMAIN fs = 1 .. Len(fs) /\ DOMAIN Append(fs, f) = 1 .. Len(fs) + 1
      /\ \A i \in 1 .. Len(fs) : Append(fs, f)[i] = fs[i]
      /\ Append(fs, f)[Len(fs) + 1] = f
  BY AppendProperties, LenProperties
<1>2. Range(Append(fs, f)) = Range(fs) \cup {f}
  BY <1>1 DEF Range
<1> QED
  BY <1>2 DEF Keys

(* Nothing is claimed before the first finding. *)
LEMMA InitNames == Init => NamesInv
<1> SUFFICES ASSUME Init PROVE NamesInv
  OBVIOUS
<1>1. absorbed = <<>> /\ drafts = <<>> /\ stage = "absorb" /\ pending \in Candidates
  BY DEF Init
<1>2. Keys(absorbed) = {} /\ DOMAIN drafts = {}
  BY <1>1 DEF Keys, Range
<1>3. IsFiniteSet(Keys(absorbed))
  BY <1>2, FS_EmptySet
<1>4. ArrivalInv
  BY <1>1 DEF ArrivalInv, AllFindings, Stages
<1>5. KeyInv /\ InvInv
  BY <1>1, <1>2, <1>3 DEF KeyInv, InvInv
<1> QED
  BY <1>4, <1>5 DEF NamesInv

(* A finding is absorbed under the identity it claims. *)
LEMMA AbsorbNames == ASSUME NamesInv, NEW f \in pending, Absorb(f) PROVE NamesInv'
<1> DEFINE key == normalizeKey(f.claim)
<1>1. /\ stage = "absorb" /\ absorbed' = Append(absorbed, f) /\ pending' = pending \ {f}
      /\ drafts' = absorb(drafts, f) /\ stage' = stage
  BY DEF Absorb
<1>2. f \in AllFindings /\ absorbed \in Seq(AllFindings) /\ IsFiniteSet(Keys(absorbed))
      /\ DOMAIN drafts = Keys(absorbed)
  BY <1>1 DEF NamesInv, ArrivalInv, KeyInv
<1>3. absorbed' \in Seq(AllFindings) /\ Keys(absorbed') = Keys(absorbed) \cup {key}
  BY <1>1, <1>2, MoreKeys, AppendProperties
<1>4. DOMAIN drafts' = Keys(absorbed) \cup {key}
  BY <1>1, <1>2 DEF absorb
<1>5. IsFiniteSet(Keys(absorbed) \cup {key})
  BY <1>2, FS_AddElement
<1>6. ArrivalInv'
  BY <1>1, <1>3 DEF NamesInv, ArrivalInv
<1>7. KeyInv'
  <2>1. Keys(absorbed)' = Keys(absorbed) \cup {key}
    BY <1>3 DEF Keys
  <2> QED
    BY <1>1, <1>4, <1>5, <2>1 DEF KeyInv
<1>8. InvInv'
  BY <1>1 DEF InvInv
<1> QED
  BY <1>6, <1>7, <1>8 DEF NamesInv

(* The folds take away exactly the identities they redirect. *)
LEMMA FoldNames == ASSUME NamesInv, Fold PROVE NamesInv'
<1>1. /\ stage = "absorb" /\ stage' = "relate" /\ absorbed' = absorbed /\ pending' = pending
      /\ redirects' = redirected(drafts)
      /\ drafts' = mintRoot(foldInto(drafts, redirects'))
  BY DEF Fold
<1>2. IsFiniteSet(DOMAIN drafts) /\ DOMAIN drafts = Keys(absorbed)
  BY <1>1 DEF NamesInv, KeyInv
<1>3. Moves(Keys(absorbed), redirects') /\ Stays(Keys(absorbed), redirects')
  BY <1>1, <1>2, Redirects
<1>4. DOMAIN drafts' = (Keys(absorbed) \ DOMAIN redirects') \cup {RootKey}
  BY <1>1, <1>2 DEF mintRoot, foldInto
<1>5. Keys(absorbed)' = Keys(absorbed) /\ IsFiniteSet(Keys(absorbed)')
  BY <1>1, <1>2 DEF Keys
<1>6. Moves(Keys(absorbed), redirects)' /\ Stays(Keys(absorbed), redirects)'
  BY <1>3, <1>5 DEF Moves, Stays, PackageMove, ModelMove, Declared, Vendored
<1> QED
  BY <1>1, <1>4, <1>5, <1>6 DEF NamesInv, ArrivalInv, KeyInv, InvInv, Stages

(* The promotion of parameters touches no identity. *)
LEMMA RelateNames == ASSUME NamesInv, Relate PROVE NamesInv'
<1>1. /\ stage = "relate" /\ stage' = "finish" /\ absorbed' = absorbed /\ pending' = pending
      /\ redirects' = redirects /\ drafts' = promoteParams(drafts)
  BY DEF Relate
<1>2. DOMAIN drafts' = DOMAIN drafts
  BY <1>1 DEF promoteParams
<1>3. Keys(absorbed)' = Keys(absorbed)
  BY <1>1 DEF Keys
<1>4. Moves(Keys(absorbed), redirects)' /\ Stays(Keys(absorbed), redirects)'
  BY <1>1, <1>3 DEF NamesInv, KeyInv, Moves, Stays, PackageMove, ModelMove, Declared, Vendored
<1> QED
  BY <1>1, <1>2, <1>3, <1>4 DEF NamesInv, ArrivalInv, KeyInv, InvInv, Stages

(* Every component handed over was finished from a draft. *)
LEMMA Finished ==
  ASSUME NEW ds, NEW es, NEW c \in inventory(ds, es).components
  PROVE  \E k \in DOMAIN ds : c = finish(k, ds[k])
  BY DEF inventory, dropBoundAIConfig

(* The components handed over carry the identities of the drafts. *)
LEMMA FinishNames == ASSUME NamesInv, Finish PROVE NamesInv'
<1>1. /\ stage = "finish" /\ stage' = "done" /\ absorbed' = absorbed /\ pending' = pending
      /\ redirects' = redirects /\ drafts' = drafts /\ inv' = inventory(drafts, edges)
  BY DEF Finish
<1>2. Keys(absorbed)' = Keys(absorbed)
  BY <1>1 DEF Keys
<1>3. Moves(Keys(absorbed), redirects)' /\ Stays(Keys(absorbed), redirects)'
  BY <1>1, <1>2 DEF NamesInv, KeyInv, Moves, Stays, PackageMove, ModelMove, Declared, Vendored
<1>4. \A c \in inv'.components :
        c.id \in DOMAIN drafts' /\ c.name = c.id.name /\ c.provider = c.id.provider
  <2> TAKE c \in inv'.components
  <2>1. PICK k \in DOMAIN drafts : c = finish(k, drafts[k])
    BY <1>1, Finished
  <2>2. c.id = k /\ c.name = k.name /\ c.provider = k.provider
    BY <2>1 DEF finish
  <2> QED
    BY <1>1, <2>2
<1> QED
  BY <1>1, <1>2, <1>3, <1>4 DEF NamesInv, ArrivalInv, KeyInv, InvInv, Stages

(* A step of an overlay leaves what the assembly knows as it is. *)
LEMMA SameNames == ASSUME NamesInv, UNCHANGED vars PROVE NamesInv'
<1>1. /\ stage' = stage /\ absorbed' = absorbed /\ pending' = pending /\ drafts' = drafts
      /\ redirects' = redirects /\ inv' = inv
  BY DEF vars
<1> QED
  BY <1>1 DEF NamesInv, ArrivalInv, KeyInv, InvInv, Keys, Moves, Stays, PackageMove, ModelMove,
              Declared, Vendored

(* A step of the inventory is one of the assembly, or leaves its variables alone. *)
LEMMA AssemblyOrSame == [INext]_<<vars, ovars>> => [Next]_vars
  BY DEF INext, Assembly, Osv, Kev, Eol, Map, Written, Overlay

(* No step breaks what is known of identities. *)
LEMMA NamesStep == NamesInv /\ [INext]_<<vars, ovars>> => NamesInv'
<1> SUFFICES ASSUME NamesInv, [INext]_<<vars, ovars>> PROVE NamesInv'
  OBVIOUS
<1>1. [Next]_vars
  BY AssemblyOrSame
<1> QED
  BY <1>1, AbsorbNames, FoldNames, RelateNames, FinishNames, SameNames DEF Next, Done

(* What the assembly of any candidates knows of identities, at every stage:
   one draft for each identity claimed (absorb), and after the folds of Build
   every redirect goes to an identity that was claimed and stays. *)
THEOREM Names == ISpec => []NamesInv
<1>1. IInit => NamesInv
  BY InitNames DEF IInit
<1> QED
  BY <1>1, NamesStep, PTL DEF ISpec

(* What the folds may move is what NeverGuessed allows. *)
LEMMA Apart == ASSUME NamesInv PROVE NeverGuessed
<1> SUFFICES ASSUME stage = "done", NEW f \in Range(absorbed), NEW g \in Range(absorbed),
                    NEW h \in Range(absorbed)
             PROVE  LET kf == normalizeKey(f.claim)  kg == normalizeKey(g.claim)  kh == normalizeKey(h.claim) IN
                    /\ SameComponent(f, g) /\ kf.class = "package" /\ ~Discless(kf) /\ ~Discless(kg)
                         => kf.disc = kg.disc
                    /\ SameComponent(f, g) /\ kf.class = "hosted-model" /\ kf.provider # kg.provider
                         => \/ "" \in {kf.provider, kg.provider}
                            \/ \E c \in Home(f) : c.name \in DOMAIN Publisher /\ c.provider = Publisher[c.name]
                    /\ kf.class = "package" /\ Discless(kf) /\ ~Discless(kg) /\ ~Discless(kh) /\ kg.disc # kh.disc
                       /\ {[k EXCEPT !.disc = <<"">>] : k \in {kg, kh}} = {kf}
                         => ~SameComponent(f, g)
  BY DEF NeverGuessed
<1> DEFINE kf == normalizeKey(f.claim)
           kg == normalizeKey(g.claim)
           kh == normalizeKey(h.claim)
           D  == Keys(absorbed)
           t  == canonicalID(redirects, kf)
<1>1. kf \in D /\ kg \in D /\ kh \in D /\ Moves(D, redirects)
  BY DEF NamesInv, KeyInv, Keys
<1>2. DOMAIN kg = {"class", "provider", "name", "disc"} /\ DOMAIN kh = {"class", "provider", "name", "disc"}
  BY DEF normalizeKey
<1>3. \A c \in Home(f) : c.id = t /\ c.name = t.name /\ c.provider = t.provider
  BY DEF NamesInv, InvInv, Home
<1>4. SameComponent(f, g) => Home(f) # {} /\ t = canonicalID(redirects, kg)
  BY DEF SameComponent, Home
<1> HIDE DEF kf, kg, kh, D, t
<1>5. ASSUME SameComponent(f, g), kf.class = "package", ~Discless(kf), ~Discless(kg)
      PROVE  kf.disc = kg.disc
  BY <1>1, <1>4, <1>5, Meet DEF t
<1>6. ASSUME SameComponent(f, g), kf.class = "hosted-model", kf.provider # kg.provider,
             "" \notin {kf.provider, kg.provider}
      PROVE  \E c \in Home(f) : c.name \in DOMAIN Publisher /\ c.provider = Publisher[c.name]
  <2>1. t.name \in DOMAIN Publisher /\ t.provider = Publisher[t.name]
    BY <1>1, <1>4, <1>6, Meet DEF t
  <2> QED
    BY <1>3, <1>4, <1>6, <2>1
<1>7. ASSUME kf.class = "package", Discless(kf), ~Discless(kg), ~Discless(kh), kg.disc # kh.disc,
             {[k EXCEPT !.disc = <<"">>] : k \in {kg, kh}} = {kf}
      PROVE  ~SameComponent(f, g)
  <2>1. kf = [kg EXCEPT !.disc = <<"">>] /\ kf = [kh EXCEPT !.disc = <<"">>]
    BY <1>7
  <2>2. /\ kg.class = kf.class /\ kg.name = kf.name /\ kg.provider = kf.provider
        /\ kh.class = kf.class /\ kh.name = kf.name /\ kh.provider = kf.provider
    BY <1>2, <2>1
  <2>3. kg \in Declared(D, kf) /\ kh \in Declared(D, kf) /\ kg # kh
    BY <1>1, <1>7, <2>2 DEF Declared
  <2>4. canonicalID(redirects, kf) # canonicalID(redirects, kg)
    BY <1>1, <1>7, <2>3, Unsettled
  <2> QED
    BY <1>4, <2>4 DEF t
<1> QED
  BY <1>5, <1>6, <1>7 DEF kf, kg, kh

(* foldPackages and foldModels merge two findings only when there is one
   package or vendor both can mean: whatever was found, in whatever order, a
   package two ecosystems declare and a model two vendors serve is never guessed. *)
THEOREM Refusal == ISpec => []NeverGuessed
  BY Names, Apart, PTL

-----------------------------------------------------------------------------
(* Folds of drafts *)

(* Induction over the natural numbers, for a set of them. *)
Below == {p \in Nat \X Nat : p[1] < p[2]}

(* A set of natural numbers has a least one. *)
LEMMA First == ASSUME NEW T \in SUBSET Nat, T # {} PROVE \E x \in T : \A y \in T : x <= y
<1>1. OpToRel(<, Nat) = Below
  BY DEF OpToRel, Below
<1>2. IsWellFoundedOn(Below, Nat)
  BY <1>1, NatLessThanWellFounded
<1>3. PICK x \in T : \A y \in T : ~ (<<y, x>> \in Below)
  BY <1>2, WFMin
<1>4. ASSUME NEW y \in T PROVE x <= y
  <2>1. <<y, x>> \in Nat \X Nat /\ <<y, x>>[1] = y /\ <<y, x>>[2] = x
    OBVIOUS
  <2>2. ~(y < x)
    BY <1>3, <2>1 DEF Below
  <2> QED
    BY <2>2
<1> QED
  BY <1>4

(* A set of natural numbers with 0 and every successor has them all. *)
LEMMA Induction ==
  ASSUME NEW T, 0 \in T, \A n \in Nat : n \in T => n + 1 \in T
  PROVE  Nat \subseteq T
<1> SUFFICES ASSUME Nat \ T # {} PROVE FALSE
  OBVIOUS
<1>1. PICK x \in Nat \ T : \A y \in Nat \ T : x <= y
  BY First
<1>2. x - 1 \in Nat /\ x - 1 \in T
  BY <1>1
<1> QED
  BY <1>1, <1>2

(* A fold of drafts is made step by step. *)
FoldsTo(F, d, srcs, n) ==
  /\ DOMAIN F = 0 .. n /\ F[0] = d
  /\ \A i \in 1 .. n : F[i] = mergeDraft(F[i - 1], srcs[i])

(* The drafts of a fold can be listed, for any number of sources. *)
LEMMA FoldExists ==
  ASSUME NEW d, NEW srcs, NEW n \in Nat PROVE \E F : FoldsTo(F, d, srcs, n)
<1>1. PICK T : T = {m \in Nat : \E F : FoldsTo(F, d, srcs, m)}
  OBVIOUS
<1>2. 0 \in T
  <2>1. PICK F : F = [i \in 0 .. 0 |-> d]
    OBVIOUS
  <2>2. FoldsTo(F, d, srcs, 0)
    BY <2>1 DEF FoldsTo
  <2> QED
    BY <1>1, <2>2
<1>3. ASSUME NEW m \in Nat, m \in T PROVE m + 1 \in T
  <2>1. PICK F : FoldsTo(F, d, srcs, m)
    BY <1>1, <1>3
  <2>2. PICK new : new = mergeDraft(F[m], srcs[m + 1])
    OBVIOUS
  <2>3. PICK G : G = [i \in 0 .. m + 1 |-> IF i = m + 1 THEN new ELSE F[i]]
    OBVIOUS
  <2>4. DOMAIN G = 0 .. m + 1 /\ G[m + 1] = new /\ \A i \in 0 .. m : G[i] = F[i]
    BY <2>3
  <2>5. G[0] = d
    BY <2>1, <2>4 DEF FoldsTo
  <2>6. ASSUME NEW i \in 1 .. m + 1 PROVE G[i] = mergeDraft(G[i - 1], srcs[i])
    <3>1. CASE i = m + 1
      <4>1. i - 1 = m /\ m \in 0 .. m
        BY <3>1
      <4> QED
        BY <2>2, <2>4, <3>1, <4>1
    <3>2. CASE i # m + 1
      <4>1. i \in 1 .. m /\ i \in 0 .. m /\ i - 1 \in 0 .. m
        BY <3>2
      <4> QED
        BY <2>1, <2>4, <4>1 DEF FoldsTo
    <3> QED
      BY <3>1, <3>2
  <2>7. FoldsTo(G, d, srcs, m + 1)
    BY <2>4, <2>5, <2>6 DEF FoldsTo
  <2> QED
    BY <1>1, <2>7
<1>4. n \in T
  BY <1>2, <1>3, Induction
<1> QED
  BY <1>1, <1>4

(* mergeAll is the last draft of such a list. *)
LEMMA FoldRuns ==
  ASSUME NEW d, NEW srcs, Len(srcs) \in Nat
  PROVE  \E F : FoldsTo(F, d, srcs, Len(srcs)) /\ mergeAll(d, srcs) = F[Len(srcs)]
<1> DEFINE N == Len(srcs)
<1>1. PICK F : FoldsTo(F, d, srcs, N)
  BY FoldExists
<1>2. PICK G : G = [n \in 0 .. N |-> F[n]]
  OBVIOUS
<1>3. ASSUME NEW n \in 0 .. N
      PROVE  G[n] = IF n = 0 THEN d ELSE mergeDraft(G[n - 1], srcs[n])
  <2>1. CASE n = 0
    BY <1>1, <1>2, <2>1 DEF FoldsTo
  <2>2. CASE n # 0
    <3>1. n \in 1 .. N /\ n - 1 \in 0 .. N
      BY <2>2
    <3>2. G[n] = F[n] /\ G[n - 1] = F[n - 1]
      BY <1>2, <3>1
    <3> QED
      BY <1>1, <2>2, <3>1, <3>2 DEF FoldsTo
  <2> QED
    BY <2>1, <2>2
<1>4. G = [n \in 0 .. N |-> IF n = 0 THEN d ELSE mergeDraft(G[n - 1], srcs[n])]
  <2>1. PICK f : f = [n \in 0 .. N |-> IF n = 0 THEN d ELSE mergeDraft(G[n - 1], srcs[n])]
    OBVIOUS
  <2>2. DOMAIN f = 0 .. N /\ \A n \in 0 .. N : f[n] = IF n = 0 THEN d ELSE mergeDraft(G[n - 1], srcs[n])
    BY <2>1
  <2>3. f = [n \in 0 .. N |-> f[n]]
    BY <2>1
  <2>4. \A n \in 0 .. N : f[n] = G[n]
    BY <1>3, <2>2
  <2>5. f = G
    BY <1>2, <2>3, <2>4
  <2> QED
    BY <2>1, <2>5
<1>5. PICK upTo : upTo = CHOOSE H : H = [n \in 0 .. N |-> IF n = 0 THEN d ELSE mergeDraft(H[n - 1], srcs[n])]
  OBVIOUS
<1>6. upTo = [n \in 0 .. N |-> IF n = 0 THEN d ELSE mergeDraft(upTo[n - 1], srcs[n])]
  BY <1>4, <1>5
<1>7. mergeAll(d, srcs) = upTo[N]
  BY <1>5 DEF mergeAll
<1>8. FoldsTo(upTo, d, srcs, N)
  <2>1. DOMAIN upTo = 0 .. N /\ \A n \in 0 .. N : upTo[n] = IF n = 0 THEN d ELSE mergeDraft(upTo[n - 1], srcs[n])
    BY <1>6
  <2>2. \A n \in 1 .. N : upTo[n] = mergeDraft(upTo[n - 1], srcs[n])
    BY <2>1
  <2> QED
    BY <2>1, <2>2 DEF FoldsTo
<1> QED
  BY <1>7, <1>8

-----------------------------------------------------------------------------
(* Kinds and classes *)

(* The draft of a key is of a kind of its class. *)
Fitting(k, d) == "kind" \in DOMAIN d /\ d.kind \in ComponentKinds /\ classOf(d.kind) = k.class
KindInv == \A k \in DOMAIN drafts : Fitting(k, drafts[k])

(* A function on 1 .. N is a sequence of N. *)
LEMMA Functional == ASSUME NEW f, NEW N \in Nat, f = [i \in 1 .. N |-> f[i]] PROVE Len(f) = N /\ DOMAIN f = 1 .. N
<1>1. PICK S : S = {f[i] : i \in 1 .. N}
  OBVIOUS
<1>2. f \in [1 .. N -> S]
  BY <1>1
<1>3. f \in Seq(S)
  BY <1>2
<1> QED
  BY <1>2, <1>3, LenProperties

(* A finite set written out in order has nothing but its elements. *)
LEMMA SeqOfSet ==
  ASSUME NEW S, IsFiniteSet(S)
  PROVE  /\ Len(SetToSeq(S)) \in Nat /\ DOMAIN SetToSeq(S) = 1 .. Len(SetToSeq(S))
         /\ \A n \in DOMAIN SetToSeq(S) : SetToSeq(S)[n] \in S
<1>1. PICK N : N = Cardinality(S) /\ N \in Nat /\ ExistsBijection(1 .. N, S)
  BY FS_CardinalityType
<1>2. PICK f \in [1 .. N -> S] : IsInjective(f)
  BY <1>1 DEF ExistsBijection, Bijection, Injection, IsInjective
<1>3. PICK s : s = SetToSeq(S)
  OBVIOUS
<1>4. s \in [1 .. N -> S]
  BY <1>1, <1>2, <1>3 DEF SetToSeq
<1>5. s = [i \in 1 .. N |-> s[i]]
  BY <1>4
<1>6. Len(s) = N /\ DOMAIN s = 1 .. N
  BY <1>1, <1>5, Functional
<1> QED
  BY <1>1, <1>3, <1>4, <1>6

(* absorbInto keeps the kind within the class. *)
LEMMA AbsorbFits ==
  ASSUME NEW k, NEW d, NEW f, Fitting(k, d), f.claim.kind \in ComponentKinds, classOf(f.claim.kind) = k.class
  PROVE  Fitting(k, absorbInto(d, k, f))
<1>1. DOMAIN absorbInto(d, k, f) = DOMAIN d
  BY DEF absorbInto
<1>2. absorbInto(d, k, f).kind = MoreSpecific(f.claim.kind, d.kind)
  BY DEF absorbInto, Fitting
<1>3. MoreSpecific(f.claim.kind, d.kind) \in {f.claim.kind, d.kind}
  BY DEF MoreSpecific
<1> QED
  BY <1>1, <1>2, <1>3 DEF Fitting

(* So does mergeDraft. *)
LEMMA MergeFits ==
  ASSUME NEW k, NEW d, NEW s, Fitting(k, d), Fitting(k, s)
  PROVE  Fitting(k, mergeDraft(d, s))
<1>1. DOMAIN mergeDraft(d, s) = DOMAIN d
  BY DEF mergeDraft
<1>2. mergeDraft(d, s).kind = MoreSpecific(s.kind, d.kind)
  BY DEF mergeDraft, Fitting
<1>3. MoreSpecific(s.kind, d.kind) \in {s.kind, d.kind}
  BY DEF MoreSpecific
<1> QED
  BY <1>1, <1>2, <1>3 DEF Fitting

(* So does the whole fold. *)
LEMMA AllFit ==
  ASSUME NEW k, NEW d, NEW srcs, Len(srcs) \in Nat, Fitting(k, d),
         \A n \in 1 .. Len(srcs) : Fitting(k, srcs[n])
  PROVE  Fitting(k, mergeAll(d, srcs))
<1>1. PICK N : N = Len(srcs) /\ N \in Nat
  OBVIOUS
<1>2. PICK F : FoldsTo(F, d, srcs, N) /\ mergeAll(d, srcs) = F[N]
  BY <1>1, FoldRuns
<1>3. PICK T : T = {n \in Nat : n <= N => Fitting(k, F[n])}
  OBVIOUS
<1>4. 0 \in T
  BY <1>2, <1>3 DEF FoldsTo
<1>5. ASSUME NEW n \in Nat, n \in T PROVE n + 1 \in T
  <2>1. CASE n + 1 <= N
    <3>1. n + 1 \in 1 .. N /\ Fitting(k, F[n])
      BY <1>1, <1>3, <1>5, <2>1
    <3>2. F[n + 1] = mergeDraft(F[n + 1 - 1], srcs[n + 1]) /\ n + 1 - 1 = n
      BY <1>2, <3>1 DEF FoldsTo
    <3>3. Fitting(k, srcs[n + 1])
      BY <1>1, <3>1
    <3>4. Fitting(k, F[n + 1])
      BY <3>1, <3>2, <3>3, MergeFits
    <3> QED
      BY <1>3, <3>4
  <2>2. CASE ~(n + 1 <= N)
    BY <1>3, <2>2
  <2> QED
    BY <2>1, <2>2
<1>6. N \in T
  BY <1>1, <1>4, <1>5, Induction
<1> QED
  BY <1>1, <1>2, <1>3, <1>6

(* The drafts folded into k, in some order. *)
Sources(to, k) == {x \in DOMAIN to : to[x] = k}
Gathered(ds, to, k) == [n \in DOMAIN SetToSeq(Sources(to, k)) |-> ds[SetToSeq(Sources(to, k))[n]]]

(* The drafts gathered for k are those redirected to it. *)
LEMMA GatheredAre ==
  ASSUME NEW ds, NEW to, NEW k, IsFiniteSet(DOMAIN ds), DOMAIN to \subseteq DOMAIN ds
  PROVE  /\ Len(Gathered(ds, to, k)) \in Nat
         /\ DOMAIN Gathered(ds, to, k) = 1 .. Len(Gathered(ds, to, k))
         /\ \A n \in 1 .. Len(Gathered(ds, to, k)) :
              \E x \in Sources(to, k) : Gathered(ds, to, k)[n] = ds[x]
<1>1. IsFiniteSet(Sources(to, k))
  BY FS_Subset DEF Sources
<1>2. PICK s : s = SetToSeq(Sources(to, k))
  OBVIOUS
<1>3. PICK N : N = Len(s) /\ N \in Nat /\ DOMAIN s = 1 .. N /\ \A n \in DOMAIN s : s[n] \in Sources(to, k)
  BY <1>1, <1>2, SeqOfSet
<1>4. PICK g : g = Gathered(ds, to, k)
  OBVIOUS
<1>5. g = [n \in 1 .. N |-> ds[s[n]]]
  BY <1>2, <1>3, <1>4 DEF Gathered
<1>6. g = [n \in 1 .. N |-> g[n]] /\ \A n \in 1 .. N : g[n] = ds[s[n]]
  BY <1>5
<1>7. Len(g) = N /\ DOMAIN g = 1 .. N
  BY <1>3, <1>6, Functional
<1> QED
  BY <1>3, <1>4, <1>6, <1>7

(* foldInto merges the gathered drafts into k's. *)
LEMMA FoldedInto ==
  ASSUME NEW ds, NEW to, NEW k \in DOMAIN ds \ DOMAIN to
  PROVE  foldInto(ds, to)[k] = mergeAll(ds[k], Gathered(ds, to, k))
  BY DEF foldInto, Gathered, Sources

(* The folds of Build keep kind and class together. *)
LEMMA FoldFits ==
  ASSUME NEW ds, NEW to, IsFiniteSet(DOMAIN ds), Moves(DOMAIN ds, to),
         \A k \in DOMAIN ds : Fitting(k, ds[k]),
         NEW k \in DOMAIN ds \ DOMAIN to
  PROVE  Fitting(k, foldInto(ds, to)[k])
<1>1. DOMAIN to \subseteq DOMAIN ds
  BY DEF Moves
<1>2. PICK g : g = Gathered(ds, to, k)
  OBVIOUS
<1>3. Len(g) \in Nat /\ \A n \in 1 .. Len(g) : \E x \in Sources(to, k) : g[n] = ds[x]
  BY <1>1, <1>2, GatheredAre
<1>4. \A x \in Sources(to, k) : Fitting(k, ds[x])
  <2> TAKE x \in Sources(to, k)
  <2>1. x \in DOMAIN ds /\ (PackageMove(DOMAIN ds, x, k) \/ ModelMove(DOMAIN ds, x, k))
    BY DEF Sources, Moves
  <2>2. x.class = k.class
    BY <2>1 DEF PackageMove, ModelMove, Declared, Vendored
  <2> QED
    BY <2>1, <2>2 DEF Fitting
<1>5. \A n \in 1 .. Len(g) : Fitting(k, g[n])
  BY <1>3, <1>4
<1>6. Fitting(k, mergeAll(ds[k], g))
  BY <1>3, <1>5, AllFit
<1> QED
  BY <1>2, <1>6, FoldedInto

(* A new draft fits its key. *)
LEMMA FreshFits == ASSUME NEW k, NEW kind \in ComponentKinds, classOf(kind) = k.class PROVE Fitting(k, fresh(k, kind))
  BY DEF fresh, Fitting

(* So does the minted root. *)
LEMMA RootFits ==
  ASSUME NEW ds, \A k \in DOMAIN ds : Fitting(k, ds[k])
  PROVE  \A k \in DOMAIN mintRoot(ds) : Fitting(k, mintRoot(ds)[k])
<1>1. classOf("application") = RootKey.class /\ "application" \in ComponentKinds
  BY DEF classOf, RootKey, ComponentKinds
<1>2. Fitting(RootKey, fresh(RootKey, "application"))
  BY <1>1, FreshFits
<1> QED
  BY <1>2 DEF mintRoot, DraftOf

-----------------------------------------------------------------------------
(* Findings are of the kinds domain.go declares. *)
LEMMA KindOfFinding == \A f \in AllFindings : f.claim.kind \in ComponentKinds
  BY AssembleAssumption DEF AllFindings

(* A finding is absorbed by a draft of its class. *)
LEMMA AbsorbKinds == ASSUME NamesInv, KindInv, NEW f \in pending, Absorb(f) PROVE KindInv'
<1> DEFINE key == normalizeKey(f.claim)
<1>1. drafts' = absorb(drafts, f) /\ f.claim.kind \in ComponentKinds
  BY KindOfFinding DEF Absorb, NamesInv, ArrivalInv
<1>2. classOf(f.claim.kind) = key.class
  BY DEF normalizeKey
<1>3. drafts' = [k \in DOMAIN drafts \cup {key} |->
         IF k = key THEN absorbInto(DraftOf(drafts, key, f.claim.kind), key, f) ELSE drafts[k]]
  BY <1>1 DEF absorb
<1> HIDE DEF key
<1>4. Fitting(key, DraftOf(drafts, key, f.claim.kind))
  BY <1>1, <1>2, FreshFits DEF KindInv, DraftOf
<1>5. Fitting(key, absorbInto(DraftOf(drafts, key, f.claim.kind), key, f))
  BY <1>1, <1>2, <1>4, AbsorbFits
<1> QED
  BY <1>3, <1>5 DEF KindInv

(* Drafts are only folded into drafts of their class. *)
LEMMA FoldKinds == ASSUME NamesInv, KindInv, Fold PROVE KindInv'
<1>1. stage = "absorb" /\ redirects' = redirected(drafts) /\ drafts' = mintRoot(foldInto(drafts, redirects'))
  BY DEF Fold
<1>2. IsFiniteSet(DOMAIN drafts)
  BY <1>1 DEF NamesInv, KeyInv
<1>3. Moves(DOMAIN drafts, redirects')
  BY <1>1, <1>2, Redirects
<1>4. PICK ds : ds = foldInto(drafts, redirects')
  OBVIOUS
<1>5. DOMAIN ds = DOMAIN drafts \ DOMAIN redirects'
  BY <1>4 DEF foldInto
<1>6. \A k \in DOMAIN drafts \ DOMAIN redirects' : Fitting(k, ds[k])
  BY <1>2, <1>3, <1>4, FoldFits DEF KindInv
<1>7. \A k \in DOMAIN mintRoot(ds) : Fitting(k, mintRoot(ds)[k])
  BY <1>5, <1>6, RootFits
<1> QED
  BY <1>1, <1>4, <1>7 DEF KindInv

(* The promotion of parameters leaves the kinds alone. *)
LEMMA RelateKinds == ASSUME KindInv, Relate PROVE KindInv'
<1>1. drafts' = promoteParams(drafts)
  BY DEF Relate
<1>2. DOMAIN drafts' = DOMAIN drafts
  BY <1>1 DEF promoteParams
<1>3. \A k \in DOMAIN drafts : DOMAIN drafts'[k] = DOMAIN drafts[k] /\ drafts'[k].kind = drafts[k].kind
  BY <1>1 DEF promoteParams, KindInv, Fitting
<1> QED
  BY <1>2, <1>3 DEF KindInv, Fitting

(* No step makes a draft of another class. *)
LEMMA KindStep == NamesInv /\ KindInv /\ [INext]_<<vars, ovars>> => KindInv'
<1> SUFFICES ASSUME NamesInv, KindInv, [Next]_vars PROVE KindInv'
  BY AssemblyOrSame
<1>1. ASSUME Finish \/ Done \/ UNCHANGED vars PROVE KindInv'
  BY <1>1 DEF Finish, Done, vars, KindInv
<1> QED
  BY <1>1, AbsorbKinds, FoldKinds, RelateKinds DEF Next

(* There are no drafts at first. *)
LEMMA InitKinds == Init => KindInv
  BY DEF Init, KindInv

-----------------------------------------------------------------------------
(* Advisories of one reply *)

(* The records of one reply become findings one after the other. *)
VulnFields == {"id", "aliases", "score", "severity", "kev", "fixed"}
Scored(v) == v.score \in Nat /\ v.severity \in Nat /\ (v.score > 0 => v.severity = SeverityFromScore(v.score))
Rated(v) == DOMAIN v = VulnFields /\ Scored(v)
Sane(found) == \A id \in DOMAIN found : Rated(found[id]) /\ found[id].id = id /\ id \notin found[id].aliases
Holds(found, v) == /\ v.id \in DOMAIN found /\ NoMilder(found[v.id], v)
                   /\ v.aliases \subseteq found[v.id].aliases

(* A higher score is no lower a severity. *)
LEMMA ScoresRank ==
  ASSUME NEW a \in Nat, NEW b \in Nat, a <= b PROVE SeverityFromScore(a) <= SeverityFromScore(b)
  BY DEF SeverityFromScore

(* Two findings of one name become one that is no milder than either, with all their names. *)
LEMMA MergedAdvisory ==
  ASSUME NEW m, NEW v, Rated(m), Rated(v)
  PROVE  /\ Rated(mergeAdvisory(m, v)) /\ mergeAdvisory(m, v).id = m.id
         /\ NoMilder(mergeAdvisory(m, v), m) /\ NoMilder(mergeAdvisory(m, v), v)
         /\ mergeAdvisory(m, v).aliases = (m.aliases \cup v.aliases) \ {m.id}
<1> DEFINE r == mergeAdvisory(m, v)
<1>1. /\ DOMAIN r = VulnFields
      /\ r.score = IF moreSevere(v, m) THEN v.score ELSE m.score
      /\ r.severity = IF moreSevere(v, m) THEN v.severity ELSE m.severity
      /\ r.id = m.id
      /\ r.aliases = (m.aliases \cup v.aliases) \ {m.id}
  BY DEF mergeAdvisory, Rated, VulnFields
<1> HIDE DEF r
<1>2. NoMilder(r, m) /\ NoMilder(r, v)
  <2>1. /\ m.score \in Nat /\ v.score \in Nat /\ m.severity \in Nat /\ v.severity \in Nat
        /\ m.score > 0 /\ v.score > m.score => v.severity >= m.severity
        /\ v.score > 0 /\ m.score > v.score => m.severity >= v.severity
    BY ScoresRank DEF Rated, Scored
  <2> QED
    BY <1>1, <2>1 DEF moreSevere, NoMilder
<1> QED
  BY <1>1, <1>2 DEF Rated, Scored, r

(* A finding joins those already there, and none of them loses anything. *)
LEMMA JoinedSane ==
  ASSUME NEW found, NEW v, Sane(found), Rated(v), v.id \notin v.aliases
  PROVE  /\ Sane(joined(found, v)) /\ Holds(joined(found, v), v)
         /\ \A u : Rated(u) /\ Holds(found, u) => Holds(joined(found, v), u)
<1> DEFINE new == joined(found, v)
<1>1. /\ DOMAIN new = DOMAIN found \cup {v.id}
      /\ \A id \in DOMAIN found : id # v.id => new[id] = found[id]
      /\ v.id \in DOMAIN found => new[v.id] = mergeAdvisory(found[v.id], v)
      /\ v.id \notin DOMAIN found => new[v.id] = v
  BY DEF joined
<1> HIDE DEF new
<1>2. CASE v.id \notin DOMAIN found
  <2>1. Holds(new, v)
    BY <1>1, <1>2 DEF Holds, Rated, Scored, NoMilder
  <2>2. \A u : Rated(u) /\ Holds(found, u) => Holds(new, u)
    BY <1>1, <1>2 DEF Holds
  <2>3. Sane(new)
    BY <1>1, <1>2 DEF Sane
  <2> QED
    BY <2>1, <2>2, <2>3 DEF new
<1>3. CASE v.id \in DOMAIN found
  <2>1. PICK m : m = found[v.id] /\ Rated(m) /\ m.id = v.id /\ m.id \notin m.aliases
    BY <1>3 DEF Sane
  <2>2. PICK r : r = new[v.id] /\ r = mergeAdvisory(m, v)
    BY <1>1, <1>3, <2>1
  <2>3. /\ Rated(r) /\ r.id = v.id /\ NoMilder(r, m) /\ NoMilder(r, v)
        /\ r.aliases = (m.aliases \cup v.aliases) \ {v.id}
    BY <2>1, <2>2, MergedAdvisory
  <2>4. m.aliases \subseteq r.aliases /\ v.aliases \subseteq r.aliases /\ v.id \notin r.aliases
    BY <2>1, <2>3
  <2>5. Holds(new, v)
    BY <1>1, <1>3, <2>2, <2>3, <2>4 DEF Holds
  <2>6. ASSUME NEW u, Rated(u), Holds(found, u) PROVE Holds(new, u)
    <3>1. CASE u.id = v.id
      <4>1. NoMilder(m, u) /\ u.aliases \subseteq m.aliases
        BY <2>1, <2>6, <3>1 DEF Holds
      <4>2. NoMilder(r, u)
        BY <2>1, <2>3, <2>6, <4>1 DEF Rated, Scored, NoMilder
      <4> QED
        BY <1>1, <1>3, <2>2, <2>4, <3>1, <4>1, <4>2 DEF Holds
    <3>2. CASE u.id # v.id
      BY <1>1, <2>6, <3>2 DEF Holds
    <3> QED
      BY <3>1, <3>2
  <2>7. Sane(new)
    <3>1. Rated(new[v.id]) /\ new[v.id].id = v.id /\ v.id \notin new[v.id].aliases
      BY <2>2, <2>3, <2>4
    <3>2. ASSUME NEW id \in DOMAIN new, id # v.id
          PROVE  Rated(new[id]) /\ new[id].id = id /\ id \notin new[id].aliases
      <4>1. id \in DOMAIN found /\ new[id] = found[id]
        BY <1>1, <3>2
      <4> QED
        BY <4>1 DEF Sane
    <3> QED
      BY <3>1, <3>2 DEF Sane
  <2> QED
    BY <2>5, <2>6, <2>7 DEF new
<1> QED
  BY <1>2, <1>3

(* The loop of dedupeByID. *)
JoinsTo(F, vulns, n) ==
  DOMAIN F = 0 .. n /\ F[0] = << >> /\ \A i \in 1 .. n : F[i] = joined(F[i - 1], vulns[i])

(* The findings of dedupeByID can be listed, for any number of records. *)
LEMMA JoinExists == ASSUME NEW vulns, NEW n \in Nat PROVE \E F : JoinsTo(F, vulns, n)
<1>1. PICK T : T = {m \in Nat : \E F : JoinsTo(F, vulns, m)}
  OBVIOUS
<1>2. 0 \in T
  <2>1. PICK F : F = [i \in 0 .. 0 |-> << >>]
    OBVIOUS
  <2>2. JoinsTo(F, vulns, 0)
    BY <2>1 DEF JoinsTo
  <2> QED
    BY <1>1, <2>2
<1>3. ASSUME NEW m \in Nat, m \in T PROVE m + 1 \in T
  <2>1. PICK F : JoinsTo(F, vulns, m)
    BY <1>1, <1>3
  <2>2. PICK new : new = joined(F[m], vulns[m + 1])
    OBVIOUS
  <2>3. PICK G : G = [i \in 0 .. m + 1 |-> IF i = m + 1 THEN new ELSE F[i]]
    OBVIOUS
  <2>4. DOMAIN G = 0 .. m + 1 /\ G[m + 1] = new /\ \A i \in 0 .. m : G[i] = F[i]
    BY <2>3
  <2>5. G[0] = << >>
    BY <2>1, <2>4 DEF JoinsTo
  <2>6. ASSUME NEW i \in 1 .. m + 1 PROVE G[i] = joined(G[i - 1], vulns[i])
    <3>1. CASE i = m + 1
      <4>1. i - 1 = m /\ m \in 0 .. m
        BY <3>1
      <4> QED
        BY <2>2, <2>4, <3>1, <4>1
    <3>2. CASE i # m + 1
      <4>1. i \in 1 .. m /\ i \in 0 .. m /\ i - 1 \in 0 .. m
        BY <3>2
      <4> QED
        BY <2>1, <2>4, <4>1 DEF JoinsTo
    <3> QED
      BY <3>1, <3>2
  <2>7. JoinsTo(G, vulns, m + 1)
    BY <2>4, <2>5, <2>6 DEF JoinsTo
  <2> QED
    BY <1>1, <2>7
<1>4. n \in T
  BY <1>2, <1>3, Induction
<1> QED
  BY <1>1, <1>4

(* dedupeByID is the last of such a list. *)
LEMMA JoinRuns ==
  ASSUME NEW vulns, Len(vulns) \in Nat
  PROVE  \E F : JoinsTo(F, vulns, Len(vulns)) /\ dedupeByID(vulns) = Range(F[Len(vulns)])
<1> DEFINE N == Len(vulns)
<1>1. PICK F : JoinsTo(F, vulns, N)
  BY JoinExists
<1>2. PICK G : G = [n \in 0 .. N |-> F[n]]
  OBVIOUS
<1>3. ASSUME NEW n \in 0 .. N
      PROVE  G[n] = IF n = 0 THEN << >> ELSE joined(G[n - 1], vulns[n])
  <2>1. CASE n = 0
    BY <1>1, <1>2, <2>1 DEF JoinsTo
  <2>2. CASE n # 0
    <3>1. n \in 1 .. N /\ n - 1 \in 0 .. N
      BY <2>2
    <3>2. G[n] = F[n] /\ G[n - 1] = F[n - 1]
      BY <1>2, <3>1
    <3> QED
      BY <1>1, <2>2, <3>1, <3>2 DEF JoinsTo
  <2> QED
    BY <2>1, <2>2
<1>4. G = [n \in 0 .. N |-> IF n = 0 THEN << >> ELSE joined(G[n - 1], vulns[n])]
  <2>1. PICK f : f = [n \in 0 .. N |-> IF n = 0 THEN << >> ELSE joined(G[n - 1], vulns[n])]
    OBVIOUS
  <2>2. DOMAIN f = 0 .. N /\ \A n \in 0 .. N : f[n] = IF n = 0 THEN << >> ELSE joined(G[n - 1], vulns[n])
    BY <2>1
  <2>3. f = [n \in 0 .. N |-> f[n]]
    BY <2>1
  <2>4. \A n \in 0 .. N : f[n] = G[n]
    BY <1>3, <2>2
  <2>5. f = G
    BY <1>2, <2>3, <2>4
  <2> QED
    BY <2>1, <2>5
<1>5. PICK out : out = CHOOSE H : H = [n \in 0 .. N |-> IF n = 0 THEN << >> ELSE joined(H[n - 1], vulns[n])]
  OBVIOUS
<1>6. out = [n \in 0 .. N |-> IF n = 0 THEN << >> ELSE joined(out[n - 1], vulns[n])]
  BY <1>4, <1>5
<1>7. dedupeByID(vulns) = Range(out[N])
  BY <1>5 DEF dedupeByID
<1>8. JoinsTo(out, vulns, N)
  <2>1. DOMAIN out = 0 .. N /\ \A n \in 0 .. N : out[n] = IF n = 0 THEN << >> ELSE joined(out[n - 1], vulns[n])
    BY <1>6
  <2>2. \A n \in 1 .. N : out[n] = joined(out[n - 1], vulns[n])
    BY <2>1
  <2> QED
    BY <2>1, <2>2 DEF JoinsTo
<1> QED
  BY <1>7, <1>8

(* Of every record there is one finding, at least as severe and with all of
   its names; and no two findings have one name. *)
LEMMA Deduped ==
  ASSUME NEW vulns, Len(vulns) \in Nat,
         \A n \in 1 .. Len(vulns) : Rated(vulns[n]) /\ vulns[n].id \notin vulns[n].aliases
  PROVE  \E found : /\ dedupeByID(vulns) = Range(found) /\ Sane(found)
                    /\ \A n \in 1 .. Len(vulns) : Holds(found, vulns[n])
<1>1. PICK N : N = Len(vulns) /\ N \in Nat
  OBVIOUS
<1>2. PICK F : JoinsTo(F, vulns, N) /\ dedupeByID(vulns) = Range(F[N])
  BY <1>1, JoinRuns
<1>3. PICK T : T = {n \in Nat : n <= N => Sane(F[n]) /\ \A m \in 1 .. n : Holds(F[n], vulns[m])}
  OBVIOUS
<1>4. 0 \in T
  <2>1. F[0] = << >> /\ DOMAIN F[0] = {}
    BY <1>2 DEF JoinsTo
  <2>2. Sane(F[0]) /\ 1 .. 0 = {}
    BY <2>1 DEF Sane
  <2> QED
    BY <1>3, <2>2
<1>5. ASSUME NEW n \in Nat, n \in T PROVE n + 1 \in T
  <2>1. CASE n + 1 <= N
    <3>1. n + 1 \in 1 .. N /\ n <= N
      BY <1>1, <2>1
    <3>2. Sane(F[n]) /\ \A m \in 1 .. n : Holds(F[n], vulns[m])
      BY <1>3, <1>5, <3>1
    <3>3. F[n + 1] = joined(F[n + 1 - 1], vulns[n + 1]) /\ n + 1 - 1 = n
      BY <1>2, <3>1 DEF JoinsTo
    <3>4. PICK v : v = vulns[n + 1] /\ Rated(v) /\ v.id \notin v.aliases
      BY <1>1, <3>1
    <3>5. F[n + 1] = joined(F[n], v)
      BY <3>3, <3>4
    <3>6. Sane(F[n + 1]) /\ Holds(F[n + 1], v) /\ \A u : Rated(u) /\ Holds(F[n], u) => Holds(F[n + 1], u)
      BY <3>2, <3>4, <3>5, JoinedSane
    <3>7. \A m \in 1 .. n + 1 : m = n + 1 \/ m \in 1 .. n
      OBVIOUS
    <3>8. \A m \in 1 .. n + 1 : Holds(F[n + 1], vulns[m])
      BY <1>1, <3>1, <3>2, <3>4, <3>6, <3>7
    <3> QED
      BY <1>3, <3>6, <3>8
  <2>2. CASE ~(n + 1 <= N)
    BY <1>3, <2>2
  <2> QED
    BY <2>1, <2>2
<1>6. N \in T
  BY <1>1, <1>4, <1>5, Induction
<1>7. Sane(F[N]) /\ \A m \in 1 .. N : Holds(F[N], vulns[m])
  BY <1>1, <1>3, <1>6
<1> QED
  BY <1>1, <1>2, <1>7

-----------------------------------------------------------------------------
(* The overlays, component by component *)

(* The comparison tells components apart by their identifiers. *)
OwnIds(i) == \A c, d \in i.components : c.id = d.id => c = d

Facts == {"id", "kind", "name", "group", "provider", "licenses", "hashes", "downloadLocation", "format",
          "eco", "version", "versionConstraint", "identity", "confidence", "occs", "testOnly", "purl",
          "risks", "generationParams"}
InventoryFields == {"root", "relationships", "controls", "components", "tool"}
Alike(b, c) == \A x \in Facts : c[x] = b[x]
Annotable(i) == /\ DOMAIN i = InventoryFields /\ OwnIds(i)
                /\ \A c \in i.components : DOMAIN c = Facts \cup {"vulns", "eol"}
(* j says of the same components the same facts. *)
Restates(i, j) ==
  /\ j.root = i.root /\ j.relationships = i.relationships
  /\ \A b \in i.components : \E c \in j.components : Alike(b, c)
  /\ \A c \in j.components : \E b \in i.components : Alike(b, c)

Answers(c, w) ==
  IF queryablePurl(c) /\ ~skippedTests(c, w.includeTests) /\ c.name \notin w.down THEN query(w, c) ELSE {}
Marked(vs, w) ==
  IF kevFor(w).catalog = Refused THEN vs ELSE {[v EXCEPT !.kev = lookupAny(kevFor(w).catalog, v)] : v \in vs}
Claim(c, w) ==
  IF catalogFor(w).catalog = Refused THEN NoClaim ELSE enrichEOL(c, catalogFor(w).catalog, w.day)

(* Facts the overlays read. *)
LEMMA AlikeSame ==
  ASSUME NEW b, NEW c, Alike(b, c)
  PROVE  /\ c.id = b.id /\ c.kind = b.kind /\ c.name = b.name /\ c.provider = b.provider
         /\ c.purl = b.purl /\ c.testOnly = b.testOnly /\ c.version = b.version
         /\ c.versionConstraint = b.versionConstraint /\ c.eco = b.eco
  BY DEF Alike, Facts

(* Alike is transitive. *)
LEMMA AlikeTogether ==
  ASSUME NEW a, NEW b, NEW c, Alike(a, b), Alike(b, c) PROVE Alike(a, c)
  BY DEF Alike

(* The advisories of a component depend on its facts only. *)
LEMMA AnswersAlike == ASSUME NEW b, NEW c, NEW w, Alike(b, c) PROVE Answers(c, w) = Answers(b, w)
  BY AlikeSame DEF Answers, queryablePurl, skippedTests, query, Asked

(* So does its lifecycle claim. *)
LEMMA ClaimAlike == ASSUME NEW b, NEW c, NEW w, Alike(b, c) PROVE Claim(c, w) = Claim(b, w)
<1>1. modelIDs(c) = modelIDs(b)
  BY AlikeSame DEF modelIDs
<1> QED
  BY <1>1, AlikeSame DEF Claim, enrichEOL

(* An inventory whose components are rewritten one by one. *)
LEMMA RestatesOf ==
  ASSUME NEW i, NEW j, Annotable(i), DOMAIN j = InventoryFields,
         j.root = i.root, j.relationships = i.relationships,
         NEW g, DOMAIN g = i.components,
         j.components = {g[c] : c \in i.components},
         \A c \in i.components : Alike(c, g[c]) /\ DOMAIN g[c] = DOMAIN c
  PROVE  Annotable(j) /\ Restates(i, j)
<1>1. \A c \in i.components : g[c].id = c.id
  BY AlikeSame
<1>2. OwnIds(j)
  <2> SUFFICES ASSUME NEW c \in j.components, NEW d \in j.components, c.id = d.id PROVE c = d
    BY DEF OwnIds
  <2>1. PICK a \in i.components : c = g[a]
    OBVIOUS
  <2>2. PICK b \in i.components : d = g[b]
    OBVIOUS
  <2>3. a = b
    BY <1>1, <2>1, <2>2 DEF Annotable, OwnIds
  <2> QED
    BY <2>1, <2>2, <2>3
<1>3. \A c \in j.components : DOMAIN c = Facts \cup {"vulns", "eol"}
  BY DEF Annotable
<1>4. Restates(i, j)
  BY DEF Restates
<1> QED
  BY <1>2, <1>3, <1>4 DEF Annotable

(* Overlays one after the other add to the same components. *)
LEMMA RestatesTogether ==
  ASSUME NEW i, NEW j, NEW k, Restates(i, j), Restates(j, k) PROVE Restates(i, k)
<1>1. ASSUME NEW b \in i.components PROVE \E c \in k.components : Alike(b, c)
  <2>1. PICK a \in j.components : Alike(b, a)
    BY DEF Restates
  <2>2. PICK c \in k.components : Alike(a, c)
    BY DEF Restates
  <2> QED
    BY <2>1, <2>2, AlikeTogether
<1>2. ASSUME NEW c \in k.components PROVE \E b \in i.components : Alike(b, c)
  <2>1. PICK a \in j.components : Alike(a, c)
    BY DEF Restates
  <2>2. PICK b \in i.components : Alike(b, a)
    BY DEF Restates
  <2> QED
    BY <2>1, <2>2, AlikeTogether
<1> QED
  BY <1>1, <1>2 DEF Restates

(* What the assembler hands over. *)
Assembled(i) == OwnIds(i) /\ \A c \in i.components : DOMAIN c = Facts

(* The assembler hands over components with identifiers of their own. *)
LEMMA AssembledInventory == ASSUME NEW ds, NEW es PROVE Assembled(inventory(ds, es)) /\ inventory(ds, es).root = RootKey
<1>1. \A c \in inventory(ds, es).components : \E k \in DOMAIN ds : c = finish(k, ds[k])
  BY Finished
<1>2. \A k, d : finish(k, d).id = k /\ DOMAIN finish(k, d) = Facts
  BY DEF finish, Facts
<1>3. OwnIds(inventory(ds, es))
  BY <1>1, <1>2 DEF OwnIds
<1>4. \A c \in inventory(ds, es).components : DOMAIN c = Facts
  BY <1>1, <1>2
<1>5. inventory(ds, es).root = RootKey
  BY DEF inventory
<1> QED
  BY <1>3, <1>4, <1>5 DEF Assembled

(* A component gets places for advisories and a claim. *)
LEMMA BareOne ==
  ASSUME NEW c, DOMAIN c = Facts
  PROVE  DOMAIN bare(c) = Facts \cup {"vulns", "eol"} /\ Alike(c, bare(c)) /\ bare(c).vulns = {} /\ bare(c).eol = NoClaim
  BY DEF bare, Facts, Alike

(* So do all of them. *)
LEMMA BareAll ==
  ASSUME NEW i, Assembled(i)
  PROVE  /\ Annotable(Bare(i)) /\ Bare(i).root = i.root /\ Bare(i).relationships = i.relationships
         /\ \A b \in i.components : \E c \in Bare(i).components : Alike(b, c)
         /\ \A c \in Bare(i).components :
              c.vulns = {} /\ c.eol = NoClaim /\ \E b \in i.components : Alike(b, c)
<1>1. \A c \in i.components : /\ DOMAIN bare(c) = Facts \cup {"vulns", "eol"} /\ Alike(c, bare(c))
                              /\ bare(c).vulns = {} /\ bare(c).eol = NoClaim
  BY BareOne DEF Assembled
<1>2. /\ DOMAIN Bare(i) = InventoryFields /\ Bare(i).root = i.root /\ Bare(i).relationships = i.relationships
      /\ Bare(i).components = {bare(c) : c \in i.components}
  BY DEF Bare, InventoryFields
<1>3. OwnIds(Bare(i))
  <2> SUFFICES ASSUME NEW c \in Bare(i).components, NEW d \in Bare(i).components, c.id = d.id PROVE c = d
    BY DEF OwnIds
  <2>1. PICK a \in i.components : c = bare(a)
    BY <1>2
  <2>2. PICK b \in i.components : d = bare(b)
    BY <1>2
  <2>3. c.id = a.id /\ d.id = b.id
    BY <1>1, <2>1, <2>2, AlikeSame
  <2>4. a = b
    BY <2>3 DEF Assembled, OwnIds
  <2> QED
    BY <2>1, <2>2, <2>4
<1>4. \A c \in Bare(i).components :
        /\ DOMAIN c = Facts \cup {"vulns", "eol"} /\ c.vulns = {} /\ c.eol = NoClaim
        /\ \E b \in i.components : Alike(b, c)
  BY <1>1, <1>2
<1>5. \A b \in i.components : \E c \in Bare(i).components : Alike(b, c)
  BY <1>1, <1>2
<1> QED
  BY <1>2, <1>3, <1>4, <1>5 DEF Annotable

(* CheckAdvisories writes to every component the answers about it. *)
LEMMA Advised ==
  ASSUME NEW i, NEW w, Annotable(i)
  PROVE  LET j == CheckAdvisories(i, w) IN
         /\ Annotable(j) /\ Restates(i, j)
         /\ \A c \in j.components : /\ c.vulns = Answers(c, w)
                                    /\ \E b \in i.components : Alike(b, c) /\ c.eol = b.eol
<1> DEFINE j == CheckAdvisories(i, w)
           jobs == jobsOf(i.components, w.includeTests)
           failed == {c \in jobs : c.name \in w.down}
           put(c) == [c EXCEPT !.vulns = IF c \in jobs \ failed THEN query(w, c) ELSE {}]
<1>1. \A c \in i.components : c \in jobs \ failed <=> queryablePurl(c) /\ ~skippedTests(c, w.includeTests) /\ c.name \notin w.down
  BY DEF jobsOf
<1>2. PICK g : g = [c \in i.components |-> put(c)]
  OBVIOUS
<1>3. /\ DOMAIN j = DOMAIN i /\ j.root = i.root /\ j.relationships = i.relationships
      /\ j.components = {put(c) : c \in i.components}
  BY DEF CheckAdvisories, enrichCVE, Annotable, InventoryFields
<1> HIDE DEF j, jobs, failed, put
<1>4. DOMAIN g = i.components /\ \A c \in i.components : g[c] = put(c)
  BY <1>2
<1>5. j.components = {g[c] : c \in i.components}
  BY <1>3, <1>4
<1>6. ASSUME NEW c \in i.components
      PROVE  /\ Alike(c, g[c]) /\ DOMAIN g[c] = DOMAIN c /\ g[c].eol = c.eol
             /\ g[c].vulns = Answers(c, w)
  <2>1. DOMAIN c = Facts \cup {"vulns", "eol"}
    BY DEF Annotable
  <2>2. "vulns" \notin Facts
    BY DEF Facts
  <2>3. PICK v : v = IF c \in jobs \ failed THEN query(w, c) ELSE {}
    OBVIOUS
  <2>4. g[c] = [c EXCEPT !.vulns = v]
    BY <1>4, <2>3 DEF put
  <2>5. DOMAIN g[c] = DOMAIN c /\ g[c].vulns = v /\ g[c].eol = c.eol /\ \A x \in Facts : g[c][x] = c[x]
    BY <2>1, <2>2, <2>4
  <2>6. v = Answers(c, w)
    BY <1>1, <2>3 DEF Answers
  <2> QED
    BY <2>5, <2>6 DEF Alike
<1>7. DOMAIN j = InventoryFields
  BY <1>3 DEF Annotable
<1>8. Annotable(j) /\ Restates(i, j)
  BY <1>3, <1>4, <1>5, <1>6, <1>7, RestatesOf
<1>9. ASSUME NEW c \in j.components
      PROVE  c.vulns = Answers(c, w) /\ \E b \in i.components : Alike(b, c) /\ c.eol = b.eol
  <2>1. PICK b \in i.components : c = g[b]
    BY <1>5, <1>9
  <2>2. Answers(c, w) = Answers(b, w)
    BY <1>6, <2>1, AnswersAlike
  <2> QED
    BY <1>6, <2>1, <2>2
<1> QED
  BY <1>8, <1>9 DEF j

(* MarkExploited writes the marks, and nothing else. *)
LEMMA Exploited ==
  ASSUME NEW i, NEW w, Annotable(i)
  PROVE  LET j == MarkExploited(i, w) IN
         /\ Annotable(j) /\ Restates(i, j)
         /\ \A c \in j.components :
              \E b \in i.components : Alike(b, c) /\ c.eol = b.eol /\ c.vulns = Marked(b.vulns, w)
<1> DEFINE j == MarkExploited(i, w)
           cat == kevFor(w).catalog
           put(c) == [c EXCEPT !.vulns = {[v EXCEPT !.kev = lookupAny(cat, v)] : v \in @}]
<1>1. CASE cat = Refused
  <2>1. j = i
    BY <1>1 DEF MarkExploited
  <2>2. \A c : Alike(c, c)
    BY DEF Alike
  <2>3. \A c : Marked(c.vulns, w) = c.vulns
    BY <1>1 DEF Marked
  <2> QED
    BY <2>1, <2>2, <2>3 DEF Restates
<1>2. CASE cat # Refused
  <2>1. PICK g : g = [c \in i.components |-> put(c)]
    OBVIOUS
  <2>2. /\ DOMAIN j = DOMAIN i /\ j.root = i.root /\ j.relationships = i.relationships
        /\ j.components = {put(c) : c \in i.components}
    BY <1>2 DEF MarkExploited, enrichKEV, Annotable, InventoryFields
  <2> HIDE DEF j, put
  <2>3. DOMAIN g = i.components /\ \A c \in i.components : g[c] = put(c)
    BY <2>1
  <2>4. j.components = {g[c] : c \in i.components}
    BY <2>2, <2>3
  <2>5. ASSUME NEW c \in i.components
        PROVE  /\ Alike(c, g[c]) /\ DOMAIN g[c] = DOMAIN c /\ g[c].eol = c.eol
               /\ g[c].vulns = Marked(c.vulns, w)
    <3>1. DOMAIN c = Facts \cup {"vulns", "eol"}
      BY DEF Annotable
    <3>2. "vulns" \notin Facts
      BY DEF Facts
    <3>3. PICK v : v = Marked(c.vulns, w)
      OBVIOUS
    <3>4. v = {[u EXCEPT !.kev = lookupAny(cat, u)] : u \in c.vulns}
      BY <1>2, <3>3 DEF Marked
    <3>5. g[c] = [c EXCEPT !.vulns = v]
      BY <2>3, <3>4 DEF put
    <3>6. DOMAIN g[c] = DOMAIN c /\ g[c].vulns = v /\ g[c].eol = c.eol /\ \A x \in Facts : g[c][x] = c[x]
      BY <3>1, <3>2, <3>5
    <3> QED
      BY <3>3, <3>6 DEF Alike
  <2>6. DOMAIN j = InventoryFields
    BY <2>2 DEF Annotable
  <2>7. Annotable(j) /\ Restates(i, j)
    BY <2>2, <2>3, <2>4, <2>5, <2>6, RestatesOf
  <2>8. ASSUME NEW c \in j.components
        PROVE  \E b \in i.components : Alike(b, c) /\ c.eol = b.eol /\ c.vulns = Marked(b.vulns, w)
    BY <2>4, <2>5, <2>8
  <2> QED
    BY <2>7, <2>8 DEF j
<1> QED
  BY <1>1, <1>2

(* ClaimLifecycles writes to every component the claim about it. *)
LEMMA LifecyclesClaimed ==
  ASSUME NEW i, NEW w, Annotable(i), \A c \in i.components : c.eol = NoClaim
  PROVE  LET j == ClaimLifecycles(i, w) IN
         /\ Annotable(j) /\ Restates(i, j)
         /\ \A c \in j.components :
              c.eol = Claim(c, w) /\ \E b \in i.components : Alike(b, c) /\ c.vulns = b.vulns
<1> DEFINE j == ClaimLifecycles(i, w)
           cat == catalogFor(w).catalog
           put(c) == [c EXCEPT !.eol = enrichEOL(c, cat, w.day)]
<1>1. CASE cat = Refused
  <2>1. j = i
    BY <1>1 DEF ClaimLifecycles
  <2>2. \A c : Alike(c, c)
    BY DEF Alike
  <2>3. \A c \in i.components : c.eol = Claim(c, w)
    BY <1>1 DEF Claim
  <2> QED
    BY <2>1, <2>2, <2>3 DEF Restates
<1>2. CASE cat # Refused
  <2>1. PICK g : g = [c \in i.components |-> put(c)]
    OBVIOUS
  <2>2. PICK from : from = catalogFor(w).from
    OBVIOUS
  <2>3. j = [i EXCEPT !.components = {put(c) : c \in @}, !.tool.eolCatalog = from]
    BY <1>2, <2>2 DEF ClaimLifecycles
  <2> HIDE DEF j, put
  <2>4. /\ DOMAIN j = DOMAIN i /\ j.root = i.root /\ j.relationships = i.relationships
        /\ j.components = {put(c) : c \in i.components}
    BY <2>3 DEF Annotable, InventoryFields
  <2>5. DOMAIN g = i.components /\ \A c \in i.components : g[c] = put(c)
    BY <2>1
  <2>6. j.components = {g[c] : c \in i.components}
    BY <2>4, <2>5
  <2>7. ASSUME NEW c \in i.components
        PROVE  /\ Alike(c, g[c]) /\ DOMAIN g[c] = DOMAIN c /\ g[c].vulns = c.vulns
               /\ g[c].eol = Claim(c, w)
    <3>1. DOMAIN c = Facts \cup {"vulns", "eol"}
      BY DEF Annotable
    <3>2. "eol" \notin Facts
      BY DEF Facts
    <3>3. PICK v : v = Claim(c, w)
      OBVIOUS
    <3>4. g[c] = [c EXCEPT !.eol = v]
      BY <1>2, <2>5, <3>3 DEF put, Claim
    <3>5. DOMAIN g[c] = DOMAIN c /\ g[c].eol = v /\ g[c].vulns = c.vulns /\ \A x \in Facts : g[c][x] = c[x]
      BY <3>1, <3>2, <3>4
    <3> QED
      BY <3>3, <3>5 DEF Alike
  <2>8. DOMAIN j = InventoryFields
    BY <2>4 DEF Annotable
  <2>9. Annotable(j) /\ Restates(i, j)
    BY <2>4, <2>5, <2>6, <2>7, <2>8, RestatesOf
  <2>10. ASSUME NEW c \in j.components
         PROVE  c.eol = Claim(c, w) /\ \E b \in i.components : Alike(b, c) /\ c.vulns = b.vulns
    <3>1. PICK b \in i.components : c = g[b]
      BY <2>6, <2>10
    <3>2. Claim(c, w) = Claim(b, w)
      BY <2>7, <3>1, ClaimAlike
    <3> QED
      BY <2>7, <3>1, <3>2
  <2> QED
    BY <2>9, <2>10 DEF j
<1> QED
  BY <1>1, <1>2

(* Every component of an annotated inventory is one of the assembler's, with
   the answers, marks and claims that are about it. *)
LEMMA AnnotatedIs ==
  ASSUME NEW i, NEW w, Assembled(i)
  PROVE  LET j == Annotated(i, w) IN
         /\ Annotable(j) /\ j.root = i.root /\ j.relationships = i.relationships
         /\ \A b \in i.components : \E c \in j.components : Alike(b, c)
         /\ \A c \in j.components : /\ \E b \in i.components : Alike(b, c)
                                    /\ c.vulns = Marked(Answers(c, w), w)
                                    /\ c.eol = Claim(c, w)
<1> DEFINE i1 == Bare(i)
           i2 == CheckAdvisories(i1, w)
           i3 == MarkExploited(i2, w)
           i4 == ClaimLifecycles(i3, w)
           j  == Annotated(i, w)
<1>1. /\ Annotable(i1) /\ i1.root = i.root /\ i1.relationships = i.relationships
      /\ \A b \in i.components : \E c \in i1.components : Alike(b, c)
      /\ \A c \in i1.components : c.eol = NoClaim /\ \E b \in i.components : Alike(b, c)
  BY BareAll
<1> HIDE DEF i1
<1>2. /\ Annotable(i2) /\ Restates(i1, i2)
      /\ \A c \in i2.components : /\ c.vulns = Answers(c, w)
                                  /\ \E b \in i1.components : Alike(b, c) /\ c.eol = b.eol
  BY <1>1, Advised
<1> HIDE DEF i2
<1>3. /\ Annotable(i3) /\ Restates(i2, i3)
      /\ \A c \in i3.components :
           \E b \in i2.components : Alike(b, c) /\ c.eol = b.eol /\ c.vulns = Marked(b.vulns, w)
  BY <1>2, Exploited
<1> HIDE DEF i3
<1>4. \A c \in i3.components : c.eol = NoClaim /\ c.vulns = Marked(Answers(c, w), w)
  <2> TAKE c \in i3.components
  <2>1. PICK b \in i2.components : Alike(b, c) /\ c.eol = b.eol /\ c.vulns = Marked(b.vulns, w)
    BY <1>3
  <2>2. b.vulns = Answers(b, w) /\ Answers(c, w) = Answers(b, w)
    BY <1>2, <2>1, AnswersAlike
  <2>3. b.eol = NoClaim
    BY <1>1, <1>2
  <2> QED
    BY <2>1, <2>2, <2>3
<1>5. /\ Annotable(i4) /\ Restates(i3, i4)
      /\ \A c \in i4.components : c.eol = Claim(c, w) /\ \E b \in i3.components : Alike(b, c) /\ c.vulns = b.vulns
  BY <1>3, <1>4, LifecyclesClaimed
<1> HIDE DEF i4
<1>6. \A c \in i4.components : c.vulns = Marked(Answers(c, w), w)
  <2> TAKE c \in i4.components
  <2>1. PICK b \in i3.components : Alike(b, c) /\ c.vulns = b.vulns
    BY <1>5
  <2>2. Answers(c, w) = Answers(b, w)
    BY <2>1, AnswersAlike
  <2> QED
    BY <1>4, <2>1, <2>2
<1>7. PICK k : k = {evalControl(x, i4.components, w.includeTests) : x \in Frameworks}
  OBVIOUS
<1>8. j = [i4 EXCEPT !.controls = k]
  BY <1>7 DEF Annotated, Comply, i1, i2, i3, i4
<1> HIDE DEF j
<1>9. DOMAIN j = InventoryFields /\ j.root = i4.root /\ j.relationships = i4.relationships /\ j.components = i4.components
  BY <1>5, <1>8 DEF Annotable, InventoryFields
<1>10. Annotable(j)
  BY <1>5, <1>9 DEF Annotable, OwnIds
<1>11. Restates(i1, i4)
  BY <1>2, <1>3, <1>5, RestatesTogether
<1>12. ASSUME NEW b \in i.components PROVE \E c \in j.components : Alike(b, c)
  <2>1. PICK a \in i1.components : Alike(b, a)
    BY <1>1
  <2>2. PICK c \in i4.components : Alike(a, c)
    BY <1>11 DEF Restates
  <2> QED
    BY <1>9, <2>1, <2>2, AlikeTogether
<1>13. ASSUME NEW c \in j.components PROVE \E b \in i.components : Alike(b, c)
  <2>1. PICK a \in i1.components : Alike(a, c)
    BY <1>9, <1>11 DEF Restates
  <2>2. PICK b \in i.components : Alike(b, a)
    BY <1>1
  <2> QED
    BY <2>1, <2>2, AlikeTogether
<1>14. j.root = i.root /\ j.relationships = i.relationships
  BY <1>1, <1>9, <1>11 DEF Restates
<1>15. \A c \in j.components : c.vulns = Marked(Answers(c, w), w) /\ c.eol = Claim(c, w)
  BY <1>5, <1>6, <1>9
<1> QED
  BY <1>10, <1>12, <1>13, <1>14, <1>15 DEF j

-----------------------------------------------------------------------------
(* The scan, and its gate *)

(* The overlays run one after the other over the inventory the assembler
   handed over, on the data of the scan's world. *)
CVEWarnings(i, w) == enrichCVE(Bare(i).components, w).warnings
KEVWarnings(w) ==
  LET f == kevFor(w) IN
  IF f.catalog = Refused THEN f.warn \cup {"kev unavailable"}
  ELSE f.warn \cup (IF staleKEV(f.catalog, w.day) THEN {"kev stale"} ELSE {})
EOLWarnings(w) ==
  LET f == catalogFor(w) IN
  IF f.catalog = Refused THEN f.warn \cup {"eol unavailable"}
  ELSE f.warn \cup {x[1] : x \in StalenessWarning(f.catalog, w.day)}
FlowInv ==
  /\ world \in Worlds
  /\ phase \in {"assembly", "kev", "eol", "comply", "done"}
  /\ phase # "assembly" => stage = "done"
  /\ stage = "done" => inv = inventory(drafts, edges)
  /\ phase = "kev" => doc = CheckAdvisories(Bare(inv), world)
  /\ phase = "eol" => doc = MarkExploited(CheckAdvisories(Bare(inv), world), world)
  /\ phase = "comply" =>
       doc = ClaimLifecycles(MarkExploited(CheckAdvisories(Bare(inv), world), world), world)
  /\ phase = "done" => doc = Annotated(inv, world)
  /\ phase = "assembly" => said = {}
  /\ phase = "kev" => said = CVEWarnings(inv, world)
  /\ phase = "eol" => said = CVEWarnings(inv, world) \cup KEVWarnings(world)
  /\ phase \in {"comply", "done"} =>
       said = CVEWarnings(inv, world) \cup KEVWarnings(world) \cup EOLWarnings(world)

(* No overlay has run at first. *)
LEMMA InitFlow == IInit => FlowInv
  BY DEF IInit, Init, FlowInv

(* Each overlay runs on what the one before left, in the world of the scan. *)
LEMMA FlowStep == FlowInv /\ [INext]_<<vars, ovars>> => FlowInv'
<1> SUFFICES ASSUME FlowInv, [INext]_<<vars, ovars>> PROVE FlowInv'
  OBVIOUS
<1>1. CASE Assembly
  <2>1. UNCHANGED <<world, doc, said, phase>> /\ Next /\ ~Done
    BY <1>1 DEF Assembly, ovars
  <2>2. stage # "done"
    BY <2>1 DEF Next, Absorb, Fold, Relate, Finish
  <2>3. phase = "assembly"
    BY <2>2 DEF FlowInv
  <2>4. stage' = "done" => Finish
    BY <2>1, <2>2 DEF Next, Absorb, Fold, Relate
  <2>5. stage' = "done" => inv' = inventory(drafts, edges) /\ drafts' = drafts /\ edges' = edges
    BY <2>4 DEF Finish
  <2> QED
    BY <2>1, <2>3, <2>5 DEF FlowInv
<1>2. ASSUME UNCHANGED vars, world' = world,
             \/ /\ phase = "assembly" /\ stage = "done" /\ phase' = "kev"
                /\ doc' = CheckAdvisories(Bare(inv), world) /\ said' = said \cup CVEWarnings(inv, world)
             \/ /\ phase = "kev" /\ phase' = "eol"
                /\ doc' = MarkExploited(doc, world) /\ said' = said \cup KEVWarnings(world)
             \/ /\ phase = "eol" /\ phase' = "comply"
                /\ doc' = ClaimLifecycles(doc, world) /\ said' = said \cup EOLWarnings(world)
             \/ phase = "comply" /\ phase' = "done" /\ doc' = Comply(doc, world) /\ said' = said
             \/ phase' = phase /\ doc' = doc /\ said' = said
      PROVE  FlowInv'
  <2>1. stage' = stage /\ inv' = inv /\ drafts' = drafts /\ edges' = edges
    BY <1>2 DEF vars
  <2>2. PICK o, k, e : o = CVEWarnings(inv, world) /\ k = KEVWarnings(world) /\ e = EOLWarnings(world)
    OBVIOUS
  <2>3. CVEWarnings(inv', world') = o /\ KEVWarnings(world') = k /\ EOLWarnings(world') = e
    BY <1>2, <2>1, <2>2
  <2> QED
    BY <1>2, <2>1, <2>2, <2>3 DEF FlowInv, Annotated
<1>3. CASE Osv
  BY <1>2, <1>3 DEF Osv, Overlay, CVEWarnings
<1>4. CASE Kev
  BY <1>2, <1>4 DEF Kev, Overlay, KEVWarnings
<1>5. CASE Eol
  BY <1>2, <1>5 DEF Eol, Overlay, EOLWarnings
<1>6. CASE Map
  BY <1>2, <1>6 DEF Map, Overlay
<1>7. CASE Written \/ UNCHANGED <<vars, ovars>>
  BY <1>2, <1>7 DEF Written, ovars
<1> QED
  BY <1>1, <1>3, <1>4, <1>5, <1>6, <1>7 DEF INext

(* What is asked and answered about a component. *)
LEMMA Replied ==
  ASSUME NEW w \in Worlds, NEW c
  PROVE  /\ Len(Asked(w, c)) \in Nat /\ DOMAIN Asked(w, c) = 1 .. Len(Asked(w, c))
         /\ \A n \in DOMAIN Asked(w, c) :
              /\ Scored(severityOf(Asked(w, c)[n]))
              /\ \E S : Asked(w, c)[n].aliases \in Seq(S)
<1>1. CASE c.name \in DOMAIN w.osv
  <2>1. PICK reply : reply = w.osv[c.name]
    OBVIOUS
  <2>2. reply \in Range(w.osv)
    BY <1>1, <2>1 DEF Range
  <2>3. /\ reply \in Seq(Range(reply))
        /\ \A r \in Range(reply) : r.v3 \in Nat \cup {NoScore} /\ r.text \in Nat /\ r.aliases \in Seq(Range(r.aliases))
    BY <2>2, InventoryAssumption
  <2>4. \A n \in DOMAIN reply : reply[n] \in Range(reply)
    BY DEF Range
  <2>5. PICK R : R = Range(reply)
    OBVIOUS
  <2>6. reply \in Seq(R)
    BY <2>3, <2>5
  <2>7. Len(reply) \in Nat /\ DOMAIN reply = 1 .. Len(reply)
    BY <2>6, LenProperties
  <2>8. ASSUME NEW n \in DOMAIN reply
        PROVE  Scored(severityOf(reply[n])) /\ \E S : reply[n].aliases \in Seq(S)
    <3>1. PICK r : r = reply[n] /\ r.v3 \in Nat \cup {NoScore} /\ r.text \in Nat /\ \E S : r.aliases \in Seq(S)
      BY <2>3, <2>4, <2>8
    <3>2. \A s \in Nat : SeverityFromScore(s) \in Nat
      BY DEF SeverityFromScore
    <3>3. r.v3 # NoScore => r.v3 \in Nat
      BY <3>1
    <3>4. Scored(severityOf(r))
      BY <3>1, <3>2, <3>3 DEF Scored, severityOf
    <3> QED
      BY <3>1, <3>4
  <2>9. Asked(w, c) = reply
    BY <1>1, <2>1 DEF Asked
  <2> QED
    BY <2>7, <2>8, <2>9
<1>2. CASE c.name \notin DOMAIN w.osv
  <2>1. Asked(w, c) = <<>>
    BY <1>2 DEF Asked
  <2> QED
    BY <2>1
<1> QED
  BY <1>1, <1>2

Readings(w, c) == [n \in DOMAIN Asked(w, c) |-> toVuln(Asked(w, c)[n], c.version)]

(* A reply is read record by record. *)
LEMMA Readable ==
  ASSUME NEW w \in Worlds, NEW c
  PROVE  /\ query(w, c) = dedupeByID(Readings(w, c))
         /\ Len(Readings(w, c)) = Len(Asked(w, c)) /\ Len(Readings(w, c)) \in Nat
         /\ \A n \in 1 .. Len(Readings(w, c)) :
              /\ Readings(w, c)[n] = toVuln(Asked(w, c)[n], c.version)
              /\ Rated(Readings(w, c)[n]) /\ Readings(w, c)[n].id \notin Readings(w, c)[n].aliases
<1>1. PICK a : a = Asked(w, c) /\ Len(a) \in Nat /\ DOMAIN a = 1 .. Len(a)
               /\ \A n \in DOMAIN a : Scored(severityOf(a[n]))
  BY Replied
<1>2. PICK g : g = Readings(w, c)
  OBVIOUS
<1>3. g = [n \in 1 .. Len(a) |-> toVuln(a[n], c.version)]
  BY <1>1, <1>2 DEF Readings
<1>4. g = [n \in 1 .. Len(a) |-> g[n]] /\ \A n \in 1 .. Len(a) : g[n] = toVuln(a[n], c.version)
  BY <1>3
<1>5. Len(g) = Len(a) /\ DOMAIN g = 1 .. Len(a)
  BY <1>1, <1>4, Functional
<1>6. ASSUME NEW n \in 1 .. Len(a) PROVE Rated(g[n]) /\ g[n].id \notin g[n].aliases
  <2>1. /\ g[n].score = severityOf(a[n]).score /\ g[n].severity = severityOf(a[n]).severity
        /\ DOMAIN g[n] = VulnFields
    BY <1>4 DEF toVuln, VulnFields
  <2>2. g[n].id \notin g[n].aliases
    <3>1. PICK named : named = preferCVE(a[n].id, a[n].aliases)
      OBVIOUS
    <3>2. named.id \notin named.aliases
      <4>1. PICK all : all = <<a[n].id>> \o a[n].aliases
        OBVIOUS
      <4>2. PICK S : S = Range(all)
        OBVIOUS
      <4>3. \E chosen : named = [id |-> chosen, aliases |-> S \ {chosen}]
        BY <3>1, <4>1, <4>2 DEF preferCVE
      <4> QED
        BY <4>3
    <3>3. g[n].id = named.id /\ g[n].aliases = named.aliases
      BY <1>4, <3>1 DEF toVuln
    <3> QED
      BY <3>2, <3>3
  <2> QED
    BY <1>1, <2>1, <2>2 DEF Rated, Scored
<1>7. query(w, c) = dedupeByID(g)
  BY <1>2 DEF query, Readings
<1> QED
  BY <1>1, <1>2, <1>4, <1>5, <1>6, <1>7

(* Every answer has a score and a severity. *)
LEMMA AnswersRated ==
  ASSUME NEW w \in Worlds, NEW c, NEW v \in Answers(c, w) PROVE Rated(v)
<1>1. v \in query(w, c)
  BY DEF Answers
<1>2. PICK found : query(w, c) = Range(found) /\ Sane(found)
  <2>1. PICK g : g = Readings(w, c)
    OBVIOUS
  <2>2. /\ Len(g) \in Nat /\ query(w, c) = dedupeByID(g)
        /\ \A n \in 1 .. Len(g) : Rated(g[n]) /\ g[n].id \notin g[n].aliases
    BY <2>1, Readable
  <2> QED
    BY <2>2, Deduped
<1>3. \E id \in DOMAIN found : v = found[id]
  BY <1>1, <1>2 DEF Range
<1> QED
  BY <1>2, <1>3 DEF Sane

(* A mark changes neither. *)
LEMMA MarkedRated ==
  ASSUME NEW w, NEW vs, \A v \in vs : Rated(v)
  PROVE  \A v \in Marked(vs, w) : Rated(v)
<1>1. CASE kevFor(w).catalog = Refused
  BY <1>1 DEF Marked
<1>2. CASE kevFor(w).catalog # Refused
  <2> SUFFICES ASSUME NEW v \in Marked(vs, w) PROVE Rated(v)
    OBVIOUS
  <2>1. PICK u \in vs : v = [u EXCEPT !.kev = lookupAny(kevFor(w).catalog, u)]
    BY <1>2 DEF Marked
  <2>2. DOMAIN v = DOMAIN u /\ v.score = u.score /\ v.severity = u.severity
    BY <2>1 DEF Rated, VulnFields
  <2> QED
    BY <2>2 DEF Rated, Scored
<1> QED
  BY <1>1, <1>2

(* Every severity of an annotated inventory is one of OSV's. *)
LEMMA SeverityIs ==
  ASSUME NEW i, NEW w \in Worlds, Assembled(i), NEW c \in Annotated(i, w).components, NEW v \in c.vulns
  PROVE  v.severity \in Nat
<1>1. c.vulns = Marked(Answers(c, w), w)
  BY AnnotatedIs
<1>2. \A u \in Answers(c, w) : Rated(u)
  BY AnswersRated
<1>3. Rated(v)
  BY <1>1, <1>2, MarkedRated
<1> QED
  BY <1>3 DEF Rated, Scored

-----------------------------------------------------------------------------
(* Whatever is not on the old side as it is on the new one is judged. *)
Differs(c, old, tests) == \A o \in considered(old, tests) : o.id = c.id => surface(o) # surface(c)

(* A component is judged when nothing on the old side shows the same surface. *)
LEMMA GateJudges ==
  ASSUME NEW old, NEW new, NEW tests, OwnIds(old), OwnIds(new)
  PROVE  \A c : c \in GateComponents(Compute(old, new, tests)) <=>
                   c \in considered(new, tests) /\ Differs(c, old, tests)
<1> DEFINE was  == considered(old, tests)
           is   == considered(new, tests)
           both == {p \in was \X is : p[1].id = p[2].id}
           d    == Compute(old, new, tests)
<1>1. \A o, p \in was : o.id = p.id => o = p
  BY DEF OwnIds, considered
<1>2. d.added = {c \in is : \A p \in both : p[2] # c}
  BY DEF Compute
<1>3. d.changed = {p[2] : p \in {q \in both : surface(q[1]) # surface(q[2])}}
  BY DEF Compute
<1> HIDE DEF was, is, d
<1>4. ASSUME NEW c \in d.added PROVE c \in is /\ \A o \in was : o.id # c.id
  <2>1. c \in is /\ \A p \in both : p[2] # c
    BY <1>2
  <2>2. ASSUME NEW o \in was, o.id = c.id PROVE FALSE
    <3>1. <<o, c>> \in both
      BY <2>1, <2>2
    <3> QED
      BY <2>1, <3>1
  <2> QED
    BY <2>1, <2>2
<1>5. ASSUME NEW c \in d.changed
      PROVE  c \in is /\ \E o \in was : o.id = c.id /\ surface(o) # surface(c)
  BY <1>3
<1>6. ASSUME NEW c \in is, \A o \in was : o.id = c.id => surface(o) # surface(c)
      PROVE  c \in d.added \cup d.changed
  <2>1. CASE \E o \in was : o.id = c.id
    <3>1. PICK o \in was : o.id = c.id
      BY <2>1
    <3>2. <<o, c>> \in {q \in both : surface(q[1]) # surface(q[2])}
      BY <1>6, <3>1
    <3> QED
      BY <1>3, <3>2
  <2>2. CASE ~ \E o \in was : o.id = c.id
    BY <1>2, <2>2
  <2> QED
    BY <2>1, <2>2
<1>7. \A c \in d.changed : \A o \in was : o.id = c.id => surface(o) # surface(c)
  BY <1>1, <1>5
<1> QED
  BY <1>4, <1>5, <1>6, <1>7 DEF GateComponents, Differs, was, is, d

(* The gate judges exactly the components that are not in the old inventory as
   they are in the new one: whatever is on both sides unchanged is left alone,
   and nothing else is. *)
THEOREM GateIsExact ==
  ASSUME NEW old, NEW new, NEW tests, OwnIds(old), OwnIds(new)
  PROVE  GateComponents(Compute(old, new, tests)) =
           {c \in considered(new, tests) :
              \A o \in considered(old, tests) : o.id = c.id => surface(o) # surface(c)}
  BY GateJudges DEF Differs

(* Two components of one surface meet the same terms. *)
Rateable(c) == \A v \in c.vulns : v.severity \in Nat

(* No natural number is below zero. *)
LEMMA NatsFromZero == \A n \in Nat : n >= 0
  OBVIOUS

(* A term without a severity is met by any finding. *)
LEMMA AnySeverity ==
  ASSUME NEW n \in Nat, NEW sel, sel = "" PROVE sel # "kev" /\ n >= Rank(sel)
<1>1. Rank(sel) = 0
  BY DEF Rank
<1>2. n >= Rank(sel)
  BY <1>1, NatsFromZero, Zenon
<1>3. sel # "kev"
  OBVIOUS
<1> QED
  BY <1>2, <1>3

(* They do so except for terms a policy of the comparison does not have, or that
   ask how severe an advisory is. *)
LEMMA SameTerms ==
  ASSUME NEW o, NEW c, surface(o) = surface(c), Rateable(o), Rateable(c),
         NEW t, t.on \notin {"confidence", "compliance"}, t.on = "cve" => t.sel = "",
         termMatches(t, c)
  PROVE  termMatches(t, o)
<1>1. /\ o.kind = c.kind
      /\ {r.id : r \in o.risks} = {r.id : r \in c.risks}
      /\ {v.id : v \in o.vulns} = {v.id : v \in c.vulns}
      /\ (IF o.eol.state = "" THEN <<>> ELSE <<o.eol.state, o.eol.shutdown>>) =
           (IF c.eol.state = "" THEN <<>> ELSE <<c.eol.state, c.eol.shutdown>>)
  BY DEF surface
<1>2. CASE t.on = "risk"
  <2>1. PICK r \in c.risks : t.sel \in {"", Severity(r.id), r.id}
    BY <1>2 DEF termMatches, riskTermMatches
  <2>2. r.id \in {x.id : x \in o.risks}
    BY <1>1, <2>1
  <2>3. PICK x \in o.risks : x.id = r.id
    BY <2>2
  <2> QED
    BY <1>2, <2>1, <2>3 DEF termMatches, riskTermMatches
<1>3. CASE t.on = "pickle-risk"
  <2>1. PICK r \in c.risks : r.id = "pickle-import"
    BY <1>3 DEF termMatches
  <2>2. r.id \in {x.id : x \in o.risks}
    BY <1>1, <2>1
  <2> QED
    BY <1>3, <2>1, <2>2 DEF termMatches
<1>4. CASE t.on = "cve"
  <2>1. PICK v \in c.vulns : TRUE
    BY <1>4 DEF termMatches, cveTermMatches
  <2>2. v.id \in {x.id : x \in o.vulns}
    BY <1>1, <2>1
  <2>3. PICK x \in o.vulns : x.id = v.id
    BY <2>2
  <2>4. x.severity \in Nat
    BY <2>3 DEF Rateable
  <2>5. t.sel = ""
    BY <1>4
  <2>6. t.sel # "kev" /\ x.severity >= Rank(t.sel)
    BY <2>4, <2>5, AnySeverity
  <2> QED
    BY <1>4, <2>3, <2>6 DEF termMatches, cveTermMatches
<1>5. CASE t.on = "eol"
  <2>1. eolTermMatches(t, c) /\ c.eol.state # ""
    BY <1>5 DEF termMatches, eolTermMatches
  <2>2. o.eol.state = c.eol.state /\ o.eol.shutdown = c.eol.shutdown
    BY <1>1, <2>1
  <2>3. eolTermMatches(t, o)
    BY <2>1, <2>2 DEF eolTermMatches
  <2> QED
    BY <1>5, <2>3 DEF termMatches
<1>6. CASE t.on \notin {"risk", "pickle-risk", "cve", "eol"}
  BY <1>1, <1>6 DEF termMatches
<1> QED
  BY <1>2, <1>3, <1>4, <1>5, <1>6

(* A clause of a compared policy that is met now and was not then is met by a
   component that differs. *)
LEMMA SameClause ==
  ASSUME NEW old, NEW new, OwnIds(old), OwnIds(new),
         \A c \in old.components : Rateable(c), \A c \in new.components : Rateable(c),
         \A c \in new.components : c.id = new.root => c.kind = "application",
         NEW p, Compared(p), Fails(new, p), ~Fails(old, p), ProvenanceDrift(old, new) = {}
  PROVE  runDiff(old, new, FALSE, p, 1) = 1
<1>1. \A clause \in p : ~Mentions(clause, "compliance")
  BY DEF Compared, Mentions
<1>2. PICK clause \in p : \E c \in Gated(new.components, FALSE) : \A t \in clause : termMatches(t, c)
  BY <1>1 DEF Fails, PolicyMatches
<1>3. PICK c \in Gated(new.components, FALSE) : \A t \in clause : termMatches(t, c)
  BY <1>2
<1>4. c \in new.components /\ c.kind # "application" /\ ~c.testOnly
  BY <1>3 DEF Gated
<1>5. c \in considered(new, FALSE)
  BY <1>4 DEF considered
<1>6. ASSUME NEW o \in considered(old, FALSE), surface(o) = surface(c) PROVE FALSE
  <2>1. o \in old.components /\ o.kind # "application" /\ ~o.testOnly
    BY <1>6 DEF considered
  <2>2. o \in Gated(old.components, FALSE)
    BY <2>1 DEF Gated
  <2>3. \A t \in clause : termMatches(t, o)
    <3> TAKE t \in clause
    <3>1. t.on \notin {"confidence", "compliance"} /\ (t.on = "cve" => t.sel = "")
      BY <1>2 DEF Compared
    <3>2. termMatches(t, c) /\ Rateable(o) /\ Rateable(c)
      BY <1>3, <1>4, <2>1
    <3> QED
      BY <1>6, <3>1, <3>2, SameTerms
  <2> QED
    BY <1>1, <1>2, <2>2, <2>3 DEF Fails, PolicyMatches
<1>7. c \in GateComponents(Compute(old, new, FALSE))
  BY <1>5, <1>6, GateJudges DEF Differs
<1>8. c \in Gated(GateComponents(Compute(old, new, FALSE)), TRUE)
  BY <1>4, <1>7 DEF Gated
<1>9. PolicyMatches(p, GateComponents(Compute(old, new, FALSE)), {}, TRUE)
  BY <1>1, <1>2, <1>3, <1>8 DEF PolicyMatches
<1>10. Compute(old, new, FALSE).drift = {}
  BY DEF Compute
<1>11. p # NoPolicy
  BY <1>2 DEF NoPolicy
<1> QED
  BY <1>1, <1>9, <1>10, <1>11 DEF runDiff

(* The root of an inventory is an application. *)
LEMMA RootKind ==
  ASSUME FlowInv, KindInv, phase = "done", NEW c \in doc.components, c.id = doc.root
  PROVE  c.kind = "application"
<1>1. inv = inventory(drafts, edges) /\ doc = Annotated(inv, world)
  BY DEF FlowInv
<1>2. Assembled(inv) /\ inv.root = RootKey
  BY <1>1, AssembledInventory
<1>3. PICK b \in inv.components : Alike(b, c)
  BY <1>1, <1>2, AnnotatedIs
<1>4. doc.root = RootKey
  BY <1>1, <1>2, AnnotatedIs
<1>5. PICK k \in DOMAIN drafts : b = finish(k, drafts[k])
  BY <1>1, <1>3, Finished
<1>6. b.id = k /\ b.kind = drafts[k].kind
  BY <1>5 DEF finish
<1>7. c.kind = b.kind /\ c.id = b.id
  BY <1>3, AlikeSame
<1>8. b.kind \in ComponentKinds /\ classOf(b.kind) = RootKey.class
  BY <1>4, <1>6, <1>7 DEF KindInv, Fitting
<1> QED
  BY <1>7, <1>8 DEF classOf, RootKey, ComponentKinds

(* Whatever fails now and did not fail before differs from before. *)
LEMMA Gate == ASSUME FlowInv, KindInv PROVE GateMissesNothing
<1> SUFFICES ASSUME phase = "done", NEW n \in DOMAIN absorbed, NEW p \in Policies, Compared(p),
                    Fails(doc, p), ~Fails(Annotated(Build(RemoveAt(absorbed, n)), world), p),
                    ProvenanceDrift(Annotated(Build(RemoveAt(absorbed, n)), world), doc) = {}
             PROVE  runDiff(Annotated(Build(RemoveAt(absorbed, n)), world), doc, FALSE, p, 1) = 1
  BY DEF GateMissesNothing
<1>1. PICK was : was = Build(RemoveAt(absorbed, n))
  OBVIOUS
<1>2. Assembled(was)
  BY <1>1, AssembledInventory DEF Build
<1>3. world \in Worlds /\ doc = Annotated(inv, world) /\ Assembled(inv)
  BY AssembledInventory DEF FlowInv
<1>4. PICK old : old = Annotated(was, world)
  OBVIOUS
<1>5. OwnIds(old) /\ OwnIds(doc)
  BY <1>2, <1>3, <1>4, AnnotatedIs DEF Annotable
<1>6. \A c \in old.components : Rateable(c)
  BY <1>2, <1>3, <1>4, SeverityIs DEF Rateable
<1>7. \A c \in doc.components : Rateable(c)
  BY <1>3, SeverityIs DEF Rateable
<1>8. \A c \in doc.components : c.id = doc.root => c.kind = "application"
  BY RootKind
<1>9. Fails(doc, p) /\ ~Fails(old, p) /\ ProvenanceDrift(old, doc) = {}
  BY <1>1, <1>4
<1>10. runDiff(old, doc, FALSE, p, 1) = 1
  BY <1>5, <1>6, <1>7, <1>8, <1>9, SameClause
<1> QED
  BY <1>1, <1>4, <1>10

(* absorbInto, mergeDraft and foldInto never put a finding into a draft of
   another class: the kind of a component always belongs to the class its
   identity was made of. *)
THEOREM Kinds == ISpec => []KindInv
<1>1. IInit => KindInv
  BY InitKinds DEF IInit
<1> QED
  BY <1>1, Names, KindStep, PTL DEF ISpec

(* runScanPipeline's enrichers in their order: at every phase the document is
   what the overlays run so far make of the assembler's inventory, and what was
   said to the user is what they said. *)
THEOREM Flow == ISpec => []FlowInv
  BY InitFlow, FlowStep, PTL DEF ISpec

(* A gate on the differences misses nothing a gate on everything would have
   caught: a finding that makes a policy fail either shows as a difference (of
   a component or of provenance) or fails the comparison too. *)
THEOREM NothingMissed == ISpec => []GateMissesNothing
  BY Kinds, Flow, Gate, PTL

-----------------------------------------------------------------------------
(* Advisories are kept *)

(* The first of some positions is one of them. *)
LEMMA EarliestIs ==
  ASSUME NEW S \in SUBSET Nat, S # {}
  PROVE  earliest(S) \in S /\ \A e \in S : earliest(S) <= e
<1>1. \E d \in S : \A e \in S : d <= e
  BY First
<1> QED
  BY <1>1 DEF earliest

NamesIn(r) == {r.id} \cup Range(r.aliases)

(* A finding goes by one of its record's names and lists the others. *)
LEMMA Renamed ==
  ASSUME NEW r, NEW S, r.aliases \in Seq(S), NEW version, Scored(severityOf(r))
  PROVE  LET v == toVuln(r, version) IN
         NoMilder(v, severityOf(r)) /\ v.id \in NamesIn(r) /\ {v.id} \cup v.aliases = NamesIn(r)
<1>1. PICK all : all = <<r.id>> \o r.aliases
  OBVIOUS
<1>2. PICK m : m = Len(r.aliases) /\ m \in Nat /\ DOMAIN r.aliases = 1 .. m
  BY LenProperties
<1>3. PICK X : X = S \cup {r.id}
  OBVIOUS
<1>4. r.aliases \in Seq(X) /\ <<r.id>> \in Seq(X)
  BY <1>3, <1>2
<1>5. DOMAIN all = 1 .. m + 1 /\ all[1] = r.id /\ \A n \in 1 .. m : all[n + 1] = r.aliases[n]
  BY <1>1, <1>2, <1>4
<1>6. Range(all) = NamesIn(r)
  <2>1. ASSUME NEW x \in Range(all) PROVE x \in NamesIn(r)
    <3>1. PICK n \in 1 .. m + 1 : x = all[n]
      BY <1>5, <2>1 DEF Range
    <3>2. CASE n = 1
      BY <1>5, <3>1, <3>2 DEF NamesIn
    <3>3. CASE n # 1
      <4>1. n - 1 \in 1 .. m /\ n = n - 1 + 1
        BY <1>2, <3>3
      <4>2. x = r.aliases[n - 1]
        BY <1>5, <3>1, <4>1
      <4> QED
        BY <1>2, <4>1, <4>2 DEF NamesIn, Range
    <3> QED
      BY <3>2, <3>3
  <2>2. ASSUME NEW x \in NamesIn(r) PROVE x \in Range(all)
    <3>1. CASE x = r.id
      <4>1. 1 \in DOMAIN all
        BY <1>2, <1>5
      <4> QED
        BY <1>5, <3>1, <4>1 DEF Range
    <3>2. CASE x # r.id
      <4>1. PICK n \in 1 .. m : x = r.aliases[n]
        BY <1>2, <2>2, <3>2 DEF NamesIn, Range
      <4>2. n + 1 \in DOMAIN all /\ x = all[n + 1]
        BY <1>2, <1>5, <4>1
      <4> QED
        BY <4>2 DEF Range
    <3> QED
      BY <3>1, <3>2
  <2> QED
    BY <2>1, <2>2
<1>7. PICK cves : cves = {n \in DOMAIN all : all[n] \in CVEs}
  OBVIOUS
<1>8. PICK chosen : chosen = IF cves = {} THEN r.id ELSE all[earliest(cves)]
  OBVIOUS
<1>9. chosen \in NamesIn(r)
  <2>1. CASE cves = {}
    BY <1>8, <2>1 DEF NamesIn
  <2>2. CASE cves # {}
    <3>1. cves \in SUBSET Nat
      BY <1>2, <1>5, <1>7
    <3>2. earliest(cves) \in cves
      BY <2>2, <3>1, EarliestIs
    <3>3. chosen = all[earliest(cves)] /\ earliest(cves) \in DOMAIN all
      BY <1>7, <1>8, <2>2, <3>2
    <3> QED
      BY <1>6, <3>3 DEF Range
  <2> QED
    BY <2>1, <2>2
<1>10. PICK named : named = preferCVE(r.id, r.aliases)
  OBVIOUS
<1>11. PICK N : N = Range(all)
  OBVIOUS
<1>12. named = [id |-> chosen, aliases |-> N \ {chosen}]
  BY <1>1, <1>7, <1>8, <1>10, <1>11 DEF preferCVE
<1>13. named.id = chosen /\ named.aliases = N \ {chosen}
  BY <1>12
<1>14. PICK v : v = toVuln(r, version)
  OBVIOUS
<1>15. v.id = named.id /\ v.aliases = named.aliases /\ NoMilder(v, severityOf(r))
  BY <1>10, <1>14 DEF toVuln, NoMilder, Scored
<1> QED
  BY <1>6, <1>9, <1>11, <1>13, <1>14, <1>15

(* Every record of a reply is answered by a finding. *)
LEMMA QueryKeeps ==
  ASSUME NEW w \in Worlds, NEW c, NEW r \in Range(Asked(w, c))
  PROVE  \E v \in query(w, c) : /\ v.id \in NamesIn(r) /\ NamesIn(r) \subseteq {v.id} \cup v.aliases
                                /\ NoMilder(v, severityOf(r))
<1>1. PICK n \in DOMAIN Asked(w, c) : r = Asked(w, c)[n]
  BY DEF Range
<1>2. PICK g : g = Readings(w, c)
  OBVIOUS
<1>3. /\ n \in 1 .. Len(Asked(w, c)) /\ Scored(severityOf(r)) /\ \E S : r.aliases \in Seq(S)
  BY <1>1, Replied
<1>4. /\ Len(g) \in Nat /\ query(w, c) = dedupeByID(g) /\ n \in 1 .. Len(g)
      /\ g[n] = toVuln(r, c.version)
      /\ \A m \in 1 .. Len(g) : Rated(g[m]) /\ g[m].id \notin g[m].aliases
  BY <1>1, <1>2, <1>3, Readable
<1>5. PICK found : /\ dedupeByID(g) = Range(found) /\ Sane(found)
                   /\ \A m \in 1 .. Len(g) : Holds(found, g[m])
  BY <1>4, Deduped
<1>6. PICK u : u = g[n]
  OBVIOUS
<1>7. NoMilder(u, severityOf(r)) /\ u.id \in NamesIn(r) /\ {u.id} \cup u.aliases = NamesIn(r)
  BY <1>3, <1>4, <1>6, Renamed
<1>8. u.id \in DOMAIN found /\ NoMilder(found[u.id], u) /\ u.aliases \subseteq found[u.id].aliases
  BY <1>4, <1>5, <1>6 DEF Holds
<1>9. PICK v : v = found[u.id]
  OBVIOUS
<1>10. v \in query(w, c) /\ v.id = u.id
  BY <1>4, <1>5, <1>8, <1>9 DEF Sane, Range
<1>11. NamesIn(r) \subseteq {v.id} \cup v.aliases
  BY <1>7, <1>8, <1>9, <1>10
<1>12. Rated(u) /\ Rated(v) /\ Scored(severityOf(r))
  BY <1>3, <1>4, <1>5, <1>6, <1>8, <1>9 DEF Sane
<1>13. NoMilder(v, severityOf(r))
  BY <1>7, <1>8, <1>9, <1>12 DEF NoMilder, Rated, Scored
<1> QED
  BY <1>7, <1>10, <1>11, <1>13

(* No two findings of a query have one name. *)
LEMMA QueryApart ==
  ASSUME NEW w \in Worlds, NEW c
  PROVE  \A v, u \in query(w, c) : v.id = u.id => v = u
<1>1. PICK g : g = Readings(w, c)
  OBVIOUS
<1>2. /\ Len(g) \in Nat /\ query(w, c) = dedupeByID(g)
      /\ \A m \in 1 .. Len(g) : Rated(g[m]) /\ g[m].id \notin g[m].aliases
  BY <1>1, Readable
<1>3. PICK found : dedupeByID(g) = Range(found) /\ Sane(found)
  BY <1>2, Deduped
<1>4. \A v \in query(w, c) : v.id \in DOMAIN found /\ v = found[v.id]
  BY <1>2, <1>3 DEF Sane, Range
<1> QED
  BY <1>4

(* A mark adds nothing but itself. *)
LEMMA MarkedIs ==
  ASSUME NEW w, NEW vs, \A v \in vs : Rated(v)
  PROVE  /\ \A v \in vs : \E m \in Marked(vs, w) :
              /\ m.id = v.id /\ m.aliases = v.aliases /\ m.score = v.score /\ m.severity = v.severity
              /\ kevFor(w).catalog # Refused => m.kev = lookupAny(kevFor(w).catalog, v)
         /\ \A m, k \in Marked(vs, w) :
              (\A v, u \in vs : v.id = u.id => v = u) /\ m.id = k.id => m = k
<1>1. CASE kevFor(w).catalog = Refused
  BY <1>1 DEF Marked
<1>2. CASE kevFor(w).catalog # Refused
  <2> DEFINE put(v) == [v EXCEPT !.kev = lookupAny(kevFor(w).catalog, v)]
  <2>1. Marked(vs, w) = {put(v) : v \in vs}
    BY <1>2 DEF Marked
  <2>2. ASSUME NEW v \in vs
        PROVE  /\ put(v).id = v.id /\ put(v).aliases = v.aliases
               /\ put(v).score = v.score /\ put(v).severity = v.severity
               /\ put(v).kev = lookupAny(kevFor(w).catalog, v)
    BY DEF Rated, VulnFields
  <2> HIDE DEF put
  <2> QED
    BY <2>1, <2>2
<1> QED
  BY <1>1, <1>2

(* A finding with a name the catalog lists is marked. *)
LEMMA ListedIsMarked ==
  ASSUME NEW v, NEW cat, NEW N, N \subseteq {v.id} \cup v.aliases, N \cap cat.ids # {}
  PROVE  lookupAny(cat, v)
  BY DEF lookupAny

(* Of a component that was asked about, every record of the reply is kept. *)
LEMMA AnsweredKept ==
  ASSUME NEW w \in Worlds, NEW c, NEW r \in Range(Asked(w, c)), c.vulns = Marked(Answers(c, w), w),
         queryablePurl(c), ~skippedTests(c, w.includeTests), c.name \notin w.down
  PROVE  \E v \in c.vulns :
           /\ v.id \in NamesIn(r) /\ NamesIn(r) \subseteq {v.id} \cup v.aliases /\ NoMilder(v, severityOf(r))
           /\ kevFor(w).catalog # Refused /\ NamesIn(r) \cap kevFor(w).catalog.ids # {} => v.kev
<1>1. Answers(c, w) = query(w, c)
  BY DEF Answers
<1>2. PICK u \in Answers(c, w) :
        u.id \in NamesIn(r) /\ NamesIn(r) \subseteq {u.id} \cup u.aliases /\ NoMilder(u, severityOf(r))
  BY <1>1, QueryKeeps
<1>3. \A v \in Answers(c, w) : Rated(v)
  BY AnswersRated
<1>4. PICK v \in c.vulns : /\ v.id = u.id /\ v.aliases = u.aliases /\ v.score = u.score /\ v.severity = u.severity
                           /\ kevFor(w).catalog # Refused => v.kev = lookupAny(kevFor(w).catalog, u)
  BY <1>3, MarkedIs
<1> QED
  BY <1>2, <1>4, ListedIsMarked DEF NoMilder

(* Of a component, no two findings have one name. *)
LEMMA AnsweredApart ==
  ASSUME NEW w \in Worlds, NEW c, c.vulns = Marked(Answers(c, w), w)
  PROVE  \A v, u \in c.vulns : v.id = u.id => v = u
<1>1. \A v, u \in Answers(c, w) : v.id = u.id => v = u
  BY QueryApart DEF Answers
<1>2. \A v \in Answers(c, w) : Rated(v)
  BY AnswersRated
<1> QED
  BY <1>1, <1>2, MarkedIs

(* A package that is only declared with a range has no package URL. *)
LEMMA RangesHaveNoPurl ==
  ASSUME NEW k, NEW d, finish(k, d).versionConstraint # "" PROVE ~queryablePurl(finish(k, d))
<1>1. finish(k, d).purl = purlOf(k, d)
  BY DEF finish
<1>2. d.versionClaims = <<>>
  BY DEF finish
<1>3. winner(d.versionClaims) = ""
  BY <1>2 DEF winner
<1>4. purlOf(k, d) = <<>> \/ purlOf(k, d) = <<"generic", k.name, d.hashes>>
  BY <1>3 DEF purlOf
<1>5. \A n, h : <<"generic", n, h>>[1] = "generic"
  OBVIOUS
<1>6. purlOf(k, d) = <<>> \/ purlOf(k, d)[1] = "generic"
  BY <1>4, <1>5
<1> QED
  BY <1>1, <1>6 DEF queryablePurl, pkgEcosystems

(* What the overlay says about the components it passes over. *)
LEMMA Warned ==
  ASSUME NEW i, NEW w, NEW b \in Bare(i).components
  PROVE  /\ skippedTests(b, w.includeTests) => "cve tests skipped" \in CVEWarnings(i, w)
         /\ unresolvedRange(b, w.includeTests) => "cve range unresolved" \in CVEWarnings(i, w)
         /\ queryablePurl(b) /\ ~skippedTests(b, w.includeTests) /\ b.name \in w.down
              => "cve unreachable" \in CVEWarnings(i, w)
<1>1. PICK cs : cs = Bare(i).components
  OBVIOUS
<1>2. PICK A, B, C : /\ A = {c \in cs : skippedTests(c, w.includeTests)}
                     /\ B = {c \in cs : unresolvedRange(c, w.includeTests)}
                     /\ C = {c \in jobsOf(cs, w.includeTests) : c.name \in w.down}
  OBVIOUS
<1>3. CVEWarnings(i, w) = (IF A = {} THEN {} ELSE {"cve tests skipped"})
                            \cup (IF B = {} THEN {} ELSE {"cve range unresolved"})
                            \cup (IF C = {} THEN {} ELSE {"cve unreachable"})
  BY <1>1, <1>2 DEF CVEWarnings, enrichCVE
<1>4. b \in cs
  BY <1>1
<1>5. /\ skippedTests(b, w.includeTests) => b \in A
      /\ unresolvedRange(b, w.includeTests) => b \in B
      /\ queryablePurl(b) /\ ~skippedTests(b, w.includeTests) /\ b.name \in w.down => b \in C
  BY <1>2, <1>4 DEF jobsOf
<1> QED
  BY <1>3, <1>5

(* Every record of a reply is found in the document. *)
LEMMA Kept == ASSUME FlowInv PROVE AdvisoriesKept
<1> SUFFICES ASSUME phase = "done", NEW c \in doc.components
             PROVE  /\ c \in jobsOf(doc.components, world.includeTests) /\ c.name \notin world.down =>
                         \A r \in Range(Asked(world, c)) :
                           LET names == {r.id} \cup Range(r.aliases)
                               found == {v \in c.vulns : names \subseteq {v.id} \cup v.aliases /\ v.id \in names}
                           IN \E v \in found :
                                /\ NoMilder(v, severityOf(r))
                                /\ kevFor(world).catalog # Refused /\ names \cap kevFor(world).catalog.ids # {} => v.kev
                    /\ \A v, u \in c.vulns : v.id = u.id => v = u
                    /\ queryablePurl(c) /\ (c.name \in world.down \/ (c.testOnly /\ ~world.includeTests))
                         => {"cve unreachable", "cve tests skipped"} \cap said # {}
                    /\ c.versionConstraint # "" /\ c.eco \in pkgEcosystems /\ c.vulns = {}
                         => {"cve tests skipped", "cve range unresolved"} \cap said # {} \/ c.testOnly
  BY DEF AdvisoriesKept
<1>1. world \in Worlds /\ doc = Annotated(inv, world) /\ Assembled(inv) /\ inv = inventory(drafts, edges)
  BY AssembledInventory DEF FlowInv
<1>2. CVEWarnings(inv, world) \subseteq said
  BY DEF FlowInv
<1>3. PICK b \in inv.components : Alike(b, c)
  BY <1>1, AnnotatedIs
<1>4. c.vulns = Marked(Answers(c, world), world)
  BY <1>1, AnnotatedIs
<1>5. PICK k \in DOMAIN drafts : b = finish(k, drafts[k])
  BY <1>1, <1>3, Finished
<1>6. PICK a \in Bare(inv).components : Alike(b, a)
  BY <1>1, <1>3, BareAll
<1>7. /\ a.purl = c.purl /\ a.testOnly = c.testOnly /\ a.versionConstraint = c.versionConstraint
      /\ a.eco = c.eco /\ a.name = c.name
  <2>1. /\ a.purl = b.purl /\ a.testOnly = b.testOnly /\ a.versionConstraint = b.versionConstraint
        /\ a.eco = b.eco /\ a.name = b.name
    BY <1>6, AlikeSame
  <2>2. /\ c.purl = b.purl /\ c.testOnly = b.testOnly /\ c.versionConstraint = b.versionConstraint
        /\ c.eco = b.eco /\ c.name = b.name
    BY <1>3, AlikeSame
  <2> QED
    BY <2>1, <2>2
<1>8. ASSUME c \in jobsOf(doc.components, world.includeTests), c.name \notin world.down,
             NEW r \in Range(Asked(world, c))
      PROVE  \E v \in c.vulns :
               /\ v.id \in NamesIn(r) /\ NamesIn(r) \subseteq {v.id} \cup v.aliases /\ NoMilder(v, severityOf(r))
               /\ kevFor(world).catalog # Refused /\ NamesIn(r) \cap kevFor(world).catalog.ids # {} => v.kev
  <2>1. queryablePurl(c) /\ ~skippedTests(c, world.includeTests)
    BY <1>8 DEF jobsOf
  <2> QED
    BY <1>1, <1>4, <1>8, <2>1, AnsweredKept
<1>9. \A v, u \in c.vulns : v.id = u.id => v = u
  BY <1>1, <1>4, AnsweredApart
<1>10. ASSUME queryablePurl(c), c.name \in world.down \/ (c.testOnly /\ ~world.includeTests)
       PROVE  {"cve unreachable", "cve tests skipped"} \cap said # {}
  <2>1. queryablePurl(a) /\ (a.name \in world.down \/ skippedTests(a, world.includeTests))
    BY <1>7, <1>10 DEF queryablePurl, skippedTests
  <2>2. "cve unreachable" \in CVEWarnings(inv, world) \/ "cve tests skipped" \in CVEWarnings(inv, world)
    BY <1>6, <2>1, Warned
  <2> QED
    BY <1>2, <2>2
<1>11. ASSUME c.versionConstraint # "", c.eco \in pkgEcosystems, ~c.testOnly
       PROVE  {"cve tests skipped", "cve range unresolved"} \cap said # {}
  <2>1. ~queryablePurl(b) /\ b.versionConstraint = c.versionConstraint /\ b.purl = c.purl
    BY <1>3, <1>5, <1>11, AlikeSame, RangesHaveNoPurl
  <2>2. unresolvedRange(a, world.includeTests)
    BY <1>7, <1>11, <2>1 DEF unresolvedRange, queryablePurl
  <2>3. "cve range unresolved" \in CVEWarnings(inv, world)
    BY <1>6, <2>2, Warned
  <2> QED
    BY <1>2, <2>3
<1> QED
  BY <1>8, <1>9, <1>10, <1>11 DEF NamesIn

(* What OSV answered is what the document says: each record of a reply is kept,
   under one of its names and with the others as aliases, no milder by score and
   by severity, except by the severity of a record without a score whose name a
   scored one shares, and marked when the known-exploited catalog lists any of them; findings are
   joined only when they share a name, and none is attached to a component
   nobody asked about. *)
THEOREM NoAdvisoryLost == ISpec => []AdvisoriesKept
  BY Flow, Kept, PTL

-----------------------------------------------------------------------------
(* The lifecycle catalog in force *)

(* The provider pages that count for a provider. *)
BundleCounts(w) ==
  w.bundle # NoBundle /\ ~w.noCachedRules /\ w.bundle.eol # {} /\ loadCatalog(w.bundle.eol, w.today, "bundle") # Refused
FilesFor(w, p) == IF BundleCounts(w) /\ p \in {b.provider : b \in w.bundle.eol} THEN w.bundle.eol ELSE w.eolFiles
Dated(f) == f.verified \in Nat \cup {Bad} /\ \A m \in f.models : {m.shutdown, m.verified} \subseteq Nat \cup {Bad}

(* A catalog holds the entries of its files, and knows for each provider a day
   on or before all of its verifications. *)
Cataloged(cat, files, today) ==
  /\ \A f \in files : validFile(f, today)
  /\ \A f \in files : \A m \in f.models : entryOf(f, m) \in cat.records
  /\ \A r \in cat.records : \E f \in files : \E m \in f.models : r = entryOf(f, m)
  /\ DOMAIN cat.verifiedByProvider = {f.provider : f \in files}
  /\ \A r \in cat.records : /\ r.provider \in DOMAIN cat.verifiedByProvider
                            /\ cat.verifiedByProvider[r.provider] <= r.verified
                            /\ r.verified \in Nat
  /\ Range(cat.verifiedByProvider) \subseteq Nat

(* The fields of an entry. *)
LEMMA EntryIs ==
  ASSUME NEW f, NEW m
  PROVE  /\ entryOf(f, m).provider = f.provider /\ entryOf(f, m).names = NamesOf(m)
         /\ entryOf(f, m).state = m.state /\ entryOf(f, m).shutdown = m.shutdown
         /\ entryOf(f, m).verified = verifiedOn(f, m)
  BY DEF entryOf

(* A model of a valid file has days that can be computed with. *)
LEMMA VerifiedIs ==
  ASSUME NEW f, NEW today, Dated(f), validFile(f, today), NEW m \in f.models
  PROVE  verifiedOn(f, m) \in Nat /\ m.shutdown \in Nat
<1>1. validModel(m) /\ f.verified \notin {NoDate, Bad}
  BY DEF validFile
<1>2. m.verified # Bad /\ m.shutdown # Bad
  BY <1>1 DEF validModel
<1>3. m.verified \in Nat /\ m.shutdown \in Nat /\ f.verified \in Nat
  BY <1>1, <1>2 DEF Dated
<1> QED
  BY <1>3 DEF verifiedOn

(* loadCatalog accepts only valid files, and keeps all of their models. *)
LEMMA Loaded ==
  ASSUME NEW files, NEW today, NEW from, loadCatalog(files, today, from) # Refused, \A f \in files : Dated(f)
  PROVE  Cataloged(loadCatalog(files, today, from), files, today)
<1>1. PICK recs : recs = UNION {{entryOf(f, m) : m \in f.models} : f \in files}
  OBVIOUS
<1>2. PICK by : by = [p \in {r.provider : r \in recs} |->
                        earliest({r.verified : r \in {x \in recs : x.provider = p}})]
  OBVIOUS
<1>3. (\A f \in files : validFile(f, today)) /\ distinctNames(files)
  BY DEF loadCatalog
<1>4. loadCatalog(files, today, from) = [records |-> recs, source |-> from, verifiedByProvider |-> by]
  BY <1>1, <1>2, <1>3 DEF loadCatalog
<1>5. PICK cat : cat = loadCatalog(files, today, from) /\ cat.records = recs /\ cat.verifiedByProvider = by
  BY <1>4
<1>6. \A r \in recs : \E f \in files : \E m \in f.models : r = entryOf(f, m)
  BY <1>1
<1>7. \A f \in files : \A m \in f.models : entryOf(f, m) \in recs
  BY <1>1
<1>8. \A r \in recs : r.verified \in Nat
  BY <1>3, <1>6, EntryIs, VerifiedIs
<1>9. DOMAIN by = {r.provider : r \in recs}
  BY <1>2
<1>10. DOMAIN by = {f.provider : f \in files}
  <2>1. ASSUME NEW f \in files PROVE f.provider \in DOMAIN by
    <3>1. PICK m : m \in f.models
      BY <1>3 DEF validFile
    <3>2. entryOf(f, m) \in recs /\ entryOf(f, m).provider = f.provider
      BY <1>7, <3>1, EntryIs
    <3> QED
      BY <1>9, <3>2
  <2>2. ASSUME NEW p \in DOMAIN by PROVE p \in {f.provider : f \in files}
    <3>1. PICK r \in recs : p = r.provider
      BY <1>9
    <3>2. PICK f \in files : \E m \in f.models : r = entryOf(f, m)
      BY <1>6
    <3> QED
      BY <3>1, <3>2, EntryIs
  <2> QED
    BY <2>1, <2>2
<1>11. ASSUME NEW p \in DOMAIN by
       PROVE  by[p] \in Nat /\ \A r \in recs : r.provider = p => by[p] <= r.verified
  <2>1. PICK V : V = {r.verified : r \in {x \in recs : x.provider = p}}
    OBVIOUS
  <2>2. V \in SUBSET Nat /\ V # {}
    BY <1>8, <1>9, <2>1
  <2>3. by[p] = earliest(V)
    BY <1>2, <1>9, <2>1
  <2>4. by[p] \in V /\ \A e \in V : by[p] <= e
    BY <2>2, <2>3, EarliestIs
  <2>5. \A r \in recs : r.provider = p => r.verified \in V
    BY <2>1
  <2> QED
    BY <2>2, <2>4, <2>5
<1>12. Range(by) \subseteq Nat
  BY <1>11 DEF Range
<1>13. \A r \in recs : r.provider \in DOMAIN by
  BY <1>9
<1> QED
  BY <1>3, <1>5, <1>6, <1>7, <1>8, <1>10, <1>11, <1>12, <1>13 DEF Cataloged

(* A catalog is not a refusal. *)
LEMMA NotRefused == ASSUME NEW a, NEW b, NEW c PROVE [records |-> a, source |-> b, verifiedByProvider |-> c] # Refused
<1>1. DOMAIN [records |-> a, source |-> b, verifiedByProvider |-> c] # DOMAIN Refused
  BY DEF Refused
<1> QED
  BY <1>1

(* What the catalog in force holds. *)
InForce(cat, w) ==
  /\ \A p : \A f \in FilesFor(w, p) : f.provider = p =>
       validFile(f, w.today) /\ \A m \in f.models : entryOf(f, m) \in cat.records
  /\ \A r \in cat.records : \E f \in FilesFor(w, r.provider) :
       f.provider = r.provider /\ \E m \in f.models : r = entryOf(f, m)
  /\ \A r \in cat.records : /\ r.provider \in DOMAIN cat.verifiedByProvider
                            /\ cat.verifiedByProvider[r.provider] <= r.verified
                            /\ r.verified \in Nat
  /\ Range(cat.verifiedByProvider) \subseteq Nat

(* overlayCatalog replaces the providers of the bundle as a whole. *)
LEMMA OverlaidIs ==
  ASSUME NEW w, BundleCounts(w), NEW base, NEW over,
         Cataloged(base, w.eolFiles, w.today), Cataloged(over, w.bundle.eol, w.today)
  PROVE  InForce(overlayCatalog(base, over), w)
<1> DEFINE kept == DOMAIN base.verifiedByProvider \ DOMAIN over.verifiedByProvider
           by   == [p \in DOMAIN over.verifiedByProvider \cup kept |->
                      IF p \in kept THEN base.verifiedByProvider[p] ELSE over.verifiedByProvider[p]]
           recs == over.records \cup {r \in base.records : r.provider \in kept}
           cat  == overlayCatalog(base, over)
<1>1. cat.records = recs /\ cat.verifiedByProvider = by
  BY DEF overlayCatalog
<1>2. /\ DOMAIN by = DOMAIN over.verifiedByProvider \cup kept
      /\ \A p \in DOMAIN by : by[p] = IF p \in kept THEN base.verifiedByProvider[p] ELSE over.verifiedByProvider[p]
  OBVIOUS
<1>3. \A r : r \in recs <=> r \in over.records \/ (r \in base.records /\ r.provider \in kept)
  OBVIOUS
<1>4. kept = DOMAIN base.verifiedByProvider \ DOMAIN over.verifiedByProvider
  OBVIOUS
<1> HIDE DEF kept, by, recs, cat
<1>5. PICK Q : Q = {b.provider : b \in w.bundle.eol} /\ DOMAIN over.verifiedByProvider = Q
  BY DEF Cataloged
<1>6. PICK P : P = {f.provider : f \in w.eolFiles} /\ DOMAIN base.verifiedByProvider = P
  BY DEF Cataloged
<1>7. kept = P \ Q /\ DOMAIN by = P \cup Q
  BY <1>2, <1>4, <1>5, <1>6
<1>8. \A p : FilesFor(w, p) = IF p \in Q THEN w.bundle.eol ELSE w.eolFiles
  BY <1>5 DEF FilesFor
<1>9. ASSUME NEW p, NEW f \in FilesFor(w, p), f.provider = p
      PROVE  validFile(f, w.today) /\ \A m \in f.models : entryOf(f, m) \in recs
  <2>1. CASE p \in Q
    <3>1. f \in w.bundle.eol
      BY <1>8, <1>9, <2>1
    <3> QED
      BY <1>3, <3>1 DEF Cataloged
  <2>2. CASE p \notin Q
    <3>1. f \in w.eolFiles /\ p \in kept
      BY <1>6, <1>7, <1>8, <1>9, <2>2
    <3>2. \A m \in f.models : entryOf(f, m) \in base.records /\ entryOf(f, m).provider = p
      BY <1>9, <3>1, EntryIs DEF Cataloged
    <3> QED
      BY <1>3, <3>1, <3>2 DEF Cataloged
  <2> QED
    BY <2>1, <2>2
<1>10. ASSUME NEW r \in recs
       PROVE  /\ \E f \in FilesFor(w, r.provider) : f.provider = r.provider /\ \E m \in f.models : r = entryOf(f, m)
              /\ r.provider \in DOMAIN by /\ by[r.provider] <= r.verified /\ r.verified \in Nat
  <2>1. CASE r \in over.records
    <3>1. PICK f \in w.bundle.eol : \E m \in f.models : r = entryOf(f, m)
      BY <2>1 DEF Cataloged
    <3>2. f.provider = r.provider /\ r.provider \in Q
      BY <1>5, <3>1, EntryIs
    <3>3. r.provider \in DOMAIN by /\ by[r.provider] = over.verifiedByProvider[r.provider]
      BY <1>2, <1>5, <1>7, <3>2
    <3>4. over.verifiedByProvider[r.provider] <= r.verified /\ r.verified \in Nat
      BY <2>1 DEF Cataloged
    <3>5. f \in FilesFor(w, r.provider)
      BY <1>8, <3>2
    <3> QED
      BY <3>1, <3>2, <3>3, <3>4, <3>5
  <2>2. CASE r \in base.records /\ r.provider \in kept
    <3>1. PICK f \in w.eolFiles : \E m \in f.models : r = entryOf(f, m)
      BY <2>2 DEF Cataloged
    <3>2. f.provider = r.provider /\ r.provider \notin Q
      BY <1>7, <2>2, <3>1, EntryIs
    <3>3. r.provider \in DOMAIN by /\ by[r.provider] = base.verifiedByProvider[r.provider]
      BY <1>2, <1>7, <2>2
    <3>4. base.verifiedByProvider[r.provider] <= r.verified /\ r.verified \in Nat
      BY <2>2 DEF Cataloged
    <3>5. f \in FilesFor(w, r.provider)
      BY <1>8, <3>2
    <3> QED
      BY <3>1, <3>2, <3>3, <3>4, <3>5
  <2> QED
    BY <1>3, <2>1, <2>2
<1>11. Range(by) \subseteq Nat
  <2> SUFFICES ASSUME NEW p \in DOMAIN by PROVE by[p] \in Nat
    BY DEF Range
  <2>1. CASE p \in kept
    <3>1. by[p] = base.verifiedByProvider[p] /\ p \in DOMAIN base.verifiedByProvider
      BY <1>2, <1>4, <1>7, <2>1
    <3> QED
      BY <3>1 DEF Cataloged, Range
  <2>2. CASE p \notin kept
    <3>1. by[p] = over.verifiedByProvider[p] /\ p \in DOMAIN over.verifiedByProvider
      BY <1>2, <1>5, <1>7, <2>2
    <3> QED
      BY <3>1 DEF Cataloged, Range
  <2> QED
    BY <2>1, <2>2
<1> QED
  BY <1>1, <1>9, <1>10, <1>11 DEF InForce, cat

(* Without a bundle that counts, the built-in entries are in force. *)
LEMMA AsBuiltIn ==
  ASSUME NEW w, ~BundleCounts(w), NEW base, Cataloged(base, w.eolFiles, w.today)
  PROVE  InForce(base, w)
<1>1. \A p : FilesFor(w, p) = w.eolFiles
  BY DEF FilesFor
<1>2. ASSUME NEW r \in base.records
      PROVE  \E f \in FilesFor(w, r.provider) : f.provider = r.provider /\ \E m \in f.models : r = entryOf(f, m)
  BY <1>1, EntryIs DEF Cataloged
<1> QED
  BY <1>1, <1>2 DEF InForce, Cataloged

BuiltInLoads(w) == loadCatalog(w.eolFiles, w.today, "builtin") # Refused

(* What catalogFor chooses, and what it says of it. *)
LEMMA CatalogIs ==
  ASSUME NEW w \in Worlds, BuiltInLoads(w)
  PROVE  /\ catalogFor(w).catalog # Refused /\ InForce(catalogFor(w).catalog, w)
         /\ w.bundle.eol # {} /\ ~w.noCachedRules =>
              IF BundleCounts(w) THEN catalogFor(w).from = w.bundle.version ELSE "eol bundle ignored" \in catalogFor(w).warn
         /\ BundleCounts(w) => catalogFor(w).warn = {}
<1>1. \A f \in w.eolFiles \cup w.bundle.eol : Dated(f)
  BY InventoryAssumption DEF Dated
<1>2. PICK base : base = loadCatalog(w.eolFiles, w.today, "builtin") /\ base # Refused
  BY DEF BuiltInLoads
<1>3. Cataloged(base, w.eolFiles, w.today)
  BY <1>1, <1>2, Loaded DEF BuiltInLoads
<1>4. PICK over : over = loadCatalog(w.bundle.eol, w.today, "bundle")
  OBVIOUS
<1>5. NoBundle.eol = {}
  BY DEF NoBundle
<1>6. CASE BundleCounts(w)
  <2>1. over # Refused /\ Cataloged(over, w.bundle.eol, w.today)
    BY <1>1, <1>4, <1>6, Loaded DEF BundleCounts
  <2>2. catalogFor(w) = [catalog |-> overlayCatalog(base, over), from |-> w.bundle.version, warn |-> {}]
    BY <1>2, <1>4, <1>6, <2>1 DEF catalogFor, BundleCounts
  <2>3. catalogFor(w).catalog = overlayCatalog(base, over) /\ catalogFor(w).from = w.bundle.version
        /\ catalogFor(w).warn = {}
    BY <2>2
  <2>4. overlayCatalog(base, over) # Refused
    BY NotRefused DEF overlayCatalog
  <2> QED
    BY <1>3, <1>6, <2>1, <2>3, <2>4, OverlaidIs
<1>7. CASE ~BundleCounts(w)
  <2>1. catalogFor(w).catalog = base
    BY <1>2, <1>4, <1>7 DEF catalogFor, BundleCounts
  <2>2. w.bundle.eol # {} /\ ~w.noCachedRules => "eol bundle ignored" \in catalogFor(w).warn
    BY <1>2, <1>4, <1>5, <1>7 DEF catalogFor, BundleCounts
  <2> QED
    BY <1>2, <1>3, <1>7, <2>1, <2>2, AsBuiltIn
<1> QED
  BY <1>6, <1>7

-----------------------------------------------------------------------------
(* Lifecycle claims *)

(* The claim about a component is one entry's, on every day. *)
ClaimsBy(c, cat, r) ==
  /\ r \in cat.records /\ r.provider = c.provider /\ c.provider # ""
  /\ \E id \in Range(modelIDs(c)) : id \in r.names
  /\ \A on : /\ enrichEOL(c, cat, on).state = DeriveEOLState(r.state, r.shutdown, on)
             /\ enrichEOL(c, cat, on).shutdown = r.shutdown
             /\ enrichEOL(c, cat, on).verified = r.verified
             /\ enrichEOL(c, cat, on).daysRemaining = IF r.shutdown = NoDate THEN {} ELSE {r.shutdown - on}

(* A model is looked up under its snapshot or its line. *)
LEMMA IdsAre ==
  ASSUME NEW c
  PROVE  DOMAIN modelIDs(c) \subseteq Nat /\ \A n \in DOMAIN modelIDs(c) : modelIDs(c)[n] \in Range(modelIDs(c))
<1>1. \A a, b : DOMAIN <<a, b>> \subseteq Nat /\ DOMAIN <<a>> \subseteq Nat
  OBVIOUS
<1>2. DOMAIN modelIDs(c) \subseteq Nat
  BY <1>1 DEF modelIDs
<1> QED
  BY <1>2 DEF Range

(* A hosted model with an entry has a claim, which is that entry's. *)
LEMMA Known ==
  ASSUME NEW c, NEW cat, NEW id \in Range(modelIDs(c)), recordOf(cat, c.provider, id) # {},
         c.kind \in {"hosted-llm", "embedding-model"}, c.provider # ""
  PROVE  \E r : ClaimsBy(c, cat, r)
<1> DEFINE ids   == modelIDs(c)
           found == {n \in DOMAIN ids : recordOf(cat, c.provider, ids[n]) # {}}
           R     == recordOf(cat, c.provider, ids[earliest(found)])
           r     == CHOOSE x \in R : TRUE
<1>1. found # {}
  BY DEF Range
<1>2. found \in SUBSET Nat
  BY IdsAre
<1>3. earliest(found) \in found
  BY <1>1, <1>2, EarliestIs
<1>4. R # {} /\ ids[earliest(found)] \in Range(ids)
  BY <1>3, IdsAre
<1>5. r \in R
  BY <1>4
<1>6. r \in cat.records /\ r.provider = c.provider /\ ids[earliest(found)] \in r.names
  BY <1>5 DEF recordOf
<1>7. \A on : enrichEOL(c, cat, on) = LookupEOL(cat, c.provider, ids[earliest(found)], on)
  BY <1>1 DEF enrichEOL
<1>8. ASSUME NEW on
      PROVE  /\ enrichEOL(c, cat, on).state = DeriveEOLState(r.state, r.shutdown, on)
             /\ enrichEOL(c, cat, on).shutdown = r.shutdown
             /\ enrichEOL(c, cat, on).verified = r.verified
             /\ enrichEOL(c, cat, on).daysRemaining = IF r.shutdown = NoDate THEN {} ELSE {r.shutdown - on}
  <2>1. LET e == LookupEOL(cat, c.provider, ids[earliest(found)], on) IN
        /\ e.state = DeriveEOLState(r.state, r.shutdown, on) /\ e.shutdown = r.shutdown /\ e.verified = r.verified
        /\ e.daysRemaining = IF r.shutdown = NoDate THEN {} ELSE {r.shutdown - on}
    BY <1>4 DEF LookupEOL
  <2> HIDE DEF ids, found, R, r
  <2> QED
    BY <1>7, <2>1, Zenon
<1> HIDE DEF ids, found, R, r
<1>9. \E x \in Range(modelIDs(c)) : x \in r.names
  BY <1>4, <1>6 DEF ids
<1>10. ClaimsBy(c, cat, r)
  BY <1>6, <1>8, <1>9, Zenon DEF ClaimsBy
<1> QED
  BY <1>10

(* Only a hosted model with an entry has a claim. *)
LEMMA Unknown ==
  ASSUME NEW c, NEW cat, NEW on, enrichEOL(c, cat, on).state # ""
  PROVE  /\ c.kind \in {"hosted-llm", "embedding-model"} /\ c.provider # ""
         /\ \E id \in Range(modelIDs(c)) : recordOf(cat, c.provider, id) # {}
<1> DEFINE ids   == modelIDs(c)
           found == {n \in DOMAIN ids : recordOf(cat, c.provider, ids[n]) # {}}
<1>1. NoClaim.state = ""
  BY DEF NoClaim
<1>2. enrichEOL(c, cat, on) # NoClaim
  BY <1>1
<1>3. c.kind \in {"hosted-llm", "embedding-model"} /\ c.provider # "" /\ found # {}
  BY <1>2 DEF enrichEOL
<1>4. PICK n \in DOMAIN ids : recordOf(cat, c.provider, ids[n]) # {}
  BY <1>3
<1> QED
  BY <1>3, <1>4, IdsAre

(* The announced state with the days that have come. *)
LEMMA DaysOnly ==
  ASSUME NEW s \in {"supported", "deprecated", "retired"}, NEW shutdown \in Nat, NEW on \in Nat
  PROVE  /\ DeriveEOLState(s, shutdown, on) # ""
         /\ shutdown # NoDate => (DeriveEOLState(s, shutdown, on) = "retired" <=> shutdown - on <= 0)
         /\ \A n \in Nat : EOLStateRank(DeriveEOLState(s, shutdown, on + n)) >= EOLStateRank(DeriveEOLState(s, shutdown, on))
<1>1. DeriveEOLState(s, shutdown, on) # ""
  BY DEF DeriveEOLState
<1>2. shutdown # NoDate => (DeriveEOLState(s, shutdown, on) = "retired" <=> shutdown - on <= 0)
  BY DEF DeriveEOLState
<1>3. ASSUME NEW n \in Nat
      PROVE  EOLStateRank(DeriveEOLState(s, shutdown, on + n)) >= EOLStateRank(DeriveEOLState(s, shutdown, on))
  <2>1. EOLStateRank("retired") = 3 /\ EOLStateRank("deprecated") = 2 /\ EOLStateRank("supported") = 1
    BY DEF EOLStateRank
  <2>2. CASE shutdown = NoDate
    BY <2>1, <2>2 DEF DeriveEOLState
  <2>3. CASE shutdown # NoDate /\ shutdown <= on
    <3>1. shutdown <= on + n
      BY <2>3
    <3> QED
      BY <2>1, <2>3, <3>1 DEF DeriveEOLState
  <2>4. CASE shutdown # NoDate /\ ~(shutdown <= on)
    <3>1. DeriveEOLState(s, shutdown, on) = "deprecated"
      BY <2>4 DEF DeriveEOLState
    <3>2. DeriveEOLState(s, shutdown, on + n) \in {"retired", "deprecated"}
      BY <2>4 DEF DeriveEOLState
    <3> QED
      BY <2>1, <3>1, <3>2
  <2> QED
    BY <2>2, <2>3, <2>4
<1> QED
  BY <1>1, <1>2, <1>3

(* A verification long ago is warned about. *)
LEMMA StaleSaid ==
  ASSUME NEW cat, NEW w, InForce(cat, w), NEW r \in cat.records, NEW on \in Nat, on - r.verified > eolStaleAfter
  PROVE  "eol stale" \in {x[1] : x \in StalenessWarning(cat, on)}
<1>1. PICK V : V = Range(cat.verifiedByProvider)
  OBVIOUS
<1>2. PICK p : p = r.provider /\ p \in DOMAIN cat.verifiedByProvider
               /\ cat.verifiedByProvider[p] <= r.verified /\ r.verified \in Nat
  BY DEF InForce
<1>3. V \in SUBSET Nat /\ cat.verifiedByProvider[p] \in V
  BY <1>1, <1>2 DEF InForce, Range
<1>4. earliest(V) \in V /\ earliest(V) <= cat.verifiedByProvider[p]
  BY <1>3, EarliestIs
<1>5. PICK worst : worst = earliest(V) /\ worst \in Nat /\ worst <= r.verified
  <2>1. earliest(V) \in Nat /\ cat.verifiedByProvider[p] \in Nat
    BY <1>3, <1>4
  <2> QED
    BY <1>2, <1>4, <2>1
<1>6. on - worst > eolStaleAfter /\ ~(worst > on)
  BY <1>2, <1>5 DEF eolStaleAfter
<1>7. cat.verifiedByProvider # << >>
  BY <1>2
<1>8. PICK lever : StalenessWarning(cat, on) = {<<"eol stale", worst, lever>>}
  BY <1>1, <1>5, <1>6, <1>7 DEF StalenessWarning
<1>9. \A a, b, d : <<a, b, d>>[1] = a
  OBVIOUS
<1> QED
  BY <1>8, <1>9

(* Which catalog the document says it was annotated from. *)
LEMMA ToolIs ==
  ASSUME NEW i, NEW w, Assembled(i), catalogFor(w).catalog # Refused
  PROVE  Annotated(i, w).tool.eolCatalog = catalogFor(w).from
<1> DEFINE i1 == Bare(i)
           i2 == CheckAdvisories(i1, w)
           i3 == MarkExploited(i2, w)
           i4 == ClaimLifecycles(i3, w)
           Typed(j) == DOMAIN j = InventoryFields /\ "eolCatalog" \in DOMAIN j.tool
<1>1. Typed(i1)
  BY DEF Bare, InventoryFields
<1> HIDE DEF i1
<1>2. Typed(i2)
  BY <1>1 DEF CheckAdvisories, InventoryFields
<1> HIDE DEF i2
<1>3. Typed(i3)
  BY <1>2 DEF MarkExploited, InventoryFields
<1> HIDE DEF i3
<1>4. PICK cs, from : from = catalogFor(w).from /\ i4 = [i3 EXCEPT !.components = cs, !.tool.eolCatalog = from]
  BY DEF ClaimLifecycles
<1>5. Typed(i4) /\ i4.tool.eolCatalog = from
  BY <1>3, <1>4 DEF InventoryFields
<1> HIDE DEF i4
<1>6. PICK k : k = {evalControl(x, i4.components, w.includeTests) : x \in Frameworks}
  OBVIOUS
<1>7. Annotated(i, w) = [i4 EXCEPT !.controls = k]
  BY <1>6 DEF Annotated, Comply, i1, i2, i3, i4
<1> QED
  BY <1>4, <1>5, <1>7 DEF InventoryFields

(* Only the lifecycle overlay says that the bundle's catalog was ignored. *)
LEMMA SaysIgnored ==
  ASSUME NEW i, NEW w \in Worlds, BuiltInLoads(w)
  PROVE  "eol bundle ignored" \in CVEWarnings(i, w) \cup KEVWarnings(w) \cup EOLWarnings(w)
           <=> "eol bundle ignored" \in catalogFor(w).warn
<1>1. "eol bundle ignored" \notin CVEWarnings(i, w)
  <2>1. CVEWarnings(i, w) \subseteq {"cve tests skipped", "cve range unresolved", "cve unreachable"}
    BY DEF CVEWarnings, enrichCVE
  <2> QED
    BY <2>1
<1>2. "eol bundle ignored" \notin KEVWarnings(w)
  <2>1. kevFor(w).warn \subseteq {"kev bundle ignored"}
    BY DEF kevFor
  <2>2. KEVWarnings(w) \subseteq {"kev bundle ignored", "kev unavailable", "kev stale"}
    BY <2>1 DEF KEVWarnings
  <2> QED
    BY <2>2
<1>3. \A cat, on : "eol bundle ignored" \notin {x[1] : x \in StalenessWarning(cat, on)}
  <2> TAKE cat, on
  <2>1. \A x \in StalenessWarning(cat, on) : x[1] \in {"eol verified after the scan", "eol stale"}
    <3> TAKE x \in StalenessWarning(cat, on)
    <3>2. \/ \E a, b : x = <<"eol stale", a, b>>
          \/ \E a : x = <<"eol verified after the scan", a>>
      BY DEF StalenessWarning
    <3>3. CASE \E a, b : x = <<"eol stale", a, b>>
      <4>1. PICK a, b : x = <<"eol stale", a, b>>
        BY <3>3
      <4>2. x[1] = "eol stale"
        BY <4>1
      <4> QED
        BY <4>2
    <3>4. CASE \E a : x = <<"eol verified after the scan", a>>
      <4>1. PICK a : x = <<"eol verified after the scan", a>>
        BY <3>4
      <4>2. x[1] = "eol verified after the scan"
        BY <4>1
      <4> QED
        BY <4>2
    <3> QED
      BY <3>2, <3>3, <3>4
  <2> QED
    BY <2>1
<1>4. PICK f : f = catalogFor(w) /\ f.catalog # Refused
  BY CatalogIs
<1>5. EOLWarnings(w) = f.warn \cup {x[1] : x \in StalenessWarning(f.catalog, w.day)}
  BY <1>4 DEF EOLWarnings
<1> QED
  BY <1>1, <1>2, <1>3, <1>4, <1>5

(* Whom LifecycleHonest lets speak for a provider is whom the catalog does. *)
LEMMA Speaking ==
  ASSUME FlowInv, phase = "done", BuiltInLoads(world), NEW p
  PROVE  SpeaksFor(p) = {f \in FilesFor(world, p) : f.provider = p}
<1>1. world \in Worlds /\ said = CVEWarnings(inv, world) \cup KEVWarnings(world) \cup EOLWarnings(world)
  BY DEF FlowInv
<1>2. "eol bundle ignored" \in said <=> "eol bundle ignored" \in catalogFor(world).warn
  BY <1>1, SaysIgnored
<1>3. p \in {b.provider : b \in world.bundle.eol} => world.bundle.eol # {}
  OBVIOUS
<1>4. p \in {b.provider : b \in world.bundle.eol} => (Usable <=> BundleCounts(world))
  BY <1>1, <1>2, <1>3, CatalogIs DEF Usable, BundleCounts
<1> QED
  BY <1>4 DEF SpeaksFor, FilesFor

(* An entry always has a state; *)
LEMMA AlwaysAState ==
  ASSUME NEW s \in {"supported", "deprecated", "retired"}, NEW shutdown \in Nat, NEW on \in Nat
  PROVE  DeriveEOLState(s, shutdown, on) # ""
BY DaysOnly

(* it is retired when no day remains; *)
LEMMA RetiredWhen ==
  ASSUME NEW s \in {"supported", "deprecated", "retired"}, NEW shutdown \in Nat, NEW on \in Nat, shutdown # NoDate
  PROVE  DeriveEOLState(s, shutdown, on) = "retired" <=> shutdown - on <= 0
BY DaysOnly

(* and it never goes back. *)
LEMMA NeverBack ==
  ASSUME NEW s \in {"supported", "deprecated", "retired"}, NEW shutdown \in Nat, NEW on \in Nat, NEW n \in Nat
  PROVE  EOLStateRank(DeriveEOLState(s, shutdown, on + n)) >= EOLStateRank(DeriveEOLState(s, shutdown, on))
BY DaysOnly

(* What LifecycleHonest asks of one component, some days later. *)
HonestOf(c, later) ==
  LET at(n) == enrichEOL(c, catalogFor(world).catalog, world.day + n) IN
  /\ c.kind \in {"hosted-llm", "embedding-model"} /\ Entries(c) # {} => c.eol.state # ""
  /\ c.eol.state # "" =>
       /\ c.eol.shutdown \in {m.shutdown : m \in Entries(c)}
       /\ c.eol.daysRemaining # {} => (c.eol.state = "retired" <=> \A n \in c.eol.daysRemaining : n <= 0)
       /\ \A n \in later : EOLStateRank(at(n).state) >= EOLStateRank(c.eol.state)
       /\ world.day - c.eol.verified > eolStaleAfter => "eol stale" \in said
  /\ world.bundle.eol # {} /\ ~world.noCachedRules =>
       "eol bundle ignored" \in said \/ doc.tool.eolCatalog = world.bundle.version

(* Honest of every component is honest. *)
LEMMA HonestAll ==
  ASSUME phase = "done" => \A c \in doc.components : HonestOf(c, {1, 31, 400})
  PROVE  LifecycleHonest
BY Zenon DEF LifecycleHonest, HonestOf

(* What the document says of a lifecycle is what the entry in force says. *)
LEMMA Honest == ASSUME FlowInv, BuiltInLoads(world) PROVE LifecycleHonest
<1>a. {1, 31, 400} \subseteq Nat
  OBVIOUS
<1>0. PICK D : D = {1, 31, 400} /\ D \subseteq Nat
  BY <1>a, Zenon
<1>b. (phase = "done" => \A c \in doc.components : HonestOf(c, D)) => LifecycleHonest
  BY <1>0, HonestAll, Zenon
<1> SUFFICES ASSUME phase = "done", NEW c \in doc.components PROVE HonestOf(c, D)
  BY <1>b, Zenon
<1>1. /\ world \in Worlds /\ doc = Annotated(inv, world) /\ Assembled(inv)
      /\ said = CVEWarnings(inv, world) \cup KEVWarnings(world) \cup EOLWarnings(world)
  BY AssembledInventory DEF FlowInv
<1>2. PICK cat : cat = catalogFor(world).catalog /\ cat # Refused /\ InForce(cat, world)
  BY <1>1, CatalogIs
<1>3. PICK on : on = world.day /\ on \in Nat
  BY <1>1, InventoryAssumption
<1>4. c.eol = enrichEOL(c, cat, on)
  BY <1>1, <1>2, <1>3, AnnotatedIs DEF Claim
<1>5. \A f \in SpeaksFor(c.provider) : f \in FilesFor(world, c.provider) /\ f.provider = c.provider
  BY Speaking
<1>6. \A f \in FilesFor(world, c.provider) : f.provider = c.provider => f \in SpeaksFor(c.provider)
  BY Speaking
<1>7. \A p : \A f \in FilesFor(world, p) : Dated(f)
  BY <1>1, InventoryAssumption DEF FilesFor, Dated
<1>8. ASSUME NEW r, ClaimsBy(c, cat, r)
      PROVE  /\ r.state \in {"supported", "deprecated", "retired"} /\ r.shutdown \in Nat /\ r.verified \in Nat
             /\ r.shutdown \in {m.shutdown : m \in Entries(c)}
  <2>1. r \in cat.records /\ r.provider = c.provider /\ \E id \in Range(modelIDs(c)) : id \in r.names
    BY <1>8 DEF ClaimsBy
  <2>2. PICK f \in FilesFor(world, c.provider) : f.provider = c.provider /\ \E m \in f.models : r = entryOf(f, m)
    BY <1>2, <2>1 DEF InForce
  <2>3. PICK m \in f.models : r = entryOf(f, m)
    BY <2>2
  <2>4. validFile(f, world.today) /\ Dated(f)
    BY <1>2, <1>7, <2>2 DEF InForce
  <2>5. m.state \in {"supported", "deprecated", "retired"}
    BY <2>3, <2>4 DEF validFile, validModel
  <2>6. m.shutdown \in Nat /\ verifiedOn(f, m) \in Nat
    BY <2>4, VerifiedIs
  <2>7. r.state = m.state /\ r.shutdown = m.shutdown /\ r.verified = verifiedOn(f, m) /\ r.names = NamesOf(m)
    BY <2>3, EntryIs
  <2>8. m \in Entries(c)
    BY <1>6, <2>1, <2>2, <2>3, <2>7 DEF Entries
  <2> QED
    BY <2>5, <2>6, <2>7, <2>8
<1>9. ASSUME c.kind \in {"hosted-llm", "embedding-model"}, Entries(c) # {} PROVE c.eol.state # ""
  <2>1. PICK m \in UNION {f.models : f \in SpeaksFor(c.provider)} : Range(modelIDs(c)) \cap NamesOf(m) # {}
    BY <1>9 DEF Entries
  <2>2. PICK f \in SpeaksFor(c.provider) : m \in f.models
    BY <2>1
  <2>3. PICK id \in Range(modelIDs(c)) : id \in NamesOf(m)
    BY <2>1
  <2>4. f \in FilesFor(world, c.provider) /\ f.provider = c.provider
    BY <1>5, <2>2
  <2>5. validFile(f, world.today) /\ entryOf(f, m) \in cat.records
    BY <1>2, <2>2, <2>4 DEF InForce
  <2>6. c.provider # ""
    BY <2>4, <2>5 DEF validFile
  <2>7. entryOf(f, m) \in recordOf(cat, c.provider, id)
    BY <2>3, <2>4, <2>5, EntryIs DEF recordOf
  <2>8. PICK r : ClaimsBy(c, cat, r)
    BY <1>9, <2>6, <2>7, Known
  <2>9. c.eol.state = DeriveEOLState(r.state, r.shutdown, on)
    BY <1>4, <2>8 DEF ClaimsBy
  <2>10. r.state \in {"supported", "deprecated", "retired"} /\ r.shutdown \in Nat
    BY <1>8, <2>8
  <2> QED
    BY <1>3, <2>9, <2>10, AlwaysAState
<1>10. ASSUME c.eol.state # ""
       PROVE  /\ c.eol.shutdown \in {m.shutdown : m \in Entries(c)}
              /\ c.eol.daysRemaining # {} => (c.eol.state = "retired" <=> \A n \in c.eol.daysRemaining : n <= 0)
              /\ \A n \in Nat : EOLStateRank(enrichEOL(c, cat, on + n).state) >= EOLStateRank(c.eol.state)
              /\ on - c.eol.verified > eolStaleAfter => "eol stale" \in said
  <2>1. PICK id \in Range(modelIDs(c)) : /\ recordOf(cat, c.provider, id) # {} /\ c.provider # ""
                                         /\ c.kind \in {"hosted-llm", "embedding-model"}
    BY <1>4, <1>10, Unknown
  <2>2. PICK r : ClaimsBy(c, cat, r)
    BY <2>1, Known
  <2>3. /\ r.state \in {"supported", "deprecated", "retired"} /\ r.shutdown \in Nat
        /\ r.shutdown \in {m.shutdown : m \in Entries(c)}
    BY <1>8, <2>2
  <2>4. /\ c.eol.state = DeriveEOLState(r.state, r.shutdown, on) /\ c.eol.shutdown = r.shutdown
        /\ c.eol.verified = r.verified
        /\ c.eol.daysRemaining = IF r.shutdown = NoDate THEN {} ELSE {r.shutdown - on}
    BY <1>4, <2>2 DEF ClaimsBy
  <2>5. \A n \in Nat : enrichEOL(c, cat, on + n).state = DeriveEOLState(r.state, r.shutdown, on + n)
    BY <2>2 DEF ClaimsBy
  <2>6. c.eol.daysRemaining # {} => (c.eol.state = "retired" <=> \A n \in c.eol.daysRemaining : n <= 0)
    <3>1. r.shutdown # NoDate => (DeriveEOLState(r.state, r.shutdown, on) = "retired" <=> r.shutdown - on <= 0)
      BY <1>3, <2>3, RetiredWhen
    <3> QED
      BY <2>4, <3>1
  <2>7. \A n \in Nat : EOLStateRank(enrichEOL(c, cat, on + n).state) >= EOLStateRank(c.eol.state)
    <3> TAKE n \in Nat
    <3>1. EOLStateRank(DeriveEOLState(r.state, r.shutdown, on + n)) >= EOLStateRank(DeriveEOLState(r.state, r.shutdown, on))
      BY <1>3, <2>3, NeverBack
    <3> QED
      BY <2>4, <2>5, <3>1
  <2>8. ASSUME on - c.eol.verified > eolStaleAfter PROVE "eol stale" \in said
    <3>1. r \in cat.records /\ on - r.verified > eolStaleAfter
      BY <2>2, <2>4, <2>8 DEF ClaimsBy
    <3>2. "eol stale" \in {x[1] : x \in StalenessWarning(cat, on)}
      BY <1>2, <1>3, <3>1, StaleSaid
    <3>3. {x[1] : x \in StalenessWarning(cat, on)} \subseteq EOLWarnings(world)
      BY <1>2, <1>3 DEF EOLWarnings
    <3> QED
      BY <1>1, <3>2, <3>3
  <2> QED
    BY <2>3, <2>4, <2>6, <2>7, <2>8
<1>11. ASSUME world.bundle.eol # {}, ~world.noCachedRules
       PROVE  "eol bundle ignored" \in said \/ doc.tool.eolCatalog = world.bundle.version
  <2>1. CASE BundleCounts(world)
    <3>1. doc.tool.eolCatalog = catalogFor(world).from
      BY <1>1, <1>2, ToolIs
    <3> QED
      BY <1>1, <1>11, <2>1, <3>1, CatalogIs
  <2>2. CASE ~BundleCounts(world)
    <3>1. "eol bundle ignored" \in catalogFor(world).warn
      BY <1>1, <1>11, <2>2, CatalogIs
    <3> QED
      BY <1>1, <3>1, SaysIgnored
  <2> QED
    BY <2>1, <2>2
<1>13. ASSUME c.eol.state # ""
       PROVE  /\ c.eol.shutdown \in {m.shutdown : m \in Entries(c)}
              /\ c.eol.daysRemaining # {} => (c.eol.state = "retired" <=> \A n \in c.eol.daysRemaining : n <= 0)
              /\ \A n \in D :
                   EOLStateRank(enrichEOL(c, catalogFor(world).catalog, world.day + n).state) >= EOLStateRank(c.eol.state)
              /\ world.day - c.eol.verified > eolStaleAfter => "eol stale" \in said
  <2>1. \A n \in Nat :
          EOLStateRank(enrichEOL(c, catalogFor(world).catalog, world.day + n).state) >= EOLStateRank(c.eol.state)
    BY <1>2, <1>3, <1>10, <1>13, Zenon
  <2>2. world.day - c.eol.verified > eolStaleAfter => "eol stale" \in said
    BY <1>3, <1>10, <1>13, Zenon
  <2>3. \A n \in D : EOLStateRank(enrichEOL(c, catalogFor(world).catalog, world.day + n).state) >= EOLStateRank(c.eol.state)
    <3> TAKE n \in D
    <3>1. n \in Nat
      BY <1>0
    <3> QED
      BY <2>1, <3>1, Zenon
  <2>4. /\ c.eol.shutdown \in {m.shutdown : m \in Entries(c)}
        /\ c.eol.daysRemaining # {} => (c.eol.state = "retired" <=> \A n \in c.eol.daysRemaining : n <= 0)
    BY <1>10, <1>13
  <2> QED
    BY <2>2, <2>3, <2>4, Zenon
<1> QED
  BY <1>9, <1>11, <1>13, Zenon DEF HonestOf

(* The lifecycle of a hosted model is the one its provider announced: every
   model with an entry in force has a claim, which has the entry's shutdown day,
   says retired exactly when no day remains, never goes back as days pass, and
   is warned about when it was verified too long ago; and a bundle that is
   ignored is said to be. The built-in catalog (go:embed) must load. *)
THEOREM LifecyclesHonest ==
  ASSUME \A w \in Worlds : BuiltInLoads(w)
  PROVE  ISpec => []LifecycleHonest
<1>1. FlowInv => LifecycleHonest
  BY Honest DEF FlowInv
<1> QED
  BY <1>1, Flow, PTL

-----------------------------------------------------------------------------
(* Sightings in order, and each once *)

IsSeq(s) == s \in Seq(Range(s))

(* A sequence over any set is one over its elements. *)
LEMMA SeqIs ==
  ASSUME NEW S, NEW s \in Seq(S)
  PROVE  IsSeq(s) /\ Len(s) \in Nat /\ DOMAIN s = 1 .. Len(s) /\ Range(s) \subseteq S
<1>1. Len(s) \in Nat /\ s \in [1 .. Len(s) -> S] /\ DOMAIN s = 1 .. Len(s)
  BY LenProperties
<1>2. PICK R : R = Range(s)
  OBVIOUS
<1>3. R \subseteq S /\ \A i \in 1 .. Len(s) : s[i] \in R
  BY <1>1, <1>2 DEF Range
<1>4. s \in [1 .. Len(s) -> R]
  BY <1>1, <1>3
<1>5. s \in Seq(R)
  BY <1>1, <1>4
<1> QED
  BY <1>1, <1>2, <1>3, <1>5 DEF IsSeq

(* Append adds its element. *)
LEMMA Appended ==
  ASSUME NEW s, IsSeq(s), NEW e
  PROVE  IsSeq(Append(s, e)) /\ Range(Append(s, e)) = Range(s) \cup {e}
<1>1. PICK S : S = Range(s) \cup {e}
  OBVIOUS
<1>2. s \in Seq(S) /\ e \in S
  <2>1. PICK R : R = Range(s) /\ s \in Seq(R)
    BY DEF IsSeq
  <2> QED
    BY <1>1, <2>1
<1>3. PICK t : t = Append(s, e)
  OBVIOUS
<1>4. /\ t \in Seq(S) /\ Len(t) = Len(s) + 1 /\ t[Len(s) + 1] = e
      /\ \A i \in 1 .. Len(s) : t[i] = s[i]
  BY <1>2, <1>3, AppendProperties
<1>5. Len(s) \in Nat /\ DOMAIN s = 1 .. Len(s) /\ DOMAIN t = 1 .. Len(t)
  BY <1>2, <1>4, LenProperties
<1>6. Range(t) \subseteq S
  BY <1>4, SeqIs
<1>7. ASSUME NEW x \in Range(s) PROVE x \in Range(t)
  <2>1. PICK i \in 1 .. Len(s) : x = s[i]
    BY <1>5 DEF Range
  <2>2. i \in DOMAIN t /\ t[i] = x
    BY <1>4, <1>5, <2>1
  <2> QED
    BY <2>2 DEF Range
<1>8. e \in Range(t)
  <2>1. Len(s) + 1 \in DOMAIN t
    BY <1>4, <1>5
  <2> QED
    BY <1>4, <2>1 DEF Range
<1> QED
  BY <1>1, <1>3, <1>4, <1>6, <1>7, <1>8, SeqIs

(* Two lists in a row have what either has. *)
LEMMA Joined ==
  ASSUME NEW s, IsSeq(s), NEW t, IsSeq(t)
  PROVE  IsSeq(s \o t) /\ Range(s \o t) = Range(s) \cup Range(t)
<1>1. PICK R, Q : R = Range(s) /\ Q = Range(t) /\ s \in Seq(R) /\ t \in Seq(Q)
  BY DEF IsSeq
<1>a. PICK S : S = R \cup Q
  OBVIOUS
<1>b. R \subseteq S /\ Q \subseteq S
  BY <1>a
<1>2. s \in Seq(S) /\ t \in Seq(S)
  BY <1>1, <1>b
<1>3. PICK m, n : m = Len(s) /\ n = Len(t) /\ m \in Nat /\ n \in Nat /\ DOMAIN s = 1 .. m /\ DOMAIN t = 1 .. n
  BY <1>2, LenProperties
<1>4. PICK u : u = s \o t
  OBVIOUS
<1>5. u \in Seq(S) /\ Len(u) = m + n /\ \A i \in 1 .. m + n : u[i] = IF i <= m THEN s[i] ELSE t[i - m]
  BY <1>2, <1>3, <1>4, ConcatProperties
<1>6. IsSeq(u) /\ DOMAIN u = 1 .. m + n /\ Range(u) \subseteq S
  BY <1>5, SeqIs
<1>7. ASSUME NEW x \in R PROVE x \in Range(u)
  <2>1. PICK i \in 1 .. m : x = s[i]
    BY <1>1, <1>3, <1>7 DEF Range
  <2>2. i \in DOMAIN u /\ u[i] = x
    BY <1>3, <1>5, <1>6, <2>1
  <2> QED
    BY <2>2 DEF Range
<1>8. ASSUME NEW x \in Q PROVE x \in Range(u)
  <2>1. PICK i \in 1 .. n : x = t[i]
    BY <1>1, <1>3, <1>8 DEF Range
  <2>2. PICK j : j = m + i /\ j \in 1 .. m + n /\ ~(j <= m) /\ j - m = i
    BY <1>3
  <2>3. j \in DOMAIN u /\ u[j] = x
    BY <1>5, <1>6, <2>1, <2>2
  <2> QED
    BY <2>3 DEF Range
<1> QED
  BY <1>1, <1>a, <1>4, <1>6, <1>7, <1>8

(* A part of a list. *)
LEMMA Part ==
  ASSUME NEW s, IsSeq(s), NEW m \in 1 .. Len(s) + 1, NEW n \in 0 .. Len(s)
  PROVE  /\ IsSeq(SubSeq(s, m, n)) /\ Range(SubSeq(s, m, n)) = {s[i] : i \in m .. n}
<1>1. PICK R : R = Range(s) /\ s \in Seq(R)
  BY DEF IsSeq
<1>2. Len(s) \in Nat /\ s \in [1 .. Len(s) -> R]
  BY <1>1, LenProperties
<1>3. PICK T : T = {s[i] : i \in m .. n}
  OBVIOUS
<1>4. m \in Int /\ n \in Int /\ \A i \in m .. n : s[i] \in T
  BY <1>2, <1>3
<1>5. PICK u : u = SubSeq(s, m, n)
  OBVIOUS
<1>6. u \in Seq(T) /\ Len(u) = (IF m <= n THEN n - m + 1 ELSE 0) /\ \A i \in 1 .. n - m + 1 : u[i] = s[m + i - 1]
  BY <1>4, <1>5, SubSeqProperties
<1>7. IsSeq(u) /\ DOMAIN u = 1 .. Len(u) /\ Range(u) \subseteq T
  BY <1>6, SeqIs
<1>8. ASSUME NEW x \in T PROVE x \in Range(u)
  <2>1. PICK i \in m .. n : x = s[i]
    BY <1>3
  <2>2. PICK j : j = i - m + 1 /\ j \in 1 .. n - m + 1 /\ m + j - 1 = i /\ m <= n
    BY <1>4, <2>1
  <2>3. j \in DOMAIN u /\ u[j] = x
    BY <1>6, <1>7, <2>1, <2>2
  <2> QED
    BY <2>3 DEF Range
<1> QED
  BY <1>3, <1>5, <1>7, <1>8

(* An insertion adds its element and loses none. *)
LEMMA Inserted ==
  ASSUME NEW s, IsSeq(s), NEW o
  PROVE  IsSeq(inserted(s, o)) /\ Range(inserted(s, o)) = Range(s) \cup {o}
<1>1. PICK N : N = Len(s) /\ N \in Nat /\ DOMAIN s = 1 .. N
  BY LenProperties DEF IsSeq
<1>2. PICK P : P = {i \in DOMAIN s : ~occLess(o, s[i])}
  OBVIOUS
<1>3. Cardinality(P) \in 0 .. N
  <2>a. 1 \in Int /\ N \in Int
    BY <1>1
  <2>b. IsFiniteSet(1 .. N) /\ Cardinality(1 .. N) = IF 1 <= N THEN N - 1 + 1 ELSE 0
    BY <2>a, FS_Interval
  <2>1. IsFiniteSet(1 .. N) /\ Cardinality(1 .. N) = N
    BY <1>1, <2>b
  <2>2. P \subseteq 1 .. N
    BY <1>1, <1>2
  <2>3. IsFiniteSet(P) /\ Cardinality(P) <= N
    BY <2>1, <2>2, FS_Subset
  <2> QED
    BY <1>1, <2>3, FS_CardinalityType
<1>4. PICK p : p = Cardinality(P) + 1 /\ p \in 1 .. N + 1 /\ p - 1 \in 0 .. N
  BY <1>1, <1>3
<1>a. 1 \in 1 .. Len(s) + 1 /\ p \in 1 .. Len(s) + 1 /\ p - 1 \in 0 .. Len(s) /\ Len(s) \in 0 .. Len(s)
  BY <1>1, <1>4
<1>b. IsSeq(SubSeq(s, 1, p - 1)) /\ Range(SubSeq(s, 1, p - 1)) = {s[i] : i \in 1 .. p - 1}
  BY <1>a, Part
<1>c. IsSeq(SubSeq(s, p, Len(s))) /\ Range(SubSeq(s, p, Len(s))) = {s[i] : i \in p .. Len(s)}
  BY <1>a, Part
<1>5. PICK a : a = SubSeq(s, 1, p - 1) /\ IsSeq(a) /\ Range(a) = {s[i] : i \in 1 .. p - 1}
  BY <1>b
<1>6. PICK b : b = SubSeq(s, p, N) /\ IsSeq(b) /\ Range(b) = {s[i] : i \in p .. N}
  BY <1>1, <1>c
<1>7. inserted(s, o) = (a \o <<o>>) \o b
  BY <1>1, <1>2, <1>4, <1>5, <1>6 DEF inserted, InsertAt
<1>8. IsSeq(<<o>>) /\ Range(<<o>>) = {o}
  BY DEF Range, IsSeq
<1>d. IsSeq(a \o <<o>>) /\ Range(a \o <<o>>) = Range(a) \cup Range(<<o>>)
  BY <1>5, <1>8, Joined
<1>9. PICK c : c = a \o <<o>> /\ IsSeq(c) /\ Range(c) = Range(a) \cup {o}
  BY <1>8, <1>d
<1>10. IsSeq(c \o b) /\ Range(c \o b) = Range(c) \cup Range(b)
  BY <1>6, <1>9, Joined
<1>11. Range(s) = {s[i] : i \in 1 .. p - 1} \cup {s[i] : i \in p .. N}
  BY <1>1, <1>4 DEF Range
<1> QED
  BY <1>5, <1>6, <1>7, <1>9, <1>10, <1>11
(* Sorting inserts one sighting after the other. *)
SortsTo(F, s, n) ==
  /\ DOMAIN F = 0 .. n /\ F[0] = <<>>
  /\ \A i \in 1 .. n : F[i] = inserted(F[i - 1], s[i])

(* The lists on the way can be listed. *)
LEMMA SortExists ==
  ASSUME NEW s, NEW n \in Nat PROVE \E F : SortsTo(F, s, n)
<1>1. PICK T : T = {m \in Nat : \E F : SortsTo(F, s, m)}
  OBVIOUS
<1>2. 0 \in T
  <2>1. PICK F : F = [i \in 0 .. 0 |-> <<>>]
    OBVIOUS
  <2>2. SortsTo(F, s, 0)
    BY <2>1 DEF SortsTo
  <2> QED
    BY <1>1, <2>2
<1>3. ASSUME NEW m \in Nat, m \in T PROVE m + 1 \in T
  <2>1. PICK F : SortsTo(F, s, m)
    BY <1>1, <1>3
  <2>2. PICK new : new = inserted(F[m], s[m + 1])
    OBVIOUS
  <2>3. PICK G : G = [i \in 0 .. m + 1 |-> IF i = m + 1 THEN new ELSE F[i]]
    OBVIOUS
  <2>4. DOMAIN G = 0 .. m + 1 /\ G[m + 1] = new /\ \A i \in 0 .. m : G[i] = F[i]
    BY <2>3
  <2>5. G[0] = <<>>
    BY <2>1, <2>4 DEF SortsTo
  <2>6. ASSUME NEW i \in 1 .. m + 1 PROVE G[i] = inserted(G[i - 1], s[i])
    <3>1. CASE i = m + 1
      <4>1. i - 1 = m /\ m \in 0 .. m
        BY <3>1
      <4> QED
        BY <2>2, <2>4, <3>1, <4>1
    <3>2. CASE i # m + 1
      <4>1. i \in 1 .. m /\ i \in 0 .. m /\ i - 1 \in 0 .. m
        BY <3>2
      <4> QED
        BY <2>1, <2>4, <4>1 DEF SortsTo
    <3> QED
      BY <3>1, <3>2
  <2>7. SortsTo(G, s, m + 1)
    BY <2>4, <2>5, <2>6 DEF SortsTo
  <2> QED
    BY <1>1, <2>7
<1>4. n \in T
  BY <1>2, <1>3, Induction
<1> QED
  BY <1>1, <1>4

(* sortOccs is the last of them. *)
LEMMA SortRuns ==
  ASSUME NEW s, Len(s) \in Nat
  PROVE  \E F : SortsTo(F, s, Len(s)) /\ sortOccs(s) = F[Len(s)]
<1> DEFINE N == Len(s)
<1>1. PICK F : SortsTo(F, s, N)
  BY SortExists
<1>2. PICK G : G = [n \in 0 .. N |-> F[n]]
  OBVIOUS
<1>3. ASSUME NEW n \in 0 .. N
      PROVE  G[n] = IF n = 0 THEN <<>> ELSE inserted(G[n - 1], s[n])
  <2>1. CASE n = 0
    BY <1>1, <1>2, <2>1 DEF SortsTo
  <2>2. CASE n # 0
    <3>1. n \in 1 .. N /\ n - 1 \in 0 .. N
      BY <2>2
    <3>2. G[n] = F[n] /\ G[n - 1] = F[n - 1]
      BY <1>2, <3>1
    <3> QED
      BY <1>1, <2>2, <3>1, <3>2 DEF SortsTo
  <2> QED
    BY <2>1, <2>2
<1>4. G = [n \in 0 .. N |-> IF n = 0 THEN <<>> ELSE inserted(G[n - 1], s[n])]
  <2>1. PICK f : f = [n \in 0 .. N |-> IF n = 0 THEN <<>> ELSE inserted(G[n - 1], s[n])]
    OBVIOUS
  <2>2. DOMAIN f = 0 .. N /\ \A n \in 0 .. N : f[n] = IF n = 0 THEN <<>> ELSE inserted(G[n - 1], s[n])
    BY <2>1
  <2>3. f = [n \in 0 .. N |-> f[n]]
    BY <2>1
  <2>4. \A n \in 0 .. N : f[n] = G[n]
    BY <1>3, <2>2
  <2>5. f = G
    BY <1>2, <2>3, <2>4
  <2> QED
    BY <2>1, <2>5
<1>5. PICK upTo : upTo = CHOOSE H : H = [n \in 0 .. N |-> IF n = 0 THEN <<>> ELSE inserted(H[n - 1], s[n])]
  OBVIOUS
<1>6. upTo = [n \in 0 .. N |-> IF n = 0 THEN <<>> ELSE inserted(upTo[n - 1], s[n])]
  BY <1>4, <1>5
<1>7. sortOccs(s) = upTo[N]
  BY <1>5 DEF sortOccs
<1>8. SortsTo(upTo, s, N)
  <2>1. DOMAIN upTo = 0 .. N /\ \A n \in 0 .. N : upTo[n] = IF n = 0 THEN <<>> ELSE inserted(upTo[n - 1], s[n])
    BY <1>6
  <2>2. \A n \in 1 .. N : upTo[n] = inserted(upTo[n - 1], s[n])
    BY <2>1
  <2> QED
    BY <2>1, <2>2 DEF SortsTo
<1> QED
  BY <1>7, <1>8

(* Deduplication looks at one sighting after the other. *)
KeepsTo(F, s, n) ==
  /\ DOMAIN F = 0 .. n /\ F[0] = <<>>
  /\ \A i \in 1 .. n : F[i] = keepNext(F[i - 1], s, i)

(* The lists on the way can be listed. *)
LEMMA KeepExists ==
  ASSUME NEW s, NEW n \in Nat PROVE \E F : KeepsTo(F, s, n)
<1>1. PICK T : T = {m \in Nat : \E F : KeepsTo(F, s, m)}
  OBVIOUS
<1>2. 0 \in T
  <2>1. PICK F : F = [i \in 0 .. 0 |-> <<>>]
    OBVIOUS
  <2>2. KeepsTo(F, s, 0)
    BY <2>1 DEF KeepsTo
  <2> QED
    BY <1>1, <2>2
<1>3. ASSUME NEW m \in Nat, m \in T PROVE m + 1 \in T
  <2>1. PICK F : KeepsTo(F, s, m)
    BY <1>1, <1>3
  <2>2. PICK new : new = keepNext(F[m], s, m + 1)
    OBVIOUS
  <2>3. PICK G : G = [i \in 0 .. m + 1 |-> IF i = m + 1 THEN new ELSE F[i]]
    OBVIOUS
  <2>4. DOMAIN G = 0 .. m + 1 /\ G[m + 1] = new /\ \A i \in 0 .. m : G[i] = F[i]
    BY <2>3
  <2>5. G[0] = <<>>
    BY <2>1, <2>4 DEF KeepsTo
  <2>6. ASSUME NEW i \in 1 .. m + 1 PROVE G[i] = keepNext(G[i - 1], s, i)
    <3>1. CASE i = m + 1
      <4>1. i - 1 = m /\ m \in 0 .. m
        BY <3>1
      <4> QED
        BY <2>2, <2>4, <3>1, <4>1
    <3>2. CASE i # m + 1
      <4>1. i \in 1 .. m /\ i \in 0 .. m /\ i - 1 \in 0 .. m
        BY <3>2
      <4> QED
        BY <2>1, <2>4, <4>1 DEF KeepsTo
    <3> QED
      BY <3>1, <3>2
  <2>7. KeepsTo(G, s, m + 1)
    BY <2>4, <2>5, <2>6 DEF KeepsTo
  <2> QED
    BY <1>1, <2>7
<1>4. n \in T
  BY <1>2, <1>3, Induction
<1> QED
  BY <1>1, <1>4

(* dedup is the last of them. *)
LEMMA KeepRuns ==
  ASSUME NEW s, Len(s) \in Nat
  PROVE  \E F : KeepsTo(F, s, Len(s)) /\ dedup(s) = F[Len(s)]
<1> DEFINE N == Len(s)
<1>1. PICK F : KeepsTo(F, s, N)
  BY KeepExists
<1>2. PICK G : G = [n \in 0 .. N |-> F[n]]
  OBVIOUS
<1>3. ASSUME NEW n \in 0 .. N
      PROVE  G[n] = IF n = 0 THEN <<>> ELSE keepNext(G[n - 1], s, n)
  <2>1. CASE n = 0
    BY <1>1, <1>2, <2>1 DEF KeepsTo
  <2>2. CASE n # 0
    <3>1. n \in 1 .. N /\ n - 1 \in 0 .. N
      BY <2>2
    <3>2. G[n] = F[n] /\ G[n - 1] = F[n - 1]
      BY <1>2, <3>1
    <3> QED
      BY <1>1, <2>2, <3>1, <3>2 DEF KeepsTo
  <2> QED
    BY <2>1, <2>2
<1>4. G = [n \in 0 .. N |-> IF n = 0 THEN <<>> ELSE keepNext(G[n - 1], s, n)]
  <2>1. PICK f : f = [n \in 0 .. N |-> IF n = 0 THEN <<>> ELSE keepNext(G[n - 1], s, n)]
    OBVIOUS
  <2>2. DOMAIN f = 0 .. N /\ \A n \in 0 .. N : f[n] = IF n = 0 THEN <<>> ELSE keepNext(G[n - 1], s, n)
    BY <2>1
  <2>3. f = [n \in 0 .. N |-> f[n]]
    BY <2>1
  <2>4. \A n \in 0 .. N : f[n] = G[n]
    BY <1>3, <2>2
  <2>5. f = G
    BY <1>2, <2>3, <2>4
  <2> QED
    BY <2>1, <2>5
<1>5. PICK upTo : upTo = CHOOSE H : H = [n \in 0 .. N |-> IF n = 0 THEN <<>> ELSE keepNext(H[n - 1], s, n)]
  OBVIOUS
<1>6. upTo = [n \in 0 .. N |-> IF n = 0 THEN <<>> ELSE keepNext(upTo[n - 1], s, n)]
  BY <1>4, <1>5
<1>7. dedup(s) = upTo[N]
  BY <1>5 DEF dedup
<1>8. KeepsTo(upTo, s, N)
  <2>1. DOMAIN upTo = 0 .. N /\ \A n \in 0 .. N : upTo[n] = IF n = 0 THEN <<>> ELSE keepNext(upTo[n - 1], s, n)
    BY <1>6
  <2>2. \A n \in 1 .. N : upTo[n] = keepNext(upTo[n - 1], s, n)
    BY <2>1
  <2> QED
    BY <2>1, <2>2 DEF KeepsTo
<1> QED
  BY <1>7, <1>8

(* Sorting loses nothing. *)
LEMMA Sorted ==
  ASSUME NEW occs, IsSeq(occs)
  PROVE  IsSeq(sortOccs(occs)) /\ Range(sortOccs(occs)) = Range(occs)
<1>1. PICK N : N = Len(occs) /\ N \in Nat /\ DOMAIN occs = 1 .. N
  BY LenProperties DEF IsSeq
<1>2. PICK F : SortsTo(F, occs, N) /\ sortOccs(occs) = F[N]
  BY <1>1, SortRuns
<1>3. PICK T : T = {n \in Nat : n <= N => IsSeq(F[n]) /\ Range(F[n]) = {occs[i] : i \in 1 .. n}}
  OBVIOUS
<1>4. 0 \in T
  <2>1. F[0] = <<>>
    BY <1>2 DEF SortsTo
  <2>2. IsSeq(<<>>) /\ Range(<<>>) = {}
    BY DEF IsSeq, Range
  <2> QED
    BY <1>3, <2>1, <2>2
<1>5. ASSUME NEW n \in Nat, n \in T PROVE n + 1 \in T
  <2>1. CASE n + 1 <= N
    <3>1. n + 1 \in 1 .. N /\ IsSeq(F[n]) /\ Range(F[n]) = {occs[i] : i \in 1 .. n}
      BY <1>1, <1>3, <1>5, <2>1
    <3>2. F[n + 1] = inserted(F[n + 1 - 1], occs[n + 1]) /\ n + 1 - 1 = n
      BY <1>2, <3>1 DEF SortsTo
    <3>3. IsSeq(inserted(F[n], occs[n + 1])) /\ Range(inserted(F[n], occs[n + 1])) = Range(F[n]) \cup {occs[n + 1]}
      BY <3>1, Inserted
    <3>4. {occs[i] : i \in 1 .. n + 1} = {occs[i] : i \in 1 .. n} \cup {occs[n + 1]}
      OBVIOUS
    <3>5. F[n + 1] = inserted(F[n], occs[n + 1])
      BY <3>2
    <3>6. IsSeq(F[n + 1]) /\ Range(F[n + 1]) = {occs[i] : i \in 1 .. n + 1}
      BY <3>1, <3>3, <3>4, <3>5
    <3> QED
      BY <1>3, <3>6
  <2>2. CASE ~(n + 1 <= N)
    BY <1>3, <2>2
  <2> QED
    BY <2>1, <2>2
<1>6. N \in T
  BY <1>1, <1>4, <1>5, Induction
<1>7. Range(occs) = {occs[i] : i \in 1 .. N}
  BY <1>1 DEF Range
<1> QED
  BY <1>1, <1>2, <1>3, <1>6, <1>7

(* Deduplication adds nothing, and keeps one sighting of each place. *)
LEMMA OneOfEach ==
  ASSUME NEW s, IsSeq(s)
  PROVE  /\ IsSeq(dedup(s)) /\ Range(dedup(s)) \subseteq Range(s)
         /\ \A o \in Range(s) : \E x \in Range(dedup(s)) : SameSighting(x, o)
<1>1. PICK N : N = Len(s) /\ N \in Nat /\ DOMAIN s = 1 .. N
  BY LenProperties DEF IsSeq
<1>2. PICK F : KeepsTo(F, s, N) /\ dedup(s) = F[N]
  BY <1>1, KeepRuns
<1>3. PICK T : T = {n \in Nat : n <= N =>
                      /\ IsSeq(F[n]) /\ Range(F[n]) \subseteq Range(s)
                      /\ \A i \in 1 .. n : \E x \in Range(F[n]) : SameSighting(x, s[i])}
  OBVIOUS
<1>4. 0 \in T
  <2>1. F[0] = <<>>
    BY <1>2 DEF KeepsTo
  <2>2. IsSeq(<<>>) /\ Range(<<>>) = {}
    BY DEF IsSeq, Range
  <2> QED
    BY <1>3, <2>1, <2>2
<1>5. ASSUME NEW n \in Nat, n \in T PROVE n + 1 \in T
  <2>1. CASE n + 1 <= N
    <3>1. /\ n + 1 \in 1 .. N /\ IsSeq(F[n]) /\ Range(F[n]) \subseteq Range(s)
          /\ \A i \in 1 .. n : \E x \in Range(F[n]) : SameSighting(x, s[i])
      BY <1>1, <1>3, <1>5, <2>1
    <3>2. F[n + 1] = keepNext(F[n + 1 - 1], s, n + 1) /\ n + 1 - 1 = n
      BY <1>2, <3>1 DEF KeepsTo
    <3>3. F[n + 1] = keepNext(F[n], s, n + 1)
      BY <3>2
    <3>4. CASE n + 1 > 1 /\ SameSighting(s[n + 1 - 1], s[n + 1])
      <4>1. F[n + 1] = F[n] /\ n \in 1 .. n /\ SameSighting(s[n], s[n + 1])
        BY <3>2, <3>3, <3>4 DEF keepNext
      <4>2. PICK x \in Range(F[n]) : SameSighting(x, s[n])
        BY <3>1, <4>1
      <4>3. SameSighting(x, s[n + 1])
        BY <4>1, <4>2 DEF SameSighting
      <4>4. \A i \in 1 .. n + 1 : i = n + 1 \/ i \in 1 .. n
        OBVIOUS
      <4>5. \A i \in 1 .. n + 1 : \E y \in Range(F[n]) : SameSighting(y, s[i])
        BY <3>1, <4>2, <4>3, <4>4
      <4> QED
        BY <1>3, <3>1, <4>1, <4>5
    <3>5. CASE ~(n + 1 > 1 /\ SameSighting(s[n + 1 - 1], s[n + 1]))
      <4>1. F[n + 1] = Append(F[n], s[n + 1])
        BY <3>3, <3>5 DEF keepNext
      <4>2. PICK A : A = F[n + 1] /\ IsSeq(A) /\ Range(A) = Range(F[n]) \cup {s[n + 1]}
        BY <3>1, <4>1, Appended
      <4>3. s[n + 1] \in Range(s)
        BY <1>1, <3>1 DEF Range
      <4>4. \A i \in 1 .. n + 1 : i = n + 1 \/ i \in 1 .. n
        OBVIOUS
      <4>5. SameSighting(s[n + 1], s[n + 1])
        BY DEF SameSighting
      <4>6. \A i \in 1 .. n + 1 : \E y \in Range(A) : SameSighting(y, s[i])
        BY <3>1, <4>2, <4>4, <4>5
      <4> QED
        BY <1>3, <3>1, <4>2, <4>3, <4>6
    <3> QED
      BY <3>4, <3>5
  <2>2. CASE ~(n + 1 <= N)
    BY <1>3, <2>2
  <2> QED
    BY <2>1, <2>2
<1>6. N \in T
  BY <1>1, <1>4, <1>5, Induction
<1>7. ASSUME NEW o \in Range(s) PROVE \E i \in 1 .. N : o = s[i]
  BY <1>1 DEF Range
<1> QED
  BY <1>1, <1>2, <1>3, <1>6, <1>7

(* Of the sightings of a component one stays for each place and detector. *)
LEMMA SightingsStay ==
  ASSUME NEW occs, IsSeq(occs)
  PROVE  /\ IsSeq(dedupOccs(occs)) /\ Range(dedupOccs(occs)) \subseteq Range(occs)
         /\ \A o \in Range(occs) : \E x \in Range(dedupOccs(occs)) : SameSighting(x, o)
<1>1. PICK s : s = sortOccs(occs) /\ IsSeq(s) /\ Range(s) = Range(occs)
  BY Sorted
<1>2. dedupOccs(occs) = dedup(s)
  BY <1>1 DEF dedupOccs
<1> QED
  BY <1>1, <1>2, OneOfEach

-----------------------------------------------------------------------------
(* Nothing claimed is lost *)

Certain(s) == IsSeq(s) /\ \A c \in Range(s) : c.confidence \in 0 .. 1000
Says(s, v) == \E c \in Range(s) : c.value = v

(* What is missing to certainty. *)
LEMMA Doubt == ASSUME NEW x \in 0 .. 1000 PROVE 1000 - x \in Nat
  OBVIOUS

(* Of the claims of one value the surest stays. *)
LEMMA SurestStays ==
  ASSUME NEW field, NEW claims, Certain(claims), NEW v, Says(claims, v)
  PROVE  \E l \in dedupeClaims(field, claims) : l.field = field /\ l.value = v
<1>1. PICK N : N \in Nat /\ DOMAIN claims = 1 .. N
  BY LenProperties DEF Certain, IsSeq
<1>2. \A i \in 1 .. N : claims[i].confidence \in 0 .. 1000
  <2> TAKE i \in 1 .. N
  <2>1. claims[i] \in Range(claims)
    BY <1>1 DEF Range
  <2> QED
    BY <2>1 DEF Certain
<1>3. PICK V : V = {i \in 1 .. N : claims[i].value = v}
  OBVIOUS
<1>4. V # {}
  BY <1>1, <1>3 DEF Says, Range
<1>5. PICK T : T = {1000 - claims[i].confidence : i \in V}
  OBVIOUS
<1>6. T \in SUBSET Nat /\ T # {}
  <2>1. \A i \in V : 1000 - claims[i].confidence \in Nat
    <3> TAKE i \in V
    <3>1. claims[i].confidence \in 0 .. 1000
      BY <1>2, <1>3
    <3>2. PICK x : x = claims[i].confidence
      OBVIOUS
    <3>3. x \in 0 .. 1000
      BY <3>1, <3>2
    <3>4. 1000 - x \in Nat
      BY <3>3, Doubt
    <3> QED
      BY <3>2, <3>4
  <2> QED
    BY <1>4, <1>5, <2>1
<1>7. PICK t \in T : \A x \in T : t <= x
  BY <1>6, First
<1>8. PICK J : J = {i \in V : 1000 - claims[i].confidence = t}
  OBVIOUS
<1>9. J \in SUBSET Nat /\ J # {}
  BY <1>3, <1>5, <1>7, <1>8
<1>10. PICK i \in J : \A j \in J : i <= j
  BY <1>9, First
<1>11. i \in 1 .. N /\ claims[i].value = v /\ 1000 - claims[i].confidence = t
  BY <1>3, <1>8, <1>10
<1>12. ASSUME NEW j \in 1 .. N, claims[j].value = claims[i].value
       PROVE  \/ claims[j].confidence < claims[i].confidence
              \/ claims[j].confidence = claims[i].confidence /\ j >= i
  <2>1. j \in V /\ t <= 1000 - claims[j].confidence
    BY <1>3, <1>5, <1>7, <1>11, <1>12
  <2>2. 1000 - claims[j].confidence = t => i <= j
    BY <1>8, <1>10, <2>1
  <2>3. PICK x, y : x = claims[i].confidence /\ y = claims[j].confidence
    OBVIOUS
  <2>4. x \in 0 .. 1000 /\ y \in 0 .. 1000
    <3>1. i \in 1 .. N /\ j \in 1 .. N
      BY <1>11
    <3>2. x \in 0 .. 1000
      BY <1>2, <2>3, <3>1
    <3>3. y \in 0 .. 1000
      BY <1>2, <2>3, <3>1
    <3> QED
      BY <3>2, <3>3
  <2>5. 1000 - x = t /\ t <= 1000 - y
    BY <1>11, <2>1, <2>3
  <2>6. y < x \/ (y = x /\ i <= j)
    <3>1. y < x \/ (y = x /\ 1000 - y = t)
      BY <2>4, <2>5
    <3>2. 1000 - y = t => i <= j
      BY <2>2, <2>3
    <3> QED
      BY <3>1, <3>2, Zenon
  <2>7. i \in Nat /\ j \in Nat
    BY <1>1, <1>11
  <2> QED
    BY <2>3, <2>6, <2>7
<1>13. PICK l : l = [field |-> field, value |-> claims[i].value, confidence |-> claims[i].confidence,
                     method |-> claims[i].method]
  OBVIOUS
<1>14. l \in dedupeClaims(field, claims)
  BY <1>1, <1>11, <1>12, <1>13 DEF dedupeClaims
<1> QED
  BY <1>11, <1>13, <1>14

DraftFields == {"kind", "group", "versionClaims", "nameClaims", "constraintClaims", "licenses", "hashes",
  "downloadLocation", "format", "eco", "pkgName", "risks", "occs", "generationParams"}

(* A draft holds sightings of O, and claims with their confidence. *)
WellMade(d, O) ==
  /\ DOMAIN d = DraftFields
  /\ IsSeq(d.occs) /\ Range(d.occs) \subseteq O
  /\ Certain(d.versionClaims) /\ Certain(d.constraintClaims) /\ Certain(d.nameClaims)

(* What f found is in the draft. *)
Carries(name, d, f) ==
  /\ f.occurrence \in Range(d.occs)
  /\ \A v \in {f.claim.version, extraVersion(f.claim)} \ {""} : Says(d.versionClaims, v)
  /\ f.claim.range # "" => Says(d.constraintClaims, f.claim.range)
  /\ f.claim.name # name => Says(d.nameClaims, f.claim.name)

(* More claims after the claims there are. *)
LEMMA MoreClaims ==
  ASSUME NEW s, Certain(s), NEW t, Certain(t)
  PROVE  Certain(s \o t) /\ \A v : Says(s \o t, v) <=> Says(s, v) \/ Says(t, v)
<1>1. IsSeq(s \o t) /\ Range(s \o t) = Range(s) \cup Range(t)
  BY Joined DEF Certain
<1>2. Certain(s \o t)
  BY <1>1 DEF Certain
<1>3. \A v : Says(s \o t, v) <=> Says(s, v) \/ Says(t, v)
  BY <1>1 DEF Says
<1> QED
  BY <1>2, <1>3

(* A claim is made if there is something to claim. *)
LEMMA OneClaim ==
  ASSUME NEW cond \in BOOLEAN, NEW value, NEW o, o.confidence \in 0 .. 1000
  PROVE  Certain(ClaimIf(cond, value, o)) /\ (cond => Says(ClaimIf(cond, value, o), value))
<1>1. PICK c : c = [value |-> value, confidence |-> o.confidence, method |-> o.method]
  OBVIOUS
<1>2. ClaimIf(cond, value, o) = IF cond THEN <<c>> ELSE <<>>
  BY <1>1 DEF ClaimIf
<1>3. IsSeq(<<c>>) /\ Range(<<c>>) = {c} /\ IsSeq(<<>>) /\ Range(<<>>) = {}
  BY DEF IsSeq, Range
<1>4. c.confidence \in 0 .. 1000 /\ c.value = value
  BY <1>1
<1>5. Certain(<<c>>) /\ Says(<<c>>, value) /\ Certain(<<>>)
  <2>1. Certain(<<c>>)
    <3>1. PICK s : s = <<c>> /\ IsSeq(s) /\ Range(s) = {c}
      BY <1>3
    <3>2. Certain(s)
      BY <1>4, <3>1 DEF Certain
    <3> QED
      BY <3>1, <3>2
  <2>2. Says(<<c>>, value)
    BY <1>3, <1>4 DEF Says
  <2>3. Certain(<<>>)
    BY <1>3 DEF Certain
  <2> QED
    BY <2>1, <2>2, <2>3
<1> QED
  BY <1>2, <1>5

(* The fields of a draft that took another in. *)
LEMMA MergedFields ==
  ASSUME NEW d, DOMAIN d = DraftFields, NEW src
  PROVE  LET e == mergeDraft(d, src) IN
         /\ DOMAIN e = DraftFields
         /\ e.occs = d.occs \o src.occs
         /\ e.nameClaims = d.nameClaims \o src.nameClaims
         /\ e.versionClaims = d.versionClaims \o src.versionClaims
         /\ e.constraintClaims = d.constraintClaims \o src.constraintClaims
  BY DEF mergeDraft, DraftFields

(* A new draft is empty. *)
LEMMA FreshMade == ASSUME NEW key, NEW kind, NEW O PROVE WellMade(fresh(key, kind), O)
<1>1. PICK e : e = fresh(key, kind)
  OBVIOUS
<1>2. /\ DOMAIN e = DraftFields /\ e.occs = <<>> /\ e.versionClaims = <<>> /\ e.constraintClaims = <<>>
      /\ e.nameClaims = <<>>
  BY <1>1 DEF fresh, DraftFields
<1>3. IsSeq(<<>>) /\ Range(<<>>) = {}
  BY DEF IsSeq, Range
<1>4. Certain(<<>>)
  BY <1>3 DEF Certain
<1> QED
  BY <1>1, <1>2, <1>3, <1>4 DEF WellMade

(* absorbInto adds what its finding found, and loses nothing. *)
LEMMA AbsorbKeeps ==
  ASSUME NEW d, NEW O, WellMade(d, O), NEW key, NEW f, f.occurrence.confidence \in 0 .. 1000
  PROVE  LET e == absorbInto(d, key, f) IN
         /\ WellMade(e, O \cup {f.occurrence}) /\ Carries(key.name, e, f)
         /\ \A g : Carries(key.name, d, g) => Carries(key.name, e, g)
<1>1. PICK e, c, o : e = absorbInto(d, key, f) /\ c = f.claim /\ o = f.occurrence
  OBVIOUS
<1>2. DOMAIN d = DraftFields
  BY DEF WellMade
<1>3. PICK names : names = ClaimIf(c.name # key.name, c.name, o)
  OBVIOUS
<1>4. PICK versions : versions = ClaimIf(c.version # "", c.version, o)
  OBVIOUS
<1>5. PICK extras : extras = ClaimIf(extraVersion(c) # "", extraVersion(c), o)
  OBVIOUS
<1>6. PICK ranges : ranges = ClaimIf(c.range # "", c.range, o)
  OBVIOUS
<1>a. LET h == absorbInto(d, key, f) IN
      /\ DOMAIN h = DraftFields
      /\ h.occs = Append(d.occs, f.occurrence)
      /\ h.nameClaims = d.nameClaims \o ClaimIf(f.claim.name # key.name, f.claim.name, f.occurrence)
      /\ h.versionClaims = d.versionClaims \o ClaimIf(f.claim.version # "", f.claim.version, f.occurrence)
                           \o ClaimIf(extraVersion(f.claim) # "", extraVersion(f.claim), f.occurrence)
      /\ h.constraintClaims = d.constraintClaims \o ClaimIf(f.claim.range # "", f.claim.range, f.occurrence)
  BY <1>2 DEF absorbInto, DraftFields
<1>7. /\ DOMAIN e = DraftFields /\ e.occs = Append(d.occs, o) /\ e.nameClaims = d.nameClaims \o names
      /\ e.versionClaims = d.versionClaims \o versions \o extras
      /\ e.constraintClaims = d.constraintClaims \o ranges
  BY <1>1, <1>3, <1>4, <1>5, <1>6, <1>a
<1>8. /\ IsSeq(d.occs) /\ Range(d.occs) \subseteq O
      /\ Certain(d.versionClaims) /\ Certain(d.constraintClaims) /\ Certain(d.nameClaims)
  BY DEF WellMade
<1>9. o.confidence \in 0 .. 1000
  BY <1>1
<1>10. Certain(names) /\ (c.name # key.name => Says(names, c.name))
  BY <1>3, <1>9, OneClaim, ZenonT(60)
<1>11. Certain(versions) /\ (c.version # "" => Says(versions, c.version))
  BY <1>4, <1>9, OneClaim, ZenonT(60)
<1>12. Certain(extras) /\ (extraVersion(c) # "" => Says(extras, extraVersion(c)))
  BY <1>5, <1>9, OneClaim, ZenonT(60)
<1>13. Certain(ranges) /\ (c.range # "" => Says(ranges, c.range))
  BY <1>6, <1>9, OneClaim, ZenonT(60)
<1>14. IsSeq(e.occs) /\ Range(e.occs) = Range(d.occs) \cup {o}
  BY <1>7, <1>8, Appended
<1>15. Certain(e.nameClaims) /\ \A v : Says(e.nameClaims, v) <=> Says(d.nameClaims, v) \/ Says(names, v)
  BY <1>7, <1>8, <1>10, MoreClaims
<1>16. PICK s : s = d.versionClaims \o versions
  OBVIOUS
<1>17. Certain(s) /\ \A v : Says(s, v) <=> Says(d.versionClaims, v) \/ Says(versions, v)
  BY <1>8, <1>11, <1>16, MoreClaims
<1>18. Certain(e.versionClaims) /\ \A v : Says(e.versionClaims, v) <=> Says(s, v) \/ Says(extras, v)
  <2>1. Certain(s \o extras) /\ \A v : Says(s \o extras, v) <=> Says(s, v) \/ Says(extras, v)
    BY <1>12, <1>17, MoreClaims
  <2> QED
    BY <1>7, <1>16, <2>1
<1>19. Certain(e.constraintClaims) /\ \A v : Says(e.constraintClaims, v) <=> Says(d.constraintClaims, v) \/ Says(ranges, v)
  <2>1. PICK t : t = d.constraintClaims /\ Certain(t)
    BY <1>8
  <2>2. Certain(t \o ranges) /\ \A v : Says(t \o ranges, v) <=> Says(t, v) \/ Says(ranges, v)
    BY <1>13, <2>1, MoreClaims
  <2> QED
    BY <1>7, <2>1, <2>2
<1>20. WellMade(e, O \cup {f.occurrence})
  BY <1>1, <1>7, <1>8, <1>14, <1>15, <1>18, <1>19 DEF WellMade
<1>21. Carries(key.name, e, f)
  <2>1. o \in Range(e.occs)
    BY <1>14
  <2>2. \A v \in {c.version, extraVersion(c)} \ {""} : Says(e.versionClaims, v)
    <3>1. c.version # "" => Says(e.versionClaims, c.version)
      BY <1>11, <1>17, <1>18
    <3>2. extraVersion(c) # "" => Says(e.versionClaims, extraVersion(c))
      BY <1>12, <1>18
    <3> TAKE v \in {c.version, extraVersion(c)} \ {""}
    <3>3. CASE v = c.version
      BY <3>1, <3>3
    <3>4. CASE v = extraVersion(c)
      BY <3>2, <3>4
    <3> QED
      BY <3>3, <3>4
  <2>3. c.range # "" => Says(e.constraintClaims, c.range)
    BY <1>13, <1>19
  <2>4. c.name # key.name => Says(e.nameClaims, c.name)
    BY <1>10, <1>15
  <2> QED
    BY <1>1, <2>1, <2>2, <2>3, <2>4 DEF Carries
<1>22. \A g : Carries(key.name, d, g) => Carries(key.name, e, g)
  BY <1>14, <1>15, <1>17, <1>18, <1>19 DEF Carries
<1> QED
  BY <1>1, <1>20, <1>21, <1>22

(* mergeDraft loses nothing of either draft. *)
LEMMA MergeKeeps ==
  ASSUME NEW d, NEW O, WellMade(d, O), NEW src, WellMade(src, O)
  PROVE  LET e == mergeDraft(d, src) IN
         WellMade(e, O) /\ \A name, g : Carries(name, d, g) \/ Carries(name, src, g) => Carries(name, e, g)
<1>1. PICK e : e = mergeDraft(d, src)
  OBVIOUS
<1>2. DOMAIN d = DraftFields
  BY DEF WellMade
<1>3. /\ DOMAIN e = DraftFields /\ e.occs = d.occs \o src.occs /\ e.nameClaims = d.nameClaims \o src.nameClaims
      /\ e.versionClaims = d.versionClaims \o src.versionClaims
      /\ e.constraintClaims = d.constraintClaims \o src.constraintClaims
  BY <1>1, <1>2, MergedFields
<1>4. /\ IsSeq(d.occs) /\ Range(d.occs) \subseteq O
      /\ Certain(d.versionClaims) /\ Certain(d.constraintClaims) /\ Certain(d.nameClaims)
  BY DEF WellMade
<1>5. /\ IsSeq(src.occs) /\ Range(src.occs) \subseteq O
      /\ Certain(src.versionClaims) /\ Certain(src.constraintClaims) /\ Certain(src.nameClaims)
  BY DEF WellMade
<1>6. IsSeq(e.occs) /\ Range(e.occs) = Range(d.occs) \cup Range(src.occs)
  BY <1>3, <1>4, <1>5, Joined
<1>7. Certain(e.nameClaims) /\ \A v : Says(e.nameClaims, v) <=> Says(d.nameClaims, v) \/ Says(src.nameClaims, v)
  BY <1>3, <1>4, <1>5, MoreClaims
<1>8. Certain(e.versionClaims) /\ \A v : Says(e.versionClaims, v) <=> Says(d.versionClaims, v) \/ Says(src.versionClaims, v)
  BY <1>3, <1>4, <1>5, MoreClaims
<1>9. /\ Certain(e.constraintClaims)
      /\ \A v : Says(e.constraintClaims, v) <=> Says(d.constraintClaims, v) \/ Says(src.constraintClaims, v)
  BY <1>3, <1>4, <1>5, MoreClaims
<1>10. WellMade(e, O)
  BY <1>3, <1>4, <1>5, <1>6, <1>7, <1>8, <1>9 DEF WellMade
<1>11. ASSUME NEW name, NEW g, Carries(name, d, g) PROVE Carries(name, e, g)
  BY <1>6, <1>7, <1>8, <1>9, <1>11 DEF Carries
<1>12. ASSUME NEW name, NEW g, Carries(name, src, g) PROVE Carries(name, e, g)
  BY <1>6, <1>7, <1>8, <1>9, <1>12 DEF Carries
<1> QED
  BY <1>1, <1>10, <1>11, <1>12

(* Nor does the whole fold. *)
LEMMA AllKept ==
  ASSUME NEW d, NEW O, NEW srcs, Len(srcs) \in Nat, WellMade(d, O),
         \A n \in 1 .. Len(srcs) : WellMade(srcs[n], O)
  PROVE  /\ WellMade(mergeAll(d, srcs), O)
         /\ \A name, g : Carries(name, d, g) => Carries(name, mergeAll(d, srcs), g)
         /\ \A name, g : \A n \in 1 .. Len(srcs) : Carries(name, srcs[n], g) => Carries(name, mergeAll(d, srcs), g)
<1>1. PICK N : N = Len(srcs) /\ N \in Nat
  OBVIOUS
<1>2. PICK F : FoldsTo(F, d, srcs, N) /\ mergeAll(d, srcs) = F[N]
  BY <1>1, FoldRuns
<1>3. PICK T : T = {n \in Nat : n <= N =>
                      /\ WellMade(F[n], O)
                      /\ \A name, g : Carries(name, d, g) => Carries(name, F[n], g)
                      /\ \A name, g : \A i \in 1 .. n : Carries(name, srcs[i], g) => Carries(name, F[n], g)}
  OBVIOUS
<1>4. 0 \in T
  BY <1>2, <1>3 DEF FoldsTo
<1>5. ASSUME NEW n \in Nat, n \in T PROVE n + 1 \in T
  <2>1. CASE n + 1 <= N
    <3>1. /\ n + 1 \in 1 .. N /\ WellMade(F[n], O)
          /\ \A name, g : Carries(name, d, g) => Carries(name, F[n], g)
          /\ \A name, g : \A i \in 1 .. n : Carries(name, srcs[i], g) => Carries(name, F[n], g)
      BY <1>1, <1>3, <1>5, <2>1
    <3>2. F[n + 1] = mergeDraft(F[n + 1 - 1], srcs[n + 1]) /\ n + 1 - 1 = n
      BY <1>2, <3>1 DEF FoldsTo
    <3>3. PICK old, src, new : old = F[n] /\ src = srcs[n + 1] /\ new = F[n + 1]
      OBVIOUS
    <3>4. WellMade(old, O) /\ WellMade(src, O) /\ new = mergeDraft(old, src)
      BY <1>1, <3>1, <3>2, <3>3
    <3>5. WellMade(new, O) /\ \A name, g : Carries(name, old, g) \/ Carries(name, src, g) => Carries(name, new, g)
      BY <3>4, MergeKeeps
    <3>6. \A name, g : Carries(name, d, g) => Carries(name, new, g)
      BY <3>1, <3>3, <3>5
    <3>7. ASSUME NEW name, NEW g, NEW i \in 1 .. n + 1, Carries(name, srcs[i], g) PROVE Carries(name, new, g)
      <4>1. CASE i = n + 1
        BY <3>3, <3>5, <3>7, <4>1
      <4>2. CASE i # n + 1
        <5>1. i \in 1 .. n
          BY <4>2
        <5> QED
          BY <3>1, <3>3, <3>5, <3>7, <5>1
      <4> QED
        BY <4>1, <4>2
    <3> QED
      BY <1>3, <3>3, <3>5, <3>6, <3>7
  <2>2. CASE ~(n + 1 <= N)
    BY <1>3, <2>2
  <2> QED
    BY <2>1, <2>2
<1>6. N \in T
  BY <1>1, <1>4, <1>5, Induction
<1> QED
  BY <1>1, <1>2, <1>3, <1>6

(* A finite set written out in order has all its elements. *)
LEMMA SeqOfAll ==
  ASSUME NEW S, IsFiniteSet(S), NEW x \in S
  PROVE  \E n \in DOMAIN SetToSeq(S) : SetToSeq(S)[n] = x
<1>1. PICK N : N = Cardinality(S) /\ N \in Nat /\ ExistsBijection(1 .. N, S)
  BY FS_CardinalityType
<1>2. PICK f \in [1 .. N -> S] : IsInjective(f)
  BY <1>1 DEF ExistsBijection, Bijection, Injection, IsInjective
<1>3. PICK s : s = SetToSeq(S)
  OBVIOUS
<1>4. s \in [1 .. N -> S] /\ IsInjective(s)
  BY <1>1, <1>2, <1>3 DEF SetToSeq
<1>5. s \in Injection(1 .. N, S)
  BY <1>4 DEF Injection
<1>6. 1 \in Int /\ N \in Int
  BY <1>1
<1>7. Cardinality(1 .. N) = IF 1 > N THEN 0 ELSE N - 1 + 1
  BY <1>6, FS_Interval
<1>8. Cardinality(1 .. N) = Cardinality(S)
  BY <1>1, <1>7
<1>9. s \in Surjection(1 .. N, S)
  BY <1>5, <1>8, FS_Injection
<1>10. \E n \in 1 .. N : s[n] = x
  BY <1>9 DEF Surjection
<1> QED
  BY <1>3, <1>4, <1>10

(* Every draft redirected to k is gathered. *)
LEMMA GatheredAll ==
  ASSUME NEW ds, NEW to, NEW k, IsFiniteSet(DOMAIN ds), DOMAIN to \subseteq DOMAIN ds, NEW x \in Sources(to, k)
  PROVE  \E n \in 1 .. Len(Gathered(ds, to, k)) : Gathered(ds, to, k)[n] = ds[x]
<1>1. IsFiniteSet(Sources(to, k))
  BY FS_Subset DEF Sources
<1>2. PICK s : s = SetToSeq(Sources(to, k))
  OBVIOUS
<1>3. PICK n \in DOMAIN s : s[n] = x
  BY <1>1, <1>2, SeqOfAll
<1>4. PICK g : g = Gathered(ds, to, k)
  OBVIOUS
<1>5. g = [i \in DOMAIN s |-> ds[s[i]]]
  BY <1>2, <1>4 DEF Gathered
<1>6. n \in DOMAIN g /\ g[n] = ds[x]
  BY <1>3, <1>5
<1>7. DOMAIN g = 1 .. Len(g)
  BY <1>4, GatheredAre
<1> QED
  BY <1>4, <1>6, <1>7

-----------------------------------------------------------------------------
Sightings(fs) == {f.occurrence : f \in Range(fs)}
HomeOf(to, f) == canonicalID(to, normalizeKey(f.claim))

(* The drafts hold what was found, each finding in the draft of its identity. *)
Placed(fs, to, ds) ==
  /\ \A k \in DOMAIN ds : WellMade(ds[k], Sightings(fs))
  /\ \A f \in Range(fs) : HomeOf(to, f) \in DOMAIN ds /\ Carries(HomeOf(to, f).name, ds[HomeOf(to, f)], f)
DraftInv == (stage = "absorb" => redirects = <<>>) /\ Placed(absorbed, redirects, drafts)

(* What is made of some sightings is made of more. *)
LEMMA MadeOfMore == ASSUME NEW d, NEW O, NEW P, WellMade(d, O), O \subseteq P PROVE WellMade(d, P)
  BY DEF WellMade

(* Before the folds a finding is at home under its own identity. *)
LEMMA NoRedirect == ASSUME NEW f PROVE HomeOf(<<>>, f) = normalizeKey(f.claim)
  BY DEF HomeOf, canonicalID, Lookup

(* No sighting is surer than certain. *)
LEMMA CertainOccurrence == \A f \in AllFindings : f.occurrence.confidence \in 0 .. 1000
  BY AssembleAssumption DEF AllFindings

(* absorb puts a finding into the draft of its identity and leaves the others. *)
LEMMA AbsorbPlaces ==
  ASSUME NEW fs, IsSeq(fs), NEW ds, Placed(fs, <<>>, ds), NEW f, f.occurrence.confidence \in 0 .. 1000
  PROVE  Placed(Append(fs, f), <<>>, absorb(ds, f))
<1>1. PICK key : key = normalizeKey(f.claim)
  OBVIOUS
<1>2. PICK d : d = DraftOf(ds, key, f.claim.kind)
  OBVIOUS
<1>3. PICK e : e = absorbInto(d, key, f)
  OBVIOUS
<1>4. PICK new : new = absorb(ds, f)
  OBVIOUS
<1>5. /\ DOMAIN new = DOMAIN ds \cup {key} /\ new[key] = e
      /\ \A k \in DOMAIN ds \ {key} : new[k] = ds[k]
  BY <1>1, <1>2, <1>3, <1>4 DEF absorb
<1>6. PICK O : O = Sightings(fs)
  OBVIOUS
<1>7. Range(Append(fs, f)) = Range(fs) \cup {f}
  BY Appended
<1>8. Sightings(Append(fs, f)) = O \cup {f.occurrence}
  BY <1>6, <1>7 DEF Sightings
<1>9. WellMade(d, O)
  <2>1. CASE key \in DOMAIN ds
    BY <1>2, <1>6, <2>1 DEF DraftOf, Placed
  <2>2. CASE key \notin DOMAIN ds
    BY <1>2, <2>2, FreshMade DEF DraftOf
  <2> QED
    BY <2>1, <2>2
<1>10. /\ WellMade(e, O \cup {f.occurrence}) /\ Carries(key.name, e, f)
       /\ \A g : Carries(key.name, d, g) => Carries(key.name, e, g)
  BY <1>3, <1>9, AbsorbKeeps
<1>11. \A k \in DOMAIN new : WellMade(new[k], O \cup {f.occurrence})
  <2> TAKE k \in DOMAIN new
  <2>1. CASE k = key
    BY <1>5, <1>10, <2>1
  <2>2. CASE k # key
    <3>1. k \in DOMAIN ds /\ new[k] = ds[k] /\ WellMade(ds[k], O)
      BY <1>5, <1>6, <2>2 DEF Placed
    <3> QED
      BY <3>1, MadeOfMore
  <2> QED
    BY <2>1, <2>2
<1>12. ASSUME NEW g \in Range(fs) \cup {f}
       PROVE  HomeOf(<<>>, g) \in DOMAIN new /\ Carries(HomeOf(<<>>, g).name, new[HomeOf(<<>>, g)], g)
  <2>1. PICK k : k = HomeOf(<<>>, g)
    OBVIOUS
  <2>2. CASE g = f
    BY <1>1, <1>5, <1>10, <2>1, <2>2, NoRedirect
  <2>3. CASE g \in Range(fs)
    <3>1. k \in DOMAIN ds /\ Carries(k.name, ds[k], g)
      BY <2>1, <2>3 DEF Placed
    <3>2. CASE k = key
      <4>1. d = ds[k]
        BY <1>2, <3>1, <3>2 DEF DraftOf
      <4> QED
        BY <1>5, <1>10, <2>1, <3>1, <3>2, <4>1
    <3>3. CASE k # key
      BY <1>5, <2>1, <3>1, <3>3
    <3> QED
      BY <3>2, <3>3
  <2> QED
    BY <1>12, <2>2, <2>3
<1> QED
  BY <1>4, <1>7, <1>8, <1>11, <1>12 DEF Placed

(* A move keeps the name. *)
LEMMA MoveKeepsName ==
  ASSUME NEW D, NEW to, Moves(D, to), NEW k
  PROVE  canonicalID(to, k).name = k.name /\ canonicalID(to, k).class = k.class
         /\ (k \in D => canonicalID(to, k) \in D \ DOMAIN to)
<1>1. CASE k \in DOMAIN to
  <2>1. canonicalID(to, k) = to[k]
    BY <1>1 DEF canonicalID, Lookup
  <2>2. to[k] \in D \ DOMAIN to /\ (PackageMove(D, k, to[k]) \/ ModelMove(D, k, to[k]))
    BY <1>1 DEF Moves
  <2> QED
    BY <2>1, <2>2 DEF PackageMove, ModelMove, Declared, Vendored
<1>2. CASE k \notin DOMAIN to
  BY <1>2 DEF canonicalID, Lookup
<1> QED
  BY <1>1, <1>2

(* The folds of Build place every finding in the draft its own went into. *)
LEMMA FoldPlaces ==
  ASSUME NEW fs, NEW ds, Placed(fs, <<>>, ds), IsFiniteSet(DOMAIN ds), NEW to, Moves(DOMAIN ds, to)
  PROVE  Placed(fs, to, foldInto(ds, to))
<1>1. PICK O : O = Sightings(fs)
  OBVIOUS
<1>2. DOMAIN to \subseteq DOMAIN ds
  BY DEF Moves
<1>3. PICK new : new = foldInto(ds, to)
  OBVIOUS
<1>4. DOMAIN new = DOMAIN ds \ DOMAIN to
  BY <1>3 DEF foldInto
<1>5. ASSUME NEW k \in DOMAIN ds \ DOMAIN to
      PROVE  /\ WellMade(new[k], O) /\ \A name, g : Carries(name, ds[k], g) => Carries(name, new[k], g)
             /\ \A x \in Sources(to, k) : \A name, g : Carries(name, ds[x], g) => Carries(name, new[k], g)
  <2>1. PICK srcs : srcs = Gathered(ds, to, k)
    OBVIOUS
  <2>2. Len(srcs) \in Nat /\ \A n \in 1 .. Len(srcs) : \E x \in Sources(to, k) : srcs[n] = ds[x]
    BY <1>2, <2>1, GatheredAre
  <2>3. \A x \in Sources(to, k) : \E n \in 1 .. Len(srcs) : srcs[n] = ds[x]
    BY <1>2, <2>1, GatheredAll
  <2>4. WellMade(ds[k], O) /\ \A n \in 1 .. Len(srcs) : WellMade(srcs[n], O)
    BY <1>1, <1>2, <2>2 DEF Placed, Sources
  <2>5. /\ WellMade(mergeAll(ds[k], srcs), O)
        /\ \A name, g : Carries(name, ds[k], g) => Carries(name, mergeAll(ds[k], srcs), g)
        /\ \A name, g : \A n \in 1 .. Len(srcs) : Carries(name, srcs[n], g) => Carries(name, mergeAll(ds[k], srcs), g)
    BY <2>2, <2>4, AllKept
  <2>6. new[k] = mergeAll(ds[k], srcs)
    BY <1>3, <1>5, <2>1, FoldedInto
  <2> QED
    BY <2>3, <2>5, <2>6
<1>6. ASSUME NEW f \in Range(fs)
      PROVE  HomeOf(to, f) \in DOMAIN new /\ Carries(HomeOf(to, f).name, new[HomeOf(to, f)], f)
  <2>1. PICK x : x = normalizeKey(f.claim) /\ x \in DOMAIN ds /\ Carries(x.name, ds[x], f)
    BY NoRedirect DEF Placed
  <2>2. PICK k : k = HomeOf(to, f) /\ k = canonicalID(to, x) /\ k.name = x.name /\ k \in DOMAIN ds \ DOMAIN to
    BY <2>1, MoveKeepsName DEF HomeOf
  <2>3. CASE x \in DOMAIN to
    <3>1. x \in Sources(to, k)
      BY <2>2, <2>3 DEF Sources, canonicalID, Lookup
    <3> QED
      BY <1>4, <1>5, <2>1, <2>2, <3>1
  <2>4. CASE x \notin DOMAIN to
    <3>1. k = x
      BY <2>2, <2>4 DEF canonicalID, Lookup
    <3> QED
      BY <1>4, <1>5, <2>1, <2>2, <3>1
  <2> QED
    BY <2>3, <2>4
<1> QED
  BY <1>1, <1>3, <1>4, <1>5, <1>6 DEF Placed

(* The minted root takes nothing away. *)
LEMMA RootPlaces ==
  ASSUME NEW fs, NEW to, NEW ds, Placed(fs, to, ds) PROVE Placed(fs, to, mintRoot(ds))
<1>1. PICK new : new = mintRoot(ds)
  OBVIOUS
<1>2. /\ DOMAIN new = DOMAIN ds \cup {RootKey} /\ \A k \in DOMAIN ds : new[k] = ds[k]
      /\ RootKey \notin DOMAIN ds => new[RootKey] = fresh(RootKey, "application")
  BY <1>1 DEF mintRoot, DraftOf
<1>3. \A k \in DOMAIN new : WellMade(new[k], Sightings(fs))
  BY <1>2, FreshMade DEF Placed
<1>4. \A f \in Range(fs) : HomeOf(to, f) \in DOMAIN new /\ Carries(HomeOf(to, f).name, new[HomeOf(to, f)], f)
  BY <1>2 DEF Placed
<1> QED
  BY <1>1, <1>3, <1>4 DEF Placed

(* The parameters of calls are all that promoteParams writes. *)
LEMMA PromotedFields ==
  ASSUME NEW ds, NEW k \in DOMAIN ds, DOMAIN ds[k] = DraftFields
  PROVE  LET e == promoteParams(ds)[k] IN
         /\ DOMAIN e = DraftFields /\ e.occs = ds[k].occs /\ e.nameClaims = ds[k].nameClaims
         /\ e.versionClaims = ds[k].versionClaims /\ e.constraintClaims = ds[k].constraintClaims
  BY DEF promoteParams, DraftFields

(* promoteParams touches nothing a finding claimed. *)
LEMMA PromotePlaces ==
  ASSUME NEW fs, NEW to, NEW ds, Placed(fs, to, ds) PROVE Placed(fs, to, promoteParams(ds))
<1>1. PICK new : new = promoteParams(ds)
  OBVIOUS
<1>2. DOMAIN new = DOMAIN ds
  BY <1>1 DEF promoteParams
<1>3. ASSUME NEW k \in DOMAIN ds
      PROVE  /\ DOMAIN new[k] = DraftFields /\ new[k].occs = ds[k].occs /\ new[k].nameClaims = ds[k].nameClaims
             /\ new[k].versionClaims = ds[k].versionClaims /\ new[k].constraintClaims = ds[k].constraintClaims
  <2>1. DOMAIN ds[k] = DraftFields
    BY <1>3 DEF Placed, WellMade
  <2> QED
    BY <1>1, <2>1, PromotedFields
<1>4. \A k \in DOMAIN new : WellMade(new[k], Sightings(fs))
  BY <1>2, <1>3 DEF Placed, WellMade
<1>5. \A k \in DOMAIN new : \A f : Carries(k.name, ds[k], f) => Carries(k.name, new[k], f)
  BY <1>2, <1>3 DEF Carries
<1>6. \A f \in Range(fs) : HomeOf(to, f) \in DOMAIN new /\ Carries(HomeOf(to, f).name, new[HomeOf(to, f)], f)
  BY <1>2, <1>5 DEF Placed
<1> QED
  BY <1>1, <1>4, <1>6 DEF Placed

(* Only models bind parameters, and only those of a call that was found. *)
BoundOnes(k, d, O) ==
  \A b \in d.generationParams : /\ k.class = "hosted-model"
                                /\ \E o \in O : \E p \in o.params : p.name = b.name
ParamInv == stage \in {"finish", "done"} => \A k \in DOMAIN drafts : BoundOnes(k, drafts[k], Sightings(absorbed))

(* promoteParams binds what a call of the findings carries, to the one model named. *)
LEMMA Bound ==
  ASSUME NEW fs, NEW ds, \A k \in DOMAIN ds : WellMade(ds[k], Sightings(fs)), NEW k \in DOMAIN ds
  PROVE  BoundOnes(k, promoteParams(ds)[k], Sightings(fs))
<1>1. PICK all : all = UNION {o.params \X {o} : o \in UNION {Range(ds[j].occs) : j \in DOMAIN ds}}
  OBVIOUS
<1>2. PICK ones : ones = {b \in all : b[2].model # "" /\ lookupByName(ds, "hosted-llm", b[2].model) = {k}}
  OBVIOUS
<1>3. PICK bound : bound = {[name |-> b[1].name, value |-> b[1].value,
                             path |-> b[2].path, line |-> b[2].line, column |-> b[2].column] : b \in ones}
  OBVIOUS
<1>4. promoteParams(ds)[k].generationParams = bound
  <2>1. DOMAIN ds[k] = DraftFields /\ "generationParams" \in DraftFields
    BY DEF WellMade, DraftFields
  <2> QED
    BY <1>1, <1>2, <1>3, <2>1 DEF promoteParams
<1>5. ASSUME NEW x \in bound PROVE k.class = "hosted-model" /\ \E o \in Sightings(fs) : \E p \in o.params : p.name = x.name
  <2>1. PICK b \in ones : x = [name |-> b[1].name, value |-> b[1].value,
                               path |-> b[2].path, line |-> b[2].line, column |-> b[2].column]
    BY <1>3, <1>5
  <2>2. b \in all /\ lookupByName(ds, "hosted-llm", b[2].model) = {k} /\ x.name = b[1].name
    BY <1>2, <2>1
  <2>3. k.class = "hosted-model"
    BY <2>2 DEF lookupByName, Named, classOf
  <2>4. PICK o \in UNION {Range(ds[j].occs) : j \in DOMAIN ds} : b \in o.params \X {o}
    BY <1>1, <2>2
  <2>5. o \in Sightings(fs)
    BY <2>4 DEF WellMade
  <2>6. b[1] \in o.params
    BY <2>4
  <2> QED
    BY <2>2, <2>3, <2>5, <2>6
<1> QED
  BY <1>4, <1>5 DEF BoundOnes

-----------------------------------------------------------------------------
(* Before the first finding there is nothing to lose. *)
LEMMA InitDrafts == Init => DraftInv /\ ParamInv
<1> SUFFICES ASSUME Init PROVE DraftInv /\ ParamInv
  OBVIOUS
<1>1. absorbed = <<>> /\ drafts = <<>> /\ redirects = <<>> /\ stage = "absorb"
  BY DEF Init
<1>2. Range(absorbed) = {} /\ DOMAIN drafts = {}
  BY <1>1 DEF Range
<1> QED
  BY <1>1, <1>2 DEF DraftInv, Placed, ParamInv

(* Absorb files the finding and loses none of the others. *)
LEMMA AbsorbDrafts == ASSUME NamesInv, DraftInv, NEW f \in pending, Absorb(f) PROVE DraftInv' /\ ParamInv'
<1>1. /\ stage = "absorb" /\ stage' = "absorb" /\ absorbed' = Append(absorbed, f) /\ drafts' = absorb(drafts, f)
      /\ redirects' = redirects /\ redirects = <<>>
  BY DEF Absorb, DraftInv
<1>2. f.occurrence.confidence \in 0 .. 1000
  BY CertainOccurrence DEF NamesInv, ArrivalInv
<1>3. IsSeq(absorbed)
  BY SeqIs DEF NamesInv, ArrivalInv
<1>4. Placed(absorbed, <<>>, drafts)
  BY <1>1 DEF DraftInv
<1>5. Placed(Append(absorbed, f), <<>>, absorb(drafts, f))
  BY <1>2, <1>3, <1>4, AbsorbPlaces
<1>6. Placed(absorbed', redirects', drafts')
  BY <1>1, <1>5
<1> QED
  BY <1>1, <1>6 DEF DraftInv, ParamInv

(* Fold moves whole drafts, and every finding with its own. *)
LEMMA FoldDrafts == ASSUME NamesInv, DraftInv, Fold PROVE DraftInv' /\ ParamInv'
<1>1. /\ stage = "absorb" /\ stage' = "relate" /\ absorbed' = absorbed /\ redirects' = redirected(drafts)
      /\ drafts' = mintRoot(foldInto(drafts, redirects'))
  BY DEF Fold
<1>2. IsFiniteSet(DOMAIN drafts)
  BY <1>1 DEF NamesInv, KeyInv
<1>3. Moves(DOMAIN drafts, redirects')
  BY <1>1, <1>2, Redirects
<1>4. Placed(absorbed, <<>>, drafts)
  BY <1>1 DEF DraftInv
<1>5. Placed(absorbed, redirects', foldInto(drafts, redirects'))
  BY <1>2, <1>3, <1>4, FoldPlaces
<1>6. Placed(absorbed, redirects', drafts')
  BY <1>1, <1>5, RootPlaces
<1> QED
  BY <1>1, <1>6 DEF DraftInv, ParamInv

(* Relate binds parameters and loses nothing. *)
LEMMA RelateDrafts == ASSUME DraftInv, Relate PROVE DraftInv' /\ ParamInv'
<1>1. /\ stage' = "finish" /\ absorbed' = absorbed /\ redirects' = redirects /\ drafts' = promoteParams(drafts)
  BY DEF Relate
<1>2. Placed(absorbed, redirects, drafts)
  BY DEF DraftInv
<1>3. Placed(absorbed', redirects', drafts')
  BY <1>1, <1>2, PromotePlaces
<1>4. DOMAIN drafts' = DOMAIN drafts
  BY <1>1 DEF promoteParams
<1>5. \A k \in DOMAIN drafts : BoundOnes(k, drafts'[k], Sightings(absorbed))
  BY <1>1, <1>2, Bound DEF Placed
<1> QED
  BY <1>1, <1>3, <1>4, <1>5 DEF DraftInv, ParamInv

(* No step of the assembly or of the pipeline after it loses a claim. *)
LEMMA DraftStep == NamesInv /\ DraftInv /\ ParamInv /\ [INext]_<<vars, ovars>> => DraftInv' /\ ParamInv'
<1> SUFFICES ASSUME NamesInv, DraftInv, ParamInv, [Next]_vars PROVE DraftInv' /\ ParamInv'
  BY AssemblyOrSame
<1>1. ASSUME Finish PROVE DraftInv' /\ ParamInv'
  <2>1. /\ stage = "finish" /\ stage' = "done" /\ absorbed' = absorbed /\ redirects' = redirects /\ drafts' = drafts
    BY <1>1 DEF Finish
  <2> QED
    BY <2>1 DEF DraftInv, ParamInv
<1>2. ASSUME Done \/ UNCHANGED vars PROVE DraftInv' /\ ParamInv'
  <2>1. /\ stage' = stage /\ absorbed' = absorbed /\ redirects' = redirects /\ drafts' = drafts
    BY <1>2 DEF Done, vars
  <2> QED
    BY <2>1 DEF DraftInv, ParamInv
<1> QED
  BY <1>1, <1>2, AbsorbDrafts, FoldDrafts, RelateDrafts DEF Next

(* What the assembler hands over was built from its drafts. *)
BuiltInv == stage = "done" => inv = inventory(drafts, edges)

(* The inventory is built once, by Finish, from the drafts as they stay. *)
LEMMA BuiltStep == BuiltInv /\ [INext]_<<vars, ovars>> => BuiltInv'
<1> SUFFICES ASSUME BuiltInv, [Next]_vars PROVE BuiltInv'
  BY AssemblyOrSame
<1>1. ASSUME NEW f \in pending, Absorb(f) PROVE BuiltInv'
  BY <1>1 DEF Absorb, BuiltInv
<1>2. ASSUME Fold \/ Relate PROVE BuiltInv'
  BY <1>2 DEF Fold, Relate, BuiltInv
<1>3. ASSUME Finish PROVE BuiltInv'
  <2>1. inv' = inventory(drafts, edges) /\ drafts' = drafts /\ edges' = edges
    BY <1>3 DEF Finish
  <2> QED
    BY <2>1 DEF BuiltInv
<1>4. ASSUME Done \/ UNCHANGED vars PROVE BuiltInv'
  <2>1. stage' = stage /\ inv' = inv /\ drafts' = drafts /\ edges' = edges
    BY <1>4 DEF Done, vars
  <2> QED
    BY <2>1 DEF BuiltInv
<1> QED
  BY <1>1, <1>2, <1>3, <1>4 DEF Next

(* A component carries the facts of its draft. *)
LEMMA FinishedFields ==
  ASSUME NEW k, NEW d
  PROVE  LET c == finish(k, d) IN
         /\ c.id = k /\ c.name = k.name /\ c.kind = d.kind /\ c.occs = dedupOccs(d.occs)
         /\ c.generationParams = d.generationParams
         /\ \A l \in dedupeClaims("version", d.versionClaims) : l \in c.identity
         /\ \A l \in dedupeClaims("versionConstraint", d.constraintClaims) : l \in c.identity
         /\ \A l \in dedupeClaims("name", d.nameClaims) : l \in c.identity
  BY DEF finish

(* Each of its sightings is a parameter some model binds. *)
Covered(ds, c) ==
  /\ c.kind = "ai-config" /\ c.occs # <<>>
  /\ \A o \in Range(c.occs) : \E j \in DOMAIN ds : \E b \in ds[j].generationParams :
       b.name = c.name /\ b.path = o.path

(* Every draft becomes a component, but for a parameter some model binds. *)
LEMMA HandedOver ==
  ASSUME NEW ds, NEW es, NEW k \in DOMAIN ds
  PROVE  finish(k, ds[k]) \in inventory(ds, es).components \/ Covered(ds, finish(k, ds[k]))
<1>1. PICK comps : comps = {finish(j, ds[j]) : j \in DOMAIN ds}
  OBVIOUS
<1>2. inventory(ds, es).components = dropBoundAIConfig(comps)
  BY <1>1 DEF inventory
<1>3. PICK c : c = finish(k, ds[k]) /\ c \in comps
  BY <1>1
<1>4. SUFFICES ASSUME c \notin dropBoundAIConfig(comps) PROVE Covered(ds, c)
  BY <1>2, <1>3
<1>5. PICK bound : bound = UNION {x.generationParams : x \in comps}
  OBVIOUS
<1>6. c.kind = "ai-config" /\ c.occs # <<>> /\ \A o \in Range(c.occs) : \E b \in bound : b.name = c.name /\ b.path = o.path
  BY <1>3, <1>4, <1>5 DEF dropBoundAIConfig
<1>7. \A b \in bound : \E j \in DOMAIN ds : b \in ds[j].generationParams
  <2> TAKE b \in bound
  <2>1. PICK j \in DOMAIN ds : b \in finish(j, ds[j]).generationParams
    BY <1>1, <1>5
  <2> QED
    BY <2>1, FinishedFields
<1> QED
  BY <1>6, <1>7 DEF Covered

(* The components of a finding are the one finished from its draft. *)
LEMMA OneHome ==
  ASSUME inv = inventory(drafts, edges), NEW f
  PROVE  /\ \A c \in Home(f) : c = finish(HomeOf(redirects, f), drafts[HomeOf(redirects, f)])
         /\ LET c == finish(HomeOf(redirects, f), drafts[HomeOf(redirects, f)]) IN
            c \in inv.components => Home(f) = {c}
<1>1. PICK k : k = HomeOf(redirects, f)
  OBVIOUS
<1>2. Home(f) = {c \in inv.components : c.id = k}
  BY <1>1 DEF Home, HomeOf
<1>3. PICK c : c = finish(k, drafts[k]) /\ c.id = k
  BY FinishedFields
<1>4. ASSUME NEW x \in Home(f) PROVE x = c
  <2>1. x \in inventory(drafts, edges).components /\ x.id = k
    BY <1>2
  <2>2. PICK j \in DOMAIN drafts : x = finish(j, drafts[j])
    BY <2>1, Finished
  <2>3. j = k
    BY <2>1, <2>2, FinishedFields
  <2> QED
    BY <1>3, <2>2, <2>3
<1> QED
  BY <1>1, <1>2, <1>3, <1>4

(* The configuration class is of one kind, and no model is of it. *)
LEMMA ConfigKind ==
  ASSUME NEW kind \in ComponentKinds
  PROVE  /\ classOf(kind) = "ai-config" <=> kind = "ai-config"
         /\ classOf("ai-config") = "ai-config"
         /\ classOf(kind) = "hosted-model" => kind # "ai-config"
  BY DEF classOf, ComponentKinds

(* So what the drafts hold is in the inventory, unless a model binds it. *)
LEMMA KeptNow == ASSUME NamesInv, KindInv, DraftInv, ParamInv, BuiltInv PROVE ClaimsKept
<1> SUFFICES ASSUME stage = "done", NEW f \in Range(absorbed)
             PROVE \/ f.claim.kind = "ai-config" /\ BoundElsewhere(f)
                   \/ \E c \in Home(f) :
                        /\ Home(f) = {c} /\ HoldsSighting(c, f.occurrence)
                        /\ \A v \in ({f.claim.version, extraVersion(f.claim)} \ {""}) :
                             \E l \in c.identity : l.field = "version" /\ l.value = v
                        /\ f.claim.range # "" =>
                             \E l \in c.identity : l.field = "versionConstraint" /\ l.value = f.claim.range
                        /\ f.claim.name # c.name =>
                             \E l \in c.identity : l.field = "name" /\ l.value = f.claim.name
  BY DEF ClaimsKept
<1>1. inv = inventory(drafts, edges)
  BY DEF BuiltInv
<1>2. PICK x : x = normalizeKey(f.claim)
  OBVIOUS
<1>3. PICK k : k = HomeOf(redirects, f)
  OBVIOUS
<1>4. PICK d, c : d = drafts[k] /\ c = finish(k, d)
  OBVIOUS
<1>5. Moves(Keys(absorbed), redirects) /\ x \in Keys(absorbed)
  BY <1>2 DEF NamesInv, KeyInv, Keys
<1>6. k.name = x.name /\ k.class = x.class
  BY <1>2, <1>3, <1>5, MoveKeepsName DEF HomeOf
<1>7. k \in DOMAIN drafts /\ Carries(k.name, d, f) /\ WellMade(d, Sightings(absorbed))
  BY <1>3, <1>4 DEF DraftInv, Placed
<1>8. /\ c.id = k /\ c.name = k.name /\ c.kind = d.kind /\ c.occs = dedupOccs(d.occs)
      /\ c.generationParams = d.generationParams
      /\ \A l \in dedupeClaims("version", d.versionClaims) : l \in c.identity
      /\ \A l \in dedupeClaims("versionConstraint", d.constraintClaims) : l \in c.identity
      /\ \A l \in dedupeClaims("name", d.nameClaims) : l \in c.identity
  BY <1>4, FinishedFields
<1>9. HoldsSighting(c, f.occurrence)
  <2>1. IsSeq(d.occs) /\ f.occurrence \in Range(d.occs)
    BY <1>7 DEF WellMade, Carries
  <2>2. \E y \in Range(dedupOccs(d.occs)) : SameSighting(y, f.occurrence)
    BY <2>1, SightingsStay
  <2> QED
    BY <1>8, <2>2 DEF HoldsSighting
<1>10. \A v \in ({f.claim.version, extraVersion(f.claim)} \ {""}) :
         \E l \in c.identity : l.field = "version" /\ l.value = v
  <2>1. PICK s : s = d.versionClaims /\ Certain(s)
    BY <1>7 DEF WellMade
  <2>2. \A v : Says(s, v) => \E l \in dedupeClaims("version", s) : l.field = "version" /\ l.value = v
    BY <2>1, SurestStays
  <2>3. \A v \in ({f.claim.version, extraVersion(f.claim)} \ {""}) : Says(s, v)
    BY <1>7, <2>1 DEF Carries
  <2> QED
    BY <1>8, <2>1, <2>2, <2>3
<1>11. ASSUME f.claim.range # ""
       PROVE  \E l \in c.identity : l.field = "versionConstraint" /\ l.value = f.claim.range
  <2>1. Certain(d.constraintClaims) /\ Says(d.constraintClaims, f.claim.range)
    BY <1>7, <1>11 DEF WellMade, Carries
  <2>2. \E l \in dedupeClaims("versionConstraint", d.constraintClaims) :
          l.field = "versionConstraint" /\ l.value = f.claim.range
    BY <2>1, SurestStays
  <2> QED
    BY <1>8, <2>2
<1>12. ASSUME f.claim.name # c.name
       PROVE  \E l \in c.identity : l.field = "name" /\ l.value = f.claim.name
  <2>1. Certain(d.nameClaims) /\ Says(d.nameClaims, f.claim.name)
    BY <1>7, <1>8, <1>12 DEF WellMade, Carries
  <2>2. \E l \in dedupeClaims("name", d.nameClaims) : l.field = "name" /\ l.value = f.claim.name
    BY <2>1, SurestStays
  <2> QED
    BY <1>8, <2>2
<1>13. CASE c \in inv.components
  <2>1. Home(f) = {c}
    BY <1>1, <1>3, <1>4, <1>13, OneHome
  <2> QED
    BY <1>9, <1>10, <1>11, <1>12, <2>1
<1>14. CASE c \notin inv.components
  <2>1. Covered(drafts, c)
    BY <1>1, <1>4, <1>7, <1>14, HandedOver
  <2>2. f.claim.kind \in ComponentKinds
    BY KindOfFinding, SeqIs DEF NamesInv, ArrivalInv
  <2>3. f.claim.kind = "ai-config"
    <3>1. c.kind = "ai-config" /\ d.kind = "ai-config" /\ Fitting(k, d)
      BY <1>4, <1>7, <1>8, <2>1 DEF Covered, KindInv
    <3>2. classOf(d.kind) = k.class /\ classOf(f.claim.kind) = x.class
      BY <1>2, <3>1 DEF Fitting, normalizeKey
    <3> QED
      BY <1>6, <2>2, <3>1, <3>2, ConfigKind
  <2>4. PICK o \in Range(c.occs) : SameSighting(o, f.occurrence)
    BY <1>9 DEF HoldsSighting
  <2>a. PICK j \in DOMAIN drafts : \E b \in drafts[j].generationParams : b.name = c.name /\ b.path = o.path
    BY <2>1, <2>4 DEF Covered
  <2>5. PICK b \in drafts[j].generationParams : b.name = c.name /\ b.path = o.path
    BY <2>a
  <2>6. PICK m : m = finish(j, drafts[j]) /\ m.generationParams = drafts[j].generationParams /\ m.kind = drafts[j].kind
    BY FinishedFields
  <2>7. m \in inv.components
    <3>1. BoundOnes(j, drafts[j], Sightings(absorbed))
      BY <2>5 DEF ParamInv
    <3>2. j.class = "hosted-model"
      BY <2>5, <3>1 DEF BoundOnes
    <3>3. drafts[j].kind \in ComponentKinds /\ classOf(drafts[j].kind) = "hosted-model"
      BY <2>5, <3>2 DEF KindInv, Fitting
    <3>4. m.kind # "ai-config"
      BY <2>6, <3>3, ConfigKind
    <3> QED
      BY <1>1, <2>5, <2>6, <3>4, HandedOver DEF Covered
  <2>8. b.name = Lookup(Canon, f.claim.name)
    BY <1>2, <1>6, <1>8, <2>5 DEF normalizeKey
  <2>9. b.path = f.occurrence.path
    BY <2>4, <2>5 DEF SameSighting
  <2>10. BoundElsewhere(f)
    BY <2>5, <2>6, <2>7, <2>8, <2>9 DEF BoundElsewhere
  <2> QED
    BY <2>3, <2>10
<1> QED
  BY <1>13, <1>14

-----------------------------------------------------------------------------
(* Relations *)

(* Only the identities there are decide what a hint may mean. *)
NamedIn(D, class, name) == {k \in D : k.class = class /\ k.name = name}
MayMean(D, to, fs, f, hint) ==
  CASE hint.form = "local" ->
         {HomeOf(to, g) : g \in {h \in Range(fs) : /\ h.occurrence.path = f.occurrence.path
                                                   /\ h.occurrence.detector = hint.arg}}
    [] hint.form = "field" -> IF f.occurrence.model = "" THEN {}
                              ELSE NamedIn(D, classOf(hint.kind), Lookup(Canon, f.occurrence.model))
    [] OTHER               -> NamedIn(D, classOf(hint.kind), Lookup(Canon, hint.arg))

(* resolveHint looks at identities alone. *)
LEMMA HintsMean ==
  ASSUME NEW ds, NEW to, NEW fs, NEW f, NEW hint
  PROVE  resolveHint(ds, to, fs, f, hint) = MayMean(DOMAIN ds, to, fs, f, hint)
  BY DEF resolveHint, MayMean, NamedIn, lookupByName, Named, HomeOf

(* A hint means identities there are. *)
LEMMA Meant ==
  ASSUME NEW D, NEW to, NEW fs, NEW f, NEW hint, \A g \in Range(fs) : HomeOf(to, g) \in D
  PROVE  MayMean(D, to, fs, f, hint) \subseteq D
<1>1. CASE hint.form = "local"
  BY <1>1 DEF MayMean
<1>2. CASE hint.form = "field"
  BY <1>2 DEF MayMean, NamedIn
<1>3. CASE hint.form \notin {"local", "field"}
  BY <1>3 DEF MayMean, NamedIn
<1> QED
  BY <1>1, <1>2, <1>3

(* A claim is one of a finding that was absorbed. *)
LEMMA ClaimedIs ==
  ASSUME NEW fs
  PROVE  /\ \A q \in Claimed(fs) : q.finding \in Range(fs) /\ q.hint \in Range(q.finding.relations)
         /\ \A f \in Range(fs) : \A r \in Range(f.relations) : \E q \in Claimed(fs) : q.finding = f /\ q.hint = r
<1>1. ASSUME NEW q \in Claimed(fs) PROVE q.finding \in Range(fs) /\ q.hint \in Range(q.finding.relations)
  <2>1. PICK i \in DOMAIN fs :
          q \in {[at |-> <<i, j>>, finding |-> fs[i], hint |-> fs[i].relations[j]] : j \in DOMAIN fs[i].relations}
    BY DEF Claimed
  <2>2. PICK j \in DOMAIN fs[i].relations : q = [at |-> <<i, j>>, finding |-> fs[i], hint |-> fs[i].relations[j]]
    BY <2>1
  <2> QED
    BY <2>2 DEF Range
<1>2. ASSUME NEW f \in Range(fs), NEW r \in Range(f.relations) PROVE \E q \in Claimed(fs) : q.finding = f /\ q.hint = r
  <2>1. PICK i \in DOMAIN fs : f = fs[i]
    BY DEF Range
  <2>2. PICK j \in DOMAIN f.relations : r = f.relations[j]
    BY DEF Range
  <2>3. PICK q : q = [at |-> <<i, j>>, finding |-> fs[i], hint |-> fs[i].relations[j]]
    OBVIOUS
  <2>4. q \in Claimed(fs)
    BY <2>1, <2>2, <2>3 DEF Claimed
  <2> QED
    BY <2>1, <2>2, <2>3, <2>4
<1> QED
  BY <1>1, <1>2

(* What an edge stands for: claims that can only mean it. *)
Backed(D, to, fs, e, q) ==
  /\ q \in Claimed(fs) /\ MayMean(D, to, fs, q.finding, q.hint) = {e[3]}
  /\ e[1] = HomeOf(to, q.finding) /\ e[2] = q.hint.type /\ e[1] # e[3]
Warning(q) == [why |-> "relation", of |-> q.finding.claim.name, at |-> q.finding.occurrence.path, type |-> q.hint.type]
Related(D, to, fs, es, ws) ==
  /\ \A e \in DOMAIN es : es[e] # {} /\ \A q \in es[e] : Backed(D, to, fs, e, q)
  /\ \A q \in Claimed(fs) :
       \/ Warning(q) \in ws
       \/ MayMean(D, to, fs, q.finding, q.hint) = {HomeOf(to, q.finding)}
       \/ \E e \in DOMAIN es : q \in es[e]

(* resolveRelations makes an edge of every claim that is settled, and warns of the others. *)
LEMMA Resolves ==
  ASSUME NEW ds, IsFiniteSet(DOMAIN ds), NEW to, NEW fs, \A g \in Range(fs) : HomeOf(to, g) \in DOMAIN ds
  PROVE  Related(DOMAIN ds, to, fs, resolveRelations(ds, to, fs), Unresolved(ds, to, fs))
<1>1. PICK D : D = DOMAIN ds
  OBVIOUS
<1>2. \A q : Candidate(ds, to, fs, q) = MayMean(D, to, fs, q.finding, q.hint)
  BY <1>1, HintsMean DEF Candidate
<1>3. \A q : IsFiniteSet(Candidate(ds, to, fs, q))
  <2> TAKE q
  <2>1. Candidate(ds, to, fs, q) \subseteq D
    BY <1>1, <1>2, Meant
  <2> QED
    BY <1>1, <2>1, FS_Subset
<1>4. PICK made : made = {q \in Resolved(ds, to, fs) : LET e == EdgeOf(ds, to, fs, q) IN e[1] # e[3]}
  OBVIOUS
<1>5. PICK es : es = resolveRelations(ds, to, fs)
  OBVIOUS
<1>6. /\ DOMAIN es = {EdgeOf(ds, to, fs, q) : q \in made}
      /\ \A e \in DOMAIN es : es[e] = {q \in made : EdgeOf(ds, to, fs, q) = e}
  BY <1>4, <1>5 DEF resolveRelations
<1>7. ASSUME NEW q \in Claimed(fs), Cardinality(Candidate(ds, to, fs, q)) = 1
      PROVE  LET e == EdgeOf(ds, to, fs, q) IN
             /\ MayMean(D, to, fs, q.finding, q.hint) = {e[3]}
             /\ e[1] = HomeOf(to, q.finding) /\ e[2] = q.hint.type
  <2>1. PICK C : C = Candidate(ds, to, fs, q)
    OBVIOUS
  <2>2. IsFiniteSet(C) /\ Cardinality(C) = 1
    BY <1>3, <1>7, <2>1
  <2>3. PICK t : C = {t}
    BY <2>2, Single
  <2>4. (CHOOSE k \in C : TRUE) = t
    BY <2>3
  <2>5. EdgeOf(ds, to, fs, q) = <<HomeOf(to, q.finding), q.hint.type, t>>
    BY <2>1, <2>4 DEF EdgeOf, HomeOf
  <2>6. MayMean(D, to, fs, q.finding, q.hint) = {t}
    BY <1>2, <2>1, <2>3
  <2> QED
    BY <2>5, <2>6
<1>8. \A q \in made : q \in Claimed(fs) /\ Cardinality(Candidate(ds, to, fs, q)) = 1
  BY <1>4 DEF Resolved
<1>9. ASSUME NEW e \in DOMAIN es PROVE es[e] # {} /\ \A q \in es[e] : Backed(D, to, fs, e, q)
  <2>1. es[e] # {}
    BY <1>6
  <2>2. ASSUME NEW q \in es[e] PROVE Backed(D, to, fs, e, q)
    <3>1. q \in made /\ e = EdgeOf(ds, to, fs, q)
      BY <1>6, <2>2
    <3>2. e[1] # e[3]
      BY <1>4, <3>1
    <3> QED
      BY <1>7, <1>8, <3>1, <3>2 DEF Backed
  <2> QED
    BY <2>1, <2>2
<1>10. ASSUME NEW q \in Claimed(fs)
       PROVE  \/ Warning(q) \in Unresolved(ds, to, fs)
              \/ MayMean(D, to, fs, q.finding, q.hint) = {HomeOf(to, q.finding)}
              \/ \E e \in DOMAIN es : q \in es[e]
  <2>1. CASE Cardinality(Candidate(ds, to, fs, q)) # 1
    BY <2>1 DEF Unresolved, Warning
  <2>2. CASE Cardinality(Candidate(ds, to, fs, q)) = 1
    <3>1. PICK e : e = EdgeOf(ds, to, fs, q)
      OBVIOUS
    <3>2. MayMean(D, to, fs, q.finding, q.hint) = {e[3]} /\ e[1] = HomeOf(to, q.finding)
      BY <1>7, <2>2, <3>1
    <3>3. CASE e[1] = e[3]
      BY <3>2, <3>3
    <3>4. CASE e[1] # e[3]
      <4>1. q \in made
        BY <1>4, <2>2, <3>1, <3>4 DEF Resolved
      <4>2. e \in DOMAIN es /\ q \in es[e]
        BY <1>6, <3>1, <4>1
      <4> QED
        BY <4>2
    <3> QED
      BY <3>3, <3>4
  <2> QED
    BY <2>1, <2>2
<1> QED
  BY <1>1, <1>5, <1>9, <1>10 DEF Related

(* The findings are those the assembly was given; its relations are resolved once. *)
GivenInv == \E fs \in Candidates : Range(absorbed) \subseteq fs /\ pending \subseteq fs
RelationInv == stage \in {"finish", "done"} => Related(DOMAIN drafts, redirects, absorbed, edges, warnings)

(* Before the first finding nothing is related. *)
LEMMA InitRelations == Init => GivenInv /\ RelationInv /\ BuiltInv
<1> SUFFICES ASSUME Init PROVE GivenInv /\ RelationInv /\ BuiltInv
  OBVIOUS
<1>1. absorbed = <<>> /\ stage = "absorb" /\ pending \in Candidates
  BY DEF Init
<1>2. Range(absorbed) = {}
  BY <1>1 DEF Range
<1> QED
  BY <1>1, <1>2 DEF GivenInv, RelationInv, BuiltInv

(* Every finding absorbed was among those given. *)
LEMMA GivenStep == NamesInv /\ GivenInv /\ [INext]_<<vars, ovars>> => GivenInv'
<1> SUFFICES ASSUME NamesInv, GivenInv, [Next]_vars PROVE GivenInv'
  BY AssemblyOrSame
<1>1. ASSUME NEW f \in pending, Absorb(f) PROVE GivenInv'
  <2>1. pending' = pending \ {f} /\ absorbed' = Append(absorbed, f)
    BY <1>1 DEF Absorb
  <2>2. IsSeq(absorbed)
    BY SeqIs DEF NamesInv, ArrivalInv
  <2>3. Range(absorbed') = Range(absorbed) \cup {f}
    BY <2>1, <2>2, Appended
  <2> QED
    BY <1>1, <2>1, <2>3 DEF GivenInv
<1>2. ASSUME Fold \/ Relate \/ Finish \/ Done \/ UNCHANGED vars PROVE GivenInv'
  <2>1. pending' = pending /\ absorbed' = absorbed
    BY <1>2 DEF Fold, Relate, Finish, Done, vars
  <2> QED
    BY <2>1 DEF GivenInv
<1> QED
  BY <1>1, <1>2 DEF Next

(* Relate settles every claim, and nothing later undoes it. *)
LEMMA RelationStep == NamesInv /\ DraftInv /\ RelationInv /\ [INext]_<<vars, ovars>> => RelationInv'
<1> SUFFICES ASSUME NamesInv, DraftInv, RelationInv, [Next]_vars PROVE RelationInv'
  BY AssemblyOrSame
<1>1. ASSUME NEW f \in pending, Absorb(f) PROVE RelationInv'
  BY <1>1 DEF Absorb, RelationInv
<1>2. ASSUME Fold PROVE RelationInv'
  BY <1>2 DEF Fold, RelationInv
<1>3. ASSUME Relate PROVE RelationInv'
  <2>1. /\ stage = "relate" /\ absorbed' = absorbed /\ redirects' = redirects /\ drafts' = promoteParams(drafts)
        /\ edges' = resolveRelations(drafts, redirects, absorbed)
        /\ warnings' = warnings \cup Unresolved(drafts, redirects, absorbed)
    BY <1>3 DEF Relate
  <2>2. IsFiniteSet(Keys(absorbed)) /\ DOMAIN drafts = (Keys(absorbed) \ DOMAIN redirects) \cup {RootKey}
    BY <2>1 DEF NamesInv, KeyInv
  <2>3. IsFiniteSet(DOMAIN drafts)
    <3>1. IsFiniteSet(Keys(absorbed) \ DOMAIN redirects)
      BY <2>2, FS_Subset
    <3> QED
      BY <2>2, <3>1, FS_AddElement
  <2>4. \A g \in Range(absorbed) : HomeOf(redirects, g) \in DOMAIN drafts
    BY DEF DraftInv, Placed
  <2>5. Related(DOMAIN drafts, redirects, absorbed, edges', Unresolved(drafts, redirects, absorbed))
    BY <2>1, <2>3, <2>4, Resolves
  <2>6. Related(DOMAIN drafts, redirects, absorbed, edges', warnings')
    BY <2>1, <2>5 DEF Related
  <2>7. DOMAIN drafts' = DOMAIN drafts
    BY <2>1 DEF promoteParams
  <2> QED
    BY <2>1, <2>6, <2>7 DEF RelationInv
<1>4. ASSUME Finish PROVE RelationInv'
  <2>1. /\ stage = "finish" /\ absorbed' = absorbed /\ redirects' = redirects /\ drafts' = drafts
        /\ edges' = edges /\ warnings' = warnings
    BY <1>4 DEF Finish
  <2> QED
    BY <2>1 DEF RelationInv
<1>5. ASSUME Done \/ UNCHANGED vars PROVE RelationInv'
  <2>1. /\ stage' = stage /\ absorbed' = absorbed /\ redirects' = redirects /\ drafts' = drafts
        /\ edges' = edges /\ warnings' = warnings
    BY <1>5 DEF Done, vars
  <2> QED
    BY <2>1 DEF RelationInv
<1> QED
  BY <1>1, <1>2, <1>3, <1>4, <1>5 DEF Next

-----------------------------------------------------------------------------
(* What may go: a configuration value of a name some call of fs gives a
   parameter (dropBoundAIConfig). *)
Bindable(fs, k) == k.class = "ai-config" /\ \E g \in fs : \E p \in g.occurrence.params : p.name = k.name
Called(f, r) == [class |-> classOf(r.kind),
                 name  |-> Lookup(Canon, IF r.form = "field" THEN f.occurrence.model ELSE r.arg)]

(* No relation is of such a value or about one. *)
Relatable(fs) == \A f \in fs : \A r \in Range(f.relations) :
  /\ ~Bindable(fs, normalizeKey(f.claim))
  /\ r.form = "local" => \A g \in fs : g.occurrence.path = f.occurrence.path /\ g.occurrence.detector = r.arg
                                         => ~Bindable(fs, normalizeKey(g.claim))
  /\ r.form # "local" => ~Bindable(fs, Called(f, r))

(* A sequence that is not empty has an element. *)
LEMMA SomeIn ==
  ASSUME NEW s, IsSeq(s), s # <<>>
  PROVE  \E o : o \in Range(s)
<1>1. Len(s) \in Nat /\ DOMAIN s = 1 .. Len(s)
  BY SeqIs DEF IsSeq
<1>2. Len(s) # 0
  BY EmptySeq DEF IsSeq
<1>3. 1 \in DOMAIN s
  BY <1>1, <1>2
<1> QED
  BY <1>3 DEF Range

(* Every other draft became a component. *)
LEMMA Present ==
  ASSUME KindInv, DraftInv, ParamInv, BuiltInv, stage = "done",
         NEW k \in DOMAIN drafts, ~Bindable(Range(absorbed), k)
  PROVE  finish(k, drafts[k]) \in inv.components
<1>1. PICK c : c = finish(k, drafts[k])
  OBVIOUS
<1>2. c.name = k.name /\ c.kind = drafts[k].kind /\ c.occs = dedupOccs(drafts[k].occs)
  BY <1>1, FinishedFields
<1>3. inv = inventory(drafts, edges)
  BY DEF BuiltInv
<1>4. SUFFICES ASSUME Covered(drafts, c) PROVE FALSE
  BY <1>1, <1>3, HandedOver
<1>5. k.class = "ai-config"
  <2>1. /\ drafts[k].kind = "ai-config" /\ drafts[k].kind \in ComponentKinds
        /\ classOf(drafts[k].kind) = k.class
    BY <1>2, <1>4 DEF Covered, KindInv, Fitting
  <2> QED
    BY <2>1, ConfigKind
<1>6. \E o : o \in Range(c.occs)
  <2>1. IsSeq(drafts[k].occs)
    BY DEF DraftInv, Placed, WellMade
  <2>2. IsSeq(c.occs)
    BY <1>2, <2>1, SightingsStay
  <2>3. c.occs # <<>>
    BY <1>4 DEF Covered
  <2> QED
    BY <2>2, <2>3, SomeIn
<1>7. PICK o : o \in Range(c.occs)
  BY <1>6
<1>8. PICK j \in DOMAIN drafts : \E b \in drafts[j].generationParams : b.name = c.name
  BY <1>4, <1>7 DEF Covered
<1>9. PICK b \in drafts[j].generationParams : b.name = k.name
  BY <1>2, <1>8
<1>10. PICK s \in Sightings(absorbed) : \E p \in s.params : p.name = b.name
  BY <1>9 DEF ParamInv, BoundOnes
<1>11. Bindable(Range(absorbed), k)
  BY <1>5, <1>9, <1>10 DEF Bindable, Sightings
<1> QED
  BY <1>11

(* What the more may not take away, the fewer may not either. *)
LEMMA NotBindable ==
  ASSUME NEW fs, NEW gs, gs \subseteq fs, NEW j, NEW k, ~Bindable(fs, j), k.class = j.class, k.name = j.name
  PROVE  ~Bindable(gs, k)
  BY DEF Bindable

(* A finding with relations and what they mean stay components. *)
LEMMA Lasts ==
  ASSUME NamesInv, KindInv, DraftInv, ParamInv, BuiltInv, stage = "done",
         NEW fs, Relatable(fs), Range(absorbed) \subseteq fs,
         NEW f \in Range(absorbed), NEW r \in Range(f.relations)
  PROVE  /\ \E c \in inv.components : c.id = HomeOf(redirects, f)
         /\ {c.id : c \in Home(f)} = {HomeOf(redirects, f)}
         /\ \A t : MayMean(DOMAIN drafts, redirects, absorbed, f, r) = {t} =>
              \E c \in inv.components : c.id = t
<1>1. inv = inventory(drafts, edges)
  BY DEF BuiltInv
<1>2. Moves(Keys(absorbed), redirects) /\ \A g \in Range(absorbed) : normalizeKey(g.claim) \in Keys(absorbed)
  BY DEF NamesInv, KeyInv, Keys
<1>3. \A g \in Range(absorbed) : /\ HomeOf(redirects, g) \in DOMAIN drafts
                                 /\ HomeOf(redirects, g).class = normalizeKey(g.claim).class
                                 /\ HomeOf(redirects, g).name = normalizeKey(g.claim).name
  BY <1>2, MoveKeepsName DEF HomeOf, DraftInv, Placed
<1>4. \A k \in DOMAIN drafts : ~Bindable(Range(absorbed), k) =>
        finish(k, drafts[k]) \in inv.components /\ finish(k, drafts[k]).id = k
  BY Present, FinishedFields
<1>5. PICK h : h = HomeOf(redirects, f)
  OBVIOUS
<1>6. h \in DOMAIN drafts /\ ~Bindable(Range(absorbed), h)
  BY <1>3, <1>5, NotBindable DEF Relatable
<1>7. finish(h, drafts[h]) \in inv.components /\ finish(h, drafts[h]).id = h
  BY <1>4, <1>6
<1>8. Home(f) = {finish(h, drafts[h])}
  BY <1>1, <1>5, <1>7, OneHome
<1>9. ASSUME NEW t, MayMean(DOMAIN drafts, redirects, absorbed, f, r) = {t}
      PROVE  \E c \in inv.components : c.id = t
  <2>1. t \in DOMAIN drafts
    BY <1>3, <1>9, Meant
  <2>2. ~Bindable(Range(absorbed), t)
    <3>1. CASE r.form = "local"
      <4>1. PICK g \in Range(absorbed) : /\ t = HomeOf(redirects, g)
                                         /\ g.occurrence.path = f.occurrence.path /\ g.occurrence.detector = r.arg
        BY <1>9, <3>1 DEF MayMean
      <4>2. ~Bindable(fs, normalizeKey(g.claim))
        BY <3>1, <4>1 DEF Relatable
      <4> QED
        BY <1>3, <4>1, <4>2, NotBindable
    <3>2. CASE r.form # "local"
      <4>1. ~Bindable(fs, Called(f, r))
        BY <3>2 DEF Relatable
      <4>2. t.class = Called(f, r).class /\ t.name = Called(f, r).name
        BY <1>9, <3>2 DEF MayMean, NamedIn, Called
      <4> QED
        BY <4>1, <4>2, NotBindable
    <3> QED
      BY <3>1, <3>2
  <2> QED
    BY <1>4, <2>1, <2>2
<1> QED
  BY <1>5, <1>7, <1>8, <1>9

(* So every relation of the findings is accounted for. *)
LEMMA RelationsNow ==
  ASSUME NamesInv, KindInv, DraftInv, ParamInv, BuiltInv, GivenInv, RelationInv,
         \A fs \in Candidates : Relatable(fs)
  PROVE  RelationsAccounted
<1> SUFFICES ASSUME stage = "done" PROVE RelationsAccounted
  BY DEF RelationsAccounted
<1>1. PICK ids : ids = {c.id : c \in inv.components}
  OBVIOUS
<1>2. PICK D : D = DOMAIN drafts
  OBVIOUS
<1> DEFINE meant(f, r)  == resolveHint(drafts, redirects, absorbed, f, r)
           called(f, r) == {c.id : c \in {x \in inv.components :
                             /\ x.id.class = classOf(r.kind)
                             /\ x.name = Lookup(Canon, IF r.form = "field" THEN f.occurrence.model ELSE r.arg)}}
           from(f)      == {c.id : c \in Home(f)}
           mean(f, r)   == MayMean(D, redirects, absorbed, f, r)
           home(f)      == HomeOf(redirects, f)
<1>3. inv.relationships = {[from |-> e[1], type |-> e[2], to |-> e[3], confidence |-> edgeConfidence(edges[e]),
                            sightings |-> {q.finding.occurrence : q \in edges[e]}] : e \in DOMAIN edges}
  BY DEF BuiltInv, inventory
<1>4. PICK fs \in Candidates : Range(absorbed) \subseteq fs /\ Relatable(fs)
  BY DEF GivenInv
<1>5. \A f \in Range(absorbed) : \A r \in Range(f.relations) :
        /\ home(f) \in ids /\ from(f) = {home(f)} /\ meant(f, r) = mean(f, r)
        /\ \A t : mean(f, r) = {t} => t \in ids
  <2> TAKE f \in Range(absorbed)
  <2> TAKE r \in Range(f.relations)
  <2>1. meant(f, r) = mean(f, r)
    BY <1>2, HintsMean
  <2>2. /\ \E c \in inv.components : c.id = home(f)
        /\ from(f) = {home(f)}
        /\ \A t : mean(f, r) = {t} => \E c \in inv.components : c.id = t
    BY <1>2, <1>4, Lasts
  <2> HIDE DEF meant, mean, home, from
  <2> QED
    BY <1>1, <2>1, <2>2
<1>6. Related(D, redirects, absorbed, edges, warnings)
  BY <1>2 DEF RelationInv
<1>7. \A q \in Claimed(absorbed) : q.finding \in Range(absorbed) /\ q.hint \in Range(q.finding.relations)
  BY ClaimedIs
<1>8. \A f \in Range(absorbed) : \A r \in Range(f.relations) : \E q \in Claimed(absorbed) : q.finding = f /\ q.hint = r
  BY ClaimedIs
<1>9. ASSUME NEW e \in DOMAIN edges, NEW q \in edges[e]
      PROVE  /\ q.finding \in Range(absorbed) /\ q.hint \in Range(q.finding.relations)
             /\ mean(q.finding, q.hint) = {e[3]} /\ e[2] = q.hint.type /\ e[1] # e[3]
             /\ from(q.finding) = {e[1]} /\ e[1] \in ids /\ e[3] \in ids
  <2>1. Backed(D, redirects, absorbed, e, q)
    BY <1>6 DEF Related
  <2>2. q.finding \in Range(absorbed) /\ q.hint \in Range(q.finding.relations)
    BY <1>7, <2>1 DEF Backed
  <2>3. mean(q.finding, q.hint) = {e[3]} /\ e[1] = home(q.finding) /\ e[2] = q.hint.type /\ e[1] # e[3]
    BY <2>1 DEF Backed
  <2> HIDE DEF mean, home, from, meant
  <2> QED
    BY <1>5, <2>2, <2>3
<1>10. ASSUME NEW x \in inv.relationships
       PROVE  \E e \in DOMAIN edges : /\ x.from = e[1] /\ x.type = e[2] /\ x.to = e[3]
                                      /\ x.sightings = {q.finding.occurrence : q \in edges[e]}
  BY <1>3
<1>11. ASSUME NEW x \in inv.relationships PROVE x.from \in ids /\ x.to \in ids /\ x.from # x.to
  <2>1. PICK e \in DOMAIN edges : x.from = e[1] /\ x.to = e[3]
    BY <1>10
  <2>2. edges[e] # {}
    BY <1>6 DEF Related
  <2>3. PICK q : q \in edges[e]
    BY <2>2
  <2> QED
    BY <1>9, <2>1, <2>3
<1>12. ASSUME NEW f \in Range(absorbed), NEW r \in Range(f.relations)
       PROVE  \/ meant(f, r) = from(f)
              \/ \E x \in inv.relationships : /\ x.type = r.type /\ {x.from} = from(f) /\ {x.to} = meant(f, r)
                                              /\ f.occurrence \in x.sightings
              \/ [why |-> "relation", of |-> f.claim.name, at |-> f.occurrence.path, type |-> r.type] \in warnings
  <2>1. PICK q \in Claimed(absorbed) : q.finding = f /\ q.hint = r
    BY <1>8
  <2>2. from(f) = {home(f)} /\ meant(f, r) = mean(f, r)
    BY <1>5
  <2>3. CASE Warning(q) \in warnings
    BY <2>1, <2>3 DEF Warning
  <2>4. CASE mean(f, r) = {home(f)}
    BY <2>2, <2>4
  <2>5. ASSUME NEW e \in DOMAIN edges, q \in edges[e]
        PROVE  \E x \in inv.relationships : /\ x.type = r.type /\ {x.from} = from(f) /\ {x.to} = meant(f, r)
                                            /\ f.occurrence \in x.sightings
    <3>1. mean(f, r) = {e[3]} /\ e[2] = r.type /\ from(f) = {e[1]}
      BY <1>9, <2>1, <2>5
    <3>2. PICK x \in inv.relationships : /\ x.from = e[1] /\ x.type = e[2] /\ x.to = e[3]
                                         /\ x.sightings = {p.finding.occurrence : p \in edges[e]}
      <4>1. PICK x : x = [from |-> e[1], type |-> e[2], to |-> e[3], confidence |-> edgeConfidence(edges[e]),
                          sightings |-> {p.finding.occurrence : p \in edges[e]}]
        OBVIOUS
      <4>2. x \in inv.relationships
        BY <1>3, <4>1
      <4> QED
        BY <4>1, <4>2
    <3>3. f.occurrence \in x.sightings
      BY <2>1, <2>5, <3>2
    <3> HIDE DEF mean, home, from, meant
    <3> QED
      BY <2>2, <3>1, <3>2, <3>3
  <2>6. \/ Warning(q) \in warnings
        \/ mean(f, r) = {home(f)}
        \/ \E e \in DOMAIN edges : q \in edges[e]
    BY <1>6, <2>1 DEF Related
  <2> HIDE DEF mean, home, from, meant
  <2> QED
    BY <2>3, <2>4, <2>5, <2>6
<1>13. ASSUME NEW x \in inv.relationships, NEW o \in x.sightings
       PROVE  \E f \in Range(absorbed) : \E r \in Range(f.relations) :
                /\ f.occurrence = o /\ r.type = x.type /\ from(f) = {x.from}
                /\ r.form # "local" => called(f, r) = {x.to}
  <2>1. PICK e \in DOMAIN edges : /\ x.from = e[1] /\ x.type = e[2] /\ x.to = e[3]
                                  /\ x.sightings = {q.finding.occurrence : q \in edges[e]}
    BY <1>10
  <2>2. PICK q \in edges[e] : o = q.finding.occurrence
    BY <1>13, <2>1
  <2>3. PICK f, r : f = q.finding /\ r = q.hint
    OBVIOUS
  <2>4. /\ f \in Range(absorbed) /\ r \in Range(f.relations)
        /\ mean(f, r) = {x.to} /\ r.type = x.type /\ from(f) = {x.from} /\ x.to \in ids
    BY <1>9, <2>1, <2>3
  <2>5. ASSUME r.form # "local" PROVE called(f, r) = {x.to}
    <3>1. PICK want : want = Lookup(Canon, IF r.form = "field" THEN f.occurrence.model ELSE r.arg)
      OBVIOUS
    <3>2. {x.to} = NamedIn(D, classOf(r.kind), want)
      BY <2>4, <2>5, <3>1 DEF MayMean
    <3>3. \A c \in inv.components : c.id \in D /\ c.name = c.id.name
      BY <1>2 DEF NamesInv, InvInv
    <3>4. called(f, r) = {c.id : c \in {y \in inv.components : y.id.class = classOf(r.kind) /\ y.name = want}}
      BY <3>1
    <3>5. PICK C : C = called(f, r)
      OBVIOUS
    <3>6. \A t \in C : t \in NamedIn(D, classOf(r.kind), want)
      BY <3>3, <3>4, <3>5 DEF NamedIn
    <3>7. PICK c \in inv.components : c.id = x.to
      BY <1>1, <2>4
    <3>8. c.id.class = classOf(r.kind) /\ c.id.name = want
      BY <3>2, <3>7 DEF NamedIn
    <3>9. x.to \in C
      BY <3>3, <3>4, <3>5, <3>7, <3>8
    <3> HIDE DEF called
    <3> QED
      BY <3>2, <3>5, <3>6, <3>9
  <2> HIDE DEF mean, home, from, meant, called
  <2> QED
    BY <2>2, <2>3, <2>4, <2>5
<1> QED
  BY <1>1, <1>11, <1>12, <1>13 DEF RelationsAccounted
-----------------------------------------------------------------------------
(* At every stage the drafts carry every version, range, other name and
   sighting of the findings absorbed so far, each in the draft its identity was
   moved to, and a hosted model binds only parameters that were found (absorb,
   mergeDraft, promoteParams). *)
THEOREM Drafts == ISpec => [](DraftInv /\ ParamInv)
<1>1. IInit => DraftInv /\ ParamInv
  BY InitDrafts DEF IInit
<1> QED
  BY <1>1, Names, DraftStep, PTL DEF ISpec

(* Keep and relate: the inventory of any candidates holds every finding as a
   sighting of exactly one component, with every version, range and other name
   it claimed, unless it is a parameter a model of the inventory binds. *)
THEOREM NothingClaimedLost == ISpec => []ClaimsKept
<1>1. IInit => BuiltInv
  BY InitRelations DEF IInit
<1>2. NamesInv /\ KindInv /\ DraftInv /\ ParamInv /\ BuiltInv => ClaimsKept
  BY KeptNow
<1> QED
  BY <1>1, <1>2, Names, Kinds, Drafts, BuiltStep, PTL DEF ISpec

(* Every relation of any candidates becomes an edge between components of the
   inventory, or a warning, or was about its own component, and no edge is
   guessed (resolveRelations): as long as no relation is of or about a
   configuration value that dropBoundAIConfig may take away. *)
THEOREM RelationsKept ==
  ASSUME \A fs \in Candidates : Relatable(fs)
  PROVE  ISpec => []RelationsAccounted
<1>1. IInit => GivenInv /\ RelationInv /\ BuiltInv
  BY InitRelations DEF IInit
<1>2. NamesInv /\ KindInv /\ DraftInv /\ ParamInv /\ BuiltInv /\ GivenInv /\ RelationInv => RelationsAccounted
  BY RelationsNow
<1> QED
  BY <1>1, <1>2, Names, Kinds, Drafts, BuiltStep, GivenStep, RelationStep, PTL DEF ISpec

-----------------------------------------------------------------------------
(* Finite documents: a writer numbers what it lists *)

(* What a function makes of a finite set is finite. *)
LEMMA FiniteImage ==
  ASSUME NEW S, IsFiniteSet(S), NEW g, DOMAIN g = S
  PROVE  IsFiniteSet({g[x] : x \in S})
<1>1. PICK T : T = {g[x] : x \in S}
  OBVIOUS
<1>2. PICK h : h = [x \in S |-> g[x]]
  OBVIOUS
<1>3. h \in [S -> T] /\ \A t \in T : \E x \in S : h[x] = t
  BY <1>1, <1>2
<1>4. h \in Surjection(S, T)
  BY <1>3 DEF Surjection
<1> QED
  BY <1>1, <1>4, FS_Surjection

(* Another risk makes no endless list of risks. *)
LEMMA OneMoreRisk ==
  ASSUME NEW risks, IsFiniteSet(risks), NEW id, NEW detail, NEW o
  PROVE  IsFiniteSet(addRisk(risks, id, detail, o))
<1> DEFINE old == {r \in risks : r.id = id}
           least(r) == IF occLess(o, r.occurrence) THEN o ELSE r.occurrence
           again(r) == [id |-> id, detail |-> r.detail \cup detail, occurrence |-> least(r)]
<1>1. PICK x : x = [id |-> id, detail |-> detail, occurrence |-> o]
  OBVIOUS
<1>2. addRisk(risks, id, detail, o) = (risks \ old) \cup (IF old = {} THEN {x} ELSE {again(r) : r \in old})
  BY <1>1 DEF addRisk
<1>3. IsFiniteSet(old) /\ IsFiniteSet(risks \ old)
  <2>1. old \in SUBSET risks /\ risks \ old \in SUBSET risks
    OBVIOUS
  <2> HIDE DEF old
  <2> QED
    BY <2>1, FS_Subset
<1> HIDE DEF old, again
<1>4. IsFiniteSet({x})
  BY FS_Singleton
<1>5. IsFiniteSet({again(r) : r \in old})
  <2>1. PICK g : g = [r \in old |-> again(r)]
    OBVIOUS
  <2>2. DOMAIN g = old /\ {again(r) : r \in old} = {g[r] : r \in old}
    BY <2>1
  <2> QED
    BY <1>3, <2>2, FiniteImage
<1>6. PICK more : more = IF old = {} THEN {x} ELSE {again(r) : r \in old}
  OBVIOUS
<1>7. IsFiniteSet(more)
  BY <1>4, <1>5, <1>6
<1>8. IsFiniteSet((risks \ old) \cup more)
  BY <1>3, <1>7, FS_Union
<1> QED
  BY <1>2, <1>6, <1>8

(* Nor do the risks of another draft. *)
LEMMA MoreRisks ==
  ASSUME NEW risks, IsFiniteSet(risks), NEW more, IsFiniteSet(more)
  PROVE  IsFiniteSet(mergeRisks(risks, more))
<1> DEFINE seen(r) == {x \in risks : x.id = r.id}
           again(r) == addRisk(seen(r), r.id, r.detail, r.occurrence)
<1>1. PICK gone : gone = UNION {seen(r) : r \in more}
  OBVIOUS
<1>2. mergeRisks(risks, more) = (risks \ gone) \cup UNION {again(r) : r \in more}
  BY <1>1 DEF mergeRisks
<1>3. \A r : IsFiniteSet(again(r))
  <2> TAKE r
  <2>1. seen(r) \in SUBSET risks
    OBVIOUS
  <2>2. IsFiniteSet(seen(r))
    BY <2>1, FS_Subset
  <2> HIDE DEF seen
  <2> QED
    BY <2>2, OneMoreRisk
<1> HIDE DEF again
<1>4. IsFiniteSet({again(r) : r \in more})
  <2>1. PICK g : g = [r \in more |-> again(r)]
    OBVIOUS
  <2>2. DOMAIN g = more /\ {again(r) : r \in more} = {g[r] : r \in more}
    BY <2>1
  <2>3. IsFiniteSet({g[r] : r \in more})
    BY <2>2, FiniteImage
  <2> QED
    BY <2>2, <2>3
<1>5. PICK all : all = {again(r) : r \in more} /\ IsFiniteSet(all) /\ \A T \in all : IsFiniteSet(T)
  BY <1>3, <1>4
<1>6. IsFiniteSet(UNION all)
  BY <1>5, FS_UNION
<1>7. IsFiniteSet(risks \ gone)
  BY FS_Difference
<1>8. IsFiniteSet((risks \ gone) \cup UNION all)
  BY <1>6, <1>7, FS_Union
<1> QED
  BY <1>2, <1>5, <1>8

(* What findings declare of versions and places to download from. *)
Licenses(fs)  == UNION {f.claim.licenses : f \in fs}
Versions(fs)  == ({f.claim.version : f \in fs} \cup {extraVersion(f.claim) : f \in fs}) \ {""}
Downloads(fs) == {f.claim.download : f \in fs}
(* A draft has finitely many risks, and what it knows it has from fs. *)
Modest(d, fs) ==
  /\ DOMAIN d = DraftFields /\ IsFiniteSet(d.risks) /\ d.licenses \subseteq Licenses(fs)
  /\ IsSeq(d.versionClaims) /\ \A c \in Range(d.versionClaims) : c.value \in Versions(fs)
  /\ d.downloadLocation \in Downloads(fs) \cup {""}
RiskInv == \A k \in DOMAIN drafts : Modest(drafts[k], Range(absorbed))

(* More findings know more. *)
LEMMA ModestOfMore ==
  ASSUME NEW d, NEW fs, Modest(d, fs), NEW gs, fs \subseteq gs
  PROVE  Modest(d, gs)
<1>1. Licenses(fs) \subseteq Licenses(gs) /\ Versions(fs) \subseteq Versions(gs) /\ Downloads(fs) \subseteq Downloads(gs)
  BY DEF Licenses, Versions, Downloads
<1>2. /\ DOMAIN d = DraftFields /\ IsFiniteSet(d.risks) /\ d.licenses \subseteq Licenses(fs)
      /\ IsSeq(d.versionClaims) /\ \A c \in Range(d.versionClaims) : c.value \in Versions(fs)
      /\ d.downloadLocation \in Downloads(fs) \cup {""}
  BY DEF Modest
<1>3. /\ d.licenses \subseteq Licenses(gs) /\ \A c \in Range(d.versionClaims) : c.value \in Versions(gs)
      /\ d.downloadLocation \in Downloads(gs) \cup {""}
  BY <1>1, <1>2
<1> QED
  BY <1>2, <1>3 DEF Modest

(* A new draft knows nothing. *)
LEMMA FreshModest == ASSUME NEW key, NEW kind, NEW fs PROVE Modest(fresh(key, kind), fs)
<1>1. PICK e : e = fresh(key, kind)
  OBVIOUS
<1>2. /\ DOMAIN e = DraftFields /\ e.risks = {} /\ e.licenses = {} /\ e.versionClaims = <<>>
      /\ e.downloadLocation = ""
  BY <1>1 DEF fresh, DraftFields
<1>3. IsSeq(<<>>) /\ Range(<<>>) = {}
  BY DEF IsSeq, Range
<1>4. IsFiniteSet(e.risks)
  BY <1>2, FS_EmptySet
<1>5. IsSeq(e.versionClaims) /\ Range(e.versionClaims) = {}
  BY <1>2, <1>3
<1>6. Modest(e, fs)
  BY <1>2, <1>4, <1>5 DEF Modest
<1> QED
  BY <1>1, <1>6

(* One claim is one value. *)
LEMMA ClaimOf ==
  ASSUME NEW cond \in BOOLEAN, NEW value, NEW o
  PROVE  IsSeq(ClaimIf(cond, value, o)) /\ \A c \in Range(ClaimIf(cond, value, o)) : c.value = value /\ cond
<1>1. PICK c : c = [value |-> value, confidence |-> o.confidence, method |-> o.method]
  OBVIOUS
<1>2. ClaimIf(cond, value, o) = IF cond THEN <<c>> ELSE <<>>
  BY <1>1 DEF ClaimIf
<1>3. IsSeq(<<c>>) /\ Range(<<c>>) = {c} /\ IsSeq(<<>>) /\ Range(<<>>) = {}
  BY DEF IsSeq, Range
<1>4. c.value = value
  BY <1>1
<1>5. CASE cond
  BY <1>2, <1>3, <1>4, <1>5
<1>6. CASE ~cond
  BY <1>2, <1>3, <1>6
<1> QED
  BY <1>5, <1>6

(* absorbInto adds what its finding knows. *)
LEMMA AbsorbModest ==
  ASSUME NEW d, NEW fs, Modest(d, fs), NEW key, NEW f \in fs
  PROVE  Modest(absorbInto(d, key, f), fs)
<1>1. PICK e : e = absorbInto(d, key, f)
  OBVIOUS
<1>2. DOMAIN d = DraftFields
  BY DEF Modest
<1>a. PICK s, t : /\ s = ClaimIf(f.claim.version # "", f.claim.version, f.occurrence)
                  /\ t = ClaimIf(extraVersion(f.claim) # "", extraVersion(f.claim), f.occurrence)
  OBVIOUS
<1>3. LET h == absorbInto(d, key, f) IN
      /\ DOMAIN h = DraftFields /\ h.licenses = d.licenses \cup f.claim.licenses
      /\ h.risks = IF f.claim.risk = {} THEN d.risks ELSE addRisk(d.risks, "pickle-import", f.claim.risk, f.occurrence)
      /\ h.downloadLocation = FirstKnown(d.downloadLocation, f.claim.download)
      /\ h.versionClaims = d.versionClaims \o ClaimIf(f.claim.version # "", f.claim.version, f.occurrence)
                                          \o ClaimIf(extraVersion(f.claim) # "", extraVersion(f.claim), f.occurrence)
  BY <1>2 DEF absorbInto, DraftFields
<1>4. /\ DOMAIN e = DraftFields /\ e.licenses = d.licenses \cup f.claim.licenses
      /\ e.risks = IF f.claim.risk = {} THEN d.risks ELSE addRisk(d.risks, "pickle-import", f.claim.risk, f.occurrence)
      /\ e.downloadLocation = FirstKnown(d.downloadLocation, f.claim.download)
      /\ e.versionClaims = d.versionClaims \o s \o t
  BY <1>1, <1>3, <1>a
<1>5. /\ IsFiniteSet(d.risks) /\ d.licenses \subseteq Licenses(fs)
      /\ IsSeq(d.versionClaims) /\ \A c \in Range(d.versionClaims) : c.value \in Versions(fs)
      /\ d.downloadLocation \in Downloads(fs) \cup {""}
  BY DEF Modest
<1>6. IsFiniteSet(addRisk(d.risks, "pickle-import", f.claim.risk, f.occurrence))
  BY <1>5, OneMoreRisk
<1>7. IsFiniteSet(e.risks)
  BY <1>4, <1>5, <1>6
<1>8. e.licenses \subseteq Licenses(fs)
  BY <1>4, <1>5 DEF Licenses
<1>9. e.downloadLocation \in Downloads(fs) \cup {""}
  BY <1>4, <1>5 DEF FirstKnown, Downloads
<1>10. /\ IsSeq(s) /\ \A c \in Range(s) : c.value = f.claim.version /\ f.claim.version # ""
       /\ IsSeq(t) /\ \A c \in Range(t) : c.value = extraVersion(f.claim) /\ extraVersion(f.claim) # ""
  BY <1>a, ClaimOf
<1>11. PICK m : m = d.versionClaims \o s /\ IsSeq(m) /\ Range(m) = Range(d.versionClaims) \cup Range(s)
  BY <1>5, <1>10, Joined
<1>12. e.versionClaims = m \o t /\ IsSeq(m \o t) /\ Range(m \o t) = Range(m) \cup Range(t)
  BY <1>4, <1>10, <1>11, Joined
<1>13. /\ f.claim.version # "" => f.claim.version \in Versions(fs)
       /\ extraVersion(f.claim) # "" => extraVersion(f.claim) \in Versions(fs)
  BY DEF Versions
<1>14. IsSeq(e.versionClaims) /\ \A c \in Range(e.versionClaims) : c.value \in Versions(fs)
  BY <1>5, <1>10, <1>11, <1>12, <1>13
<1> QED
  BY <1>1, <1>4, <1>7, <1>8, <1>9, <1>14 DEF Modest

(* mergeDraft adds what another draft knows. *)
LEMMA MergeModest ==
  ASSUME NEW d, NEW fs, Modest(d, fs), NEW src, Modest(src, fs)
  PROVE  Modest(mergeDraft(d, src), fs)
<1>1. PICK e : e = mergeDraft(d, src)
  OBVIOUS
<1>2. DOMAIN d = DraftFields
  BY DEF Modest
<1>3. LET h == mergeDraft(d, src) IN
      /\ DOMAIN h = DraftFields /\ h.licenses = d.licenses \cup src.licenses
      /\ h.risks = mergeRisks(d.risks, src.risks)
      /\ h.downloadLocation = FirstKnown(d.downloadLocation, src.downloadLocation)
      /\ h.versionClaims = d.versionClaims \o src.versionClaims
  BY <1>2 DEF mergeDraft, DraftFields
<1>4. /\ DOMAIN e = DraftFields /\ e.licenses = d.licenses \cup src.licenses /\ e.risks = mergeRisks(d.risks, src.risks)
      /\ e.downloadLocation = FirstKnown(d.downloadLocation, src.downloadLocation)
      /\ e.versionClaims = d.versionClaims \o src.versionClaims
  BY <1>1, <1>3
<1>5. /\ IsFiniteSet(d.risks) /\ d.licenses \subseteq Licenses(fs)
      /\ IsSeq(d.versionClaims) /\ \A c \in Range(d.versionClaims) : c.value \in Versions(fs)
      /\ d.downloadLocation \in Downloads(fs) \cup {""}
  BY DEF Modest
<1>a. /\ IsFiniteSet(src.risks) /\ src.licenses \subseteq Licenses(fs)
      /\ IsSeq(src.versionClaims) /\ \A c \in Range(src.versionClaims) : c.value \in Versions(fs)
      /\ src.downloadLocation \in Downloads(fs) \cup {""}
  BY DEF Modest
<1>6. IsFiniteSet(e.risks)
  BY <1>4, <1>5, <1>a, MoreRisks
<1>7. e.downloadLocation \in Downloads(fs) \cup {""} /\ e.licenses \subseteq Licenses(fs)
  BY <1>4, <1>5, <1>a DEF FirstKnown
<1>8. IsSeq(e.versionClaims) /\ Range(e.versionClaims) = Range(d.versionClaims) \cup Range(src.versionClaims)
  <2>1. PICK s, t : s = d.versionClaims /\ t = src.versionClaims
    OBVIOUS
  <2>2. IsSeq(s) /\ IsSeq(t) /\ e.versionClaims = s \o t
    BY <1>4, <1>5, <1>a, <2>1
  <2>3. IsSeq(s \o t) /\ Range(s \o t) = Range(s) \cup Range(t)
    BY <2>2, Joined
  <2> QED
    BY <2>1, <2>2, <2>3
<1>9. \A c \in Range(e.versionClaims) : c.value \in Versions(fs)
  BY <1>5, <1>8, <1>a
<1> QED
  BY <1>1, <1>4, <1>6, <1>7, <1>8, <1>9 DEF Modest

(* So does the whole fold. *)
LEMMA AllModest ==
  ASSUME NEW d, NEW fs, NEW srcs, Len(srcs) \in Nat, Modest(d, fs), \A n \in 1 .. Len(srcs) : Modest(srcs[n], fs)
  PROVE  Modest(mergeAll(d, srcs), fs)
<1>1. PICK N : N = Len(srcs) /\ N \in Nat
  OBVIOUS
<1>2. PICK F : FoldsTo(F, d, srcs, N) /\ mergeAll(d, srcs) = F[N]
  BY <1>1, FoldRuns
<1>3. PICK T : T = {n \in Nat : n <= N => Modest(F[n], fs)}
  OBVIOUS
<1>4. 0 \in T
  BY <1>2, <1>3 DEF FoldsTo
<1>5. ASSUME NEW n \in Nat, n \in T PROVE n + 1 \in T
  <2>1. CASE n + 1 <= N
    <3>1. n + 1 \in 1 .. N /\ Modest(F[n], fs)
      BY <1>1, <1>3, <1>5, <2>1
    <3>2. F[n + 1] = mergeDraft(F[n + 1 - 1], srcs[n + 1]) /\ n + 1 - 1 = n
      BY <1>2, <3>1 DEF FoldsTo
    <3>3. Modest(srcs[n + 1], fs)
      BY <1>1, <3>1
    <3>4. Modest(F[n + 1], fs)
      BY <3>1, <3>2, <3>3, MergeModest
    <3> QED
      BY <1>3, <3>4
  <2>2. CASE ~(n + 1 <= N)
    BY <1>3, <2>2
  <2> QED
    BY <2>1, <2>2
<1>6. N \in T
  BY <1>1, <1>4, <1>5, Induction
<1> QED
  BY <1>1, <1>2, <1>3, <1>6

(* Before the first finding there is no draft. *)
LEMMA InitRisks == Init => RiskInv
  BY DEF Init, RiskInv

(* Every step keeps the drafts modest. *)
LEMMA RiskStep == NamesInv /\ DraftInv /\ RiskInv /\ [INext]_<<vars, ovars>> => RiskInv'
<1> SUFFICES ASSUME NamesInv, DraftInv, RiskInv, [Next]_vars PROVE RiskInv'
  BY AssemblyOrSame
<1>1. ASSUME NEW f \in pending, Absorb(f) PROVE RiskInv'
  <2>1. absorbed' = Append(absorbed, f) /\ drafts' = absorb(drafts, f)
    BY <1>1 DEF Absorb
  <2>2. IsSeq(absorbed)
    BY SeqIs DEF NamesInv, ArrivalInv
  <2>3. PICK fs, gs : fs = Range(absorbed) /\ gs = Range(absorbed')
    OBVIOUS
  <2>4. gs = fs \cup {f}
    BY <2>1, <2>2, <2>3, Appended
  <2>5. PICK key, d : key = normalizeKey(f.claim) /\ d = DraftOf(drafts, key, f.claim.kind)
    OBVIOUS
  <2>6. Modest(d, fs)
    <3>1. CASE key \in DOMAIN drafts
      BY <2>3, <2>5, <3>1 DEF DraftOf, RiskInv
    <3>2. CASE key \notin DOMAIN drafts
      BY <2>5, <3>2, FreshModest DEF DraftOf
    <3> QED
      BY <3>1, <3>2
  <2>7. PICK e : e = absorbInto(d, key, f)
    OBVIOUS
  <2>8. DOMAIN drafts' = DOMAIN drafts \cup {key} /\ drafts'[key] = e /\ \A k \in DOMAIN drafts \ {key} : drafts'[k] = drafts[k]
    BY <2>1, <2>5, <2>7 DEF absorb
  <2>9. Modest(d, gs) /\ f \in gs
    BY <2>4, <2>6, ModestOfMore
  <2>10. Modest(e, gs)
    BY <2>7, <2>9, AbsorbModest
  <2>11. \A k \in DOMAIN drafts : Modest(drafts[k], fs)
    BY <2>3 DEF RiskInv
  <2>12. \A k \in DOMAIN drafts : Modest(drafts[k], gs)
    BY <2>4, <2>11, ModestOfMore
  <2>13. \A k \in DOMAIN drafts' : Modest(drafts'[k], gs)
    BY <2>8, <2>10, <2>12
  <2> QED
    BY <2>3, <2>13 DEF RiskInv
<1>2. ASSUME Fold PROVE RiskInv'
  <2>1. /\ stage = "absorb" /\ absorbed' = absorbed /\ redirects' = redirected(drafts)
        /\ drafts' = mintRoot(foldInto(drafts, redirects'))
    BY <1>2 DEF Fold
  <2>2. IsFiniteSet(DOMAIN drafts)
    BY <2>1 DEF NamesInv, KeyInv
  <2>3. PICK fs, to, new : fs = Range(absorbed) /\ to = redirects' /\ new = foldInto(drafts, to)
    OBVIOUS
  <2>4. DOMAIN to \subseteq DOMAIN drafts
    BY <2>1, <2>2, <2>3, Redirects DEF Moves
  <2>5. DOMAIN new = DOMAIN drafts \ DOMAIN to
    BY <2>3 DEF foldInto
  <2>6. ASSUME NEW k \in DOMAIN drafts \ DOMAIN to PROVE Modest(new[k], fs)
    <3>1. PICK srcs : srcs = Gathered(drafts, to, k)
      OBVIOUS
    <3>2. Len(srcs) \in Nat /\ \A n \in 1 .. Len(srcs) : \E x \in Sources(to, k) : srcs[n] = drafts[x]
      BY <2>2, <2>4, <3>1, GatheredAre
    <3>3. Modest(drafts[k], fs) /\ \A n \in 1 .. Len(srcs) : Modest(srcs[n], fs)
      BY <2>3, <2>4, <3>2 DEF RiskInv, Sources
    <3>4. new[k] = mergeAll(drafts[k], srcs)
      BY <2>3, <2>6, <3>1, FoldedInto
    <3> QED
      BY <3>2, <3>3, <3>4, AllModest
  <2>7. drafts' = mintRoot(new)
    BY <2>1, <2>3
  <2>8. /\ DOMAIN drafts' = DOMAIN new \cup {RootKey} /\ \A k \in DOMAIN new : drafts'[k] = new[k]
        /\ RootKey \notin DOMAIN new => drafts'[RootKey] = fresh(RootKey, "application")
    BY <2>7 DEF mintRoot, DraftOf
  <2>9. \A k \in DOMAIN drafts' : Modest(drafts'[k], fs)
    BY <2>5, <2>6, <2>8, FreshModest
  <2> QED
    BY <2>1, <2>3, <2>9 DEF RiskInv
<1>3. ASSUME Relate PROVE RiskInv'
  <2>1. absorbed' = absorbed /\ drafts' = promoteParams(drafts)
    BY <1>3 DEF Relate
  <2>2. PICK new : new = promoteParams(drafts)
    OBVIOUS
  <2>a. DOMAIN new = DOMAIN drafts
    BY <2>2 DEF promoteParams
  <2>3. PICK fs : fs = Range(absorbed)
    OBVIOUS
  <2>4. ASSUME NEW k \in DOMAIN drafts PROVE Modest(new[k], fs)
    <3>1. Modest(drafts[k], fs)
      BY <2>3 DEF RiskInv
    <3>2. DOMAIN drafts[k] = DraftFields
      BY <3>1 DEF Modest
    <3>3. LET e == promoteParams(drafts)[k] IN
          /\ DOMAIN e = DraftFields /\ e.risks = drafts[k].risks /\ e.licenses = drafts[k].licenses
          /\ e.versionClaims = drafts[k].versionClaims /\ e.downloadLocation = drafts[k].downloadLocation
      BY <3>2 DEF promoteParams, DraftFields
    <3> QED
      BY <2>2, <3>1, <3>3 DEF Modest
  <2> QED
    BY <2>1, <2>2, <2>a, <2>3, <2>4 DEF RiskInv
<1>4. ASSUME Finish \/ Done \/ UNCHANGED vars PROVE RiskInv'
  <2>1. absorbed' = absorbed /\ drafts' = drafts
    BY <1>4 DEF Finish, Done, vars
  <2> QED
    BY <2>1 DEF RiskInv
<1> QED
  BY <1>1, <1>2, <1>3, <1>4 DEF Next

-----------------------------------------------------------------------------
(* Sightings in shipped code *)

(* What is shipped is told one sighting after the other. *)
ShipsTo(F, s, n) ==
  /\ DOMAIN F = 0 .. n /\ F[0] = <<>>
  /\ \A i \in 1 .. n : F[i] = Shipped(F[i - 1], s[i])

(* The lists on the way to it can be listed. *)
LEMMA ShipExists ==
  ASSUME NEW s, NEW n \in Nat PROVE \E F : ShipsTo(F, s, n)
<1>1. PICK T : T = {m \in Nat : \E F : ShipsTo(F, s, m)}
  OBVIOUS
<1>2. 0 \in T
  <2>1. PICK F : F = [i \in 0 .. 0 |-> <<>>]
    OBVIOUS
  <2>2. ShipsTo(F, s, 0)
    BY <2>1 DEF ShipsTo
  <2> QED
    BY <1>1, <2>2
<1>3. ASSUME NEW m \in Nat, m \in T PROVE m + 1 \in T
  <2>1. PICK F : ShipsTo(F, s, m)
    BY <1>1, <1>3
  <2>2. PICK new : new = Shipped(F[m], s[m + 1])
    OBVIOUS
  <2>3. PICK G : G = [i \in 0 .. m + 1 |-> IF i = m + 1 THEN new ELSE F[i]]
    OBVIOUS
  <2>4. DOMAIN G = 0 .. m + 1 /\ G[m + 1] = new /\ \A i \in 0 .. m : G[i] = F[i]
    BY <2>3
  <2>5. G[0] = <<>>
    BY <2>1, <2>4 DEF ShipsTo
  <2>6. ASSUME NEW i \in 1 .. m + 1 PROVE G[i] = Shipped(G[i - 1], s[i])
    <3>1. CASE i = m + 1
      <4>1. i - 1 = m /\ m \in 0 .. m
        BY <3>1
      <4> QED
        BY <2>2, <2>4, <3>1, <4>1
    <3>2. CASE i # m + 1
      <4>1. i \in 1 .. m /\ i \in 0 .. m /\ i - 1 \in 0 .. m
        BY <3>2
      <4> QED
        BY <2>1, <2>4, <4>1 DEF ShipsTo
    <3> QED
      BY <3>1, <3>2
  <2>7. ShipsTo(G, s, m + 1)
    BY <2>4, <2>5, <2>6 DEF ShipsTo
  <2> QED
    BY <1>1, <2>7
<1>4. n \in T
  BY <1>2, <1>3, Induction
<1> QED
  BY <1>1, <1>4

(* ProductionOccurrences is the last of them. *)
LEMMA ShipRuns ==
  ASSUME NEW s, Len(s) \in Nat
  PROVE  \E F : ShipsTo(F, s, Len(s)) /\ ProductionOccurrences(s) = F[Len(s)]
<1> DEFINE N == Len(s)
<1>1. PICK F : ShipsTo(F, s, N)
  BY ShipExists
<1>2. PICK G : G = [n \in 0 .. N |-> F[n]]
  OBVIOUS
<1>3. ASSUME NEW n \in 0 .. N
      PROVE  G[n] = IF n = 0 THEN <<>> ELSE Shipped(G[n - 1], s[n])
  <2>1. CASE n = 0
    BY <1>1, <1>2, <2>1 DEF ShipsTo
  <2>2. CASE n # 0
    <3>1. n \in 1 .. N /\ n - 1 \in 0 .. N
      BY <2>2
    <3>2. G[n] = F[n] /\ G[n - 1] = F[n - 1]
      BY <1>2, <3>1
    <3> QED
      BY <1>1, <2>2, <3>1, <3>2 DEF ShipsTo
  <2> QED
    BY <2>1, <2>2
<1>4. G = [n \in 0 .. N |-> IF n = 0 THEN <<>> ELSE Shipped(G[n - 1], s[n])]
  <2>1. PICK f : f = [n \in 0 .. N |-> IF n = 0 THEN <<>> ELSE Shipped(G[n - 1], s[n])]
    OBVIOUS
  <2>2. DOMAIN f = 0 .. N /\ \A n \in 0 .. N : f[n] = IF n = 0 THEN <<>> ELSE Shipped(G[n - 1], s[n])
    BY <2>1
  <2>3. f = [n \in 0 .. N |-> f[n]]
    BY <2>1
  <2>4. \A n \in 0 .. N : f[n] = G[n]
    BY <1>3, <2>2
  <2>5. f = G
    BY <1>2, <2>3, <2>4
  <2> QED
    BY <2>1, <2>5
<1>5. PICK upTo : upTo = CHOOSE H : H = [n \in 0 .. N |-> IF n = 0 THEN <<>> ELSE Shipped(H[n - 1], s[n])]
  OBVIOUS
<1>6. upTo = [n \in 0 .. N |-> IF n = 0 THEN <<>> ELSE Shipped(upTo[n - 1], s[n])]
  BY <1>4, <1>5
<1>7. ProductionOccurrences(s) = upTo[N]
  BY <1>5 DEF ProductionOccurrences
<1>8. ShipsTo(upTo, s, N)
  <2>1. DOMAIN upTo = 0 .. N /\ \A n \in 0 .. N : upTo[n] = IF n = 0 THEN <<>> ELSE Shipped(upTo[n - 1], s[n])
    BY <1>6
  <2>2. \A n \in 1 .. N : upTo[n] = Shipped(upTo[n - 1], s[n])
    BY <2>1
  <2> QED
    BY <2>1, <2>2 DEF ShipsTo
<1> QED
  BY <1>7, <1>8

(* Of the sightings those in tests go, and no other. *)
LEMMA Production ==
  ASSUME NEW occs, IsSeq(occs)
  PROVE  /\ IsSeq(ProductionOccurrences(occs))
         /\ Range(ProductionOccurrences(occs)) = {o \in Range(occs) : o.path \notin TestPaths}
<1>1. PICK N : N = Len(occs) /\ N \in Nat /\ DOMAIN occs = 1 .. N
  BY LenProperties DEF IsSeq
<1>2. PICK F : ShipsTo(F, occs, N) /\ ProductionOccurrences(occs) = F[N]
  BY <1>1, ShipRuns
<1> DEFINE out(n) == {o \in {occs[i] : i \in 1 .. n} : o.path \notin TestPaths}
<1>3. PICK T : T = {n \in Nat : n <= N => IsSeq(F[n]) /\ Range(F[n]) = out(n)}
  OBVIOUS
<1>4. 0 \in T
  <2>1. F[0] = <<>>
    BY <1>2 DEF ShipsTo
  <2>2. IsSeq(<<>>) /\ Range(<<>>) = {} /\ out(0) = {}
    BY DEF IsSeq, Range
  <2> QED
    BY <1>3, <2>1, <2>2
<1>5. ASSUME NEW n \in Nat, n \in T PROVE n + 1 \in T
  <2>1. CASE n + 1 <= N
    <3>1. n + 1 \in 1 .. N /\ IsSeq(F[n]) /\ Range(F[n]) = out(n)
      BY <1>1, <1>3, <1>5, <2>1
    <3>2. F[n + 1] = Shipped(F[n + 1 - 1], occs[n + 1]) /\ n + 1 - 1 = n
      BY <1>2, <3>1 DEF ShipsTo
    <3>3. PICK s, o, t : s = F[n] /\ o = occs[n + 1] /\ t = F[n + 1]
      OBVIOUS
    <3>4. t = (IF o.path \in TestPaths THEN s ELSE Append(s, o)) /\ IsSeq(s) /\ Range(s) = out(n)
      BY <3>1, <3>2, <3>3 DEF Shipped
    <3>5. out(n + 1) = out(n) \cup (IF o.path \in TestPaths THEN {} ELSE {o})
      <4>1. 1 .. n + 1 = (1 .. n) \cup {n + 1}
        OBVIOUS
      <4> QED
        BY <3>3, <4>1
    <3>6. IsSeq(Append(s, o)) /\ Range(Append(s, o)) = Range(s) \cup {o}
      BY <3>4, Appended
    <3> HIDE DEF out
    <3>7. IsSeq(t) /\ Range(t) = out(n + 1)
      BY <3>4, <3>5, <3>6
    <3> QED
      BY <1>3, <3>3, <3>7
  <2>2. CASE ~(n + 1 <= N)
    BY <1>3, <2>2
  <2> QED
    BY <2>1, <2>2
<1>6. N \in T
  BY <1>1, <1>4, <1>5, Induction
<1>7. Range(occs) = {occs[i] : i \in 1 .. N}
  BY <1>1 DEF Range
<1> QED
  BY <1>1, <1>2, <1>3, <1>6, <1>7

(* The sightings of a list are finitely many. *)
LEMMA FiniteRange == ASSUME NEW s, IsSeq(s) PROVE IsFiniteSet(Range(s))
<1>1. Len(s) \in Nat /\ DOMAIN s = 1 .. Len(s)
  BY SeqIs DEF IsSeq
<1>2. IsFiniteSet(DOMAIN s)
  BY <1>1, FS_Interval
<1>3. Range(s) = {s[i] : i \in DOMAIN s}
  BY DEF Range
<1> QED
  BY <1>2, <1>3, FiniteImage

-----------------------------------------------------------------------------
(* Advisories are finitely many *)

(* Of finitely many records finitely many advisories are made. *)
LEMMA DedupedFinite ==
  ASSUME NEW vulns, Len(vulns) \in Nat
  PROVE  IsFiniteSet(dedupeByID(vulns))
<1>1. PICK N : N = Len(vulns) /\ N \in Nat
  OBVIOUS
<1>2. PICK F : JoinsTo(F, vulns, N) /\ dedupeByID(vulns) = Range(F[N])
  BY <1>1, JoinRuns
<1>3. PICK T : T = {n \in Nat : n <= N => IsFiniteSet(DOMAIN F[n])}
  OBVIOUS
<1>4. 0 \in T
  <2>1. F[0] = << >> /\ DOMAIN F[0] = {}
    BY <1>2 DEF JoinsTo
  <2> QED
    BY <1>3, <2>1, FS_EmptySet
<1>5. ASSUME NEW n \in Nat, n \in T PROVE n + 1 \in T
  <2>1. CASE n + 1 <= N
    <3>1. n + 1 \in 1 .. N /\ IsFiniteSet(DOMAIN F[n])
      BY <1>1, <1>3, <1>5, <2>1
    <3>2. F[n + 1] = joined(F[n + 1 - 1], vulns[n + 1]) /\ n + 1 - 1 = n
      BY <1>2, <3>1 DEF JoinsTo
    <3>3. DOMAIN F[n + 1] = DOMAIN F[n] \cup {vulns[n + 1].id}
      BY <3>2 DEF joined
    <3>a. PICK D, id : D = DOMAIN F[n] /\ id = vulns[n + 1].id
      OBVIOUS
    <3>b. IsFiniteSet(D)
      BY <3>1, <3>a
    <3>c. IsFiniteSet(D \cup {id})
      BY <3>b, FS_AddElement
    <3>4. IsFiniteSet(DOMAIN F[n + 1])
      BY <3>3, <3>a, <3>c
    <3> QED
      BY <1>3, <3>4
  <2>2. CASE ~(n + 1 <= N)
    BY <1>3, <2>2
  <2> QED
    BY <2>1, <2>2
<1>6. N \in T
  BY <1>1, <1>4, <1>5, Induction
<1>7. PICK f : f = F[N]
  OBVIOUS
<1>8. IsFiniteSet(DOMAIN f)
  BY <1>1, <1>3, <1>6, <1>7
<1>9. Range(f) = {f[x] : x \in DOMAIN f}
  BY DEF Range
<1> QED
  BY <1>2, <1>7, <1>8, <1>9, FiniteImage

(* So a component has finitely many. *)
LEMMA FiniteAdvisories ==
  ASSUME NEW w \in Worlds, NEW c
  PROVE  IsFiniteSet(Marked(Answers(c, w), w))
<1>1. IsFiniteSet(query(w, c))
  <2>1. query(w, c) = dedupeByID(Readings(w, c)) /\ Len(Readings(w, c)) \in Nat
    BY Readable
  <2> QED
    BY <2>1, DedupedFinite
<1>2. PICK vs : vs = Answers(c, w) /\ IsFiniteSet(vs)
  BY <1>1, FS_EmptySet DEF Answers
<1>3. CASE kevFor(w).catalog = Refused
  BY <1>2, <1>3 DEF Marked
<1>4. CASE kevFor(w).catalog # Refused
  <2>1. PICK g : g = [v \in vs |-> [v EXCEPT !.kev = lookupAny(kevFor(w).catalog, v)]]
    OBVIOUS
  <2>2. DOMAIN g = vs /\ Marked(vs, w) = {g[v] : v \in vs}
    BY <1>4, <2>1 DEF Marked
  <2>3. IsFiniteSet({g[v] : v \in vs})
    BY <1>2, <2>2, FiniteImage
  <2> QED
    BY <1>2, <2>2, <2>3
<1> QED
  BY <1>3, <1>4

(* A finite set written out in order is a sequence of its elements. *)
LEMMA Listed == ASSUME NEW S, IsFiniteSet(S) PROVE IsSeq(SetToSeq(S)) /\ Range(SetToSeq(S)) = S
<1>1. PICK s : s = SetToSeq(S)
  OBVIOUS
<1>2. PICK N : N = Len(s) /\ N \in Nat /\ DOMAIN s = 1 .. N /\ \A n \in DOMAIN s : s[n] \in S
  BY <1>1, SeqOfSet
<1>3. s = [n \in 1 .. N |-> s[n]]
  <2>1. PICK M : M = Cardinality(S) /\ M \in Nat /\ ExistsBijection(1 .. M, S)
    BY FS_CardinalityType
  <2>2. PICK f \in [1 .. M -> S] : IsInjective(f)
    BY <2>1 DEF ExistsBijection, Bijection, Injection, IsInjective
  <2>3. s \in [1 .. M -> S]
    BY <1>1, <2>1, <2>2 DEF SetToSeq
  <2> QED
    BY <1>2, <2>3
<1>4. s \in [1 .. N -> S]
  BY <1>2, <1>3
<1>5. s \in Seq(S)
  BY <1>2, <1>4
<1>6. IsSeq(s) /\ Range(s) \subseteq S
  BY <1>5, SeqIs
<1>7. ASSUME NEW x \in S PROVE x \in Range(s)
  <2>1. \E n \in DOMAIN s : s[n] = x
    BY <1>1, SeqOfAll
  <2> QED
    BY <2>1 DEF Range
<1> QED
  BY <1>1, <1>6, <1>7

-----------------------------------------------------------------------------
(* Every reference resolves *)

(* The root and both ends of every relation are components. *)
Linked(i) ==
  /\ \E c \in i.components : c.id = i.root
  /\ \A r \in i.relationships : /\ \E c \in i.components : c.id = r.from
                                /\ \E c \in i.components : c.id = r.to
(* There is an end to everything a writer lists. *)
Listable(i) ==
  /\ IsFiniteSet(i.components)
  /\ \A c \in i.components : /\ DOMAIN c = Facts \cup {"vulns", "eol"}
                             /\ IsFiniteSet(c.vulns) /\ IsFiniteSet(c.risks) /\ IsSeq(c.occs)
(* Fragments of names of two suppliers, or of two licenses, differ. *)
OwnSlugs(vendors, licenses) ==
  /\ \A p \in vendors : p # "" => slug(p) # "airom" /\ \A q \in vendors : slug(p) = slug(q) /\ q # "" => p = q
  /\ \A l, m \in licenses : slug(l) = slug(m) => l = m

(* CycloneDX mints a reference for every component, and refers to components,
   requirements and evidence it states. *)
LEMMA CycloneDXResolves ==
  ASSUME NEW i, Linked(i)
  PROVE  cdxReferenced(cdx(i)) \subseteq cdxMinted(cdx(i))
<1>1. PICK d : d = cdx(i)
  OBVIOUS
<1>2. PICK refs : refs = {ref(c.id) : c \in i.components}
  OBVIOUS
<1>3. /\ d.component = {cdxComponent(i, c) : c \in Root(i)} /\ d.components = {cdxComponent(i, c) : c \in Others(i)}
      /\ d.dependencies = buildDependencies(i) /\ d.vulnerabilities = buildVulnerabilities(i)
      /\ d.requirements = {<<"req", k.id>> : k \in i.controls}
      /\ d.claims = {claimFor(i, k) : k \in i.controls}
      /\ d.evidence = {<<"ev", k.id>> : k \in {x \in i.controls : controlEvidence(x) # {}}}
  BY <1>1 DEF cdx
<1>4. \A c \in i.components : c \in Root(i) \cup Others(i)
  BY DEF Root, Others
<1>5. \A x \in d.component \cup d.components : \E c \in i.components : x = cdxComponent(i, c)
  BY <1>3 DEF Root, Others
<1>6. \A c \in i.components : cdxComponent(i, c) \in d.component \cup d.components
  BY <1>3, <1>4
<1>7. \A c : cdxComponent(i, c).bomRef = ref(c.id)
  BY DEF cdxComponent
<1>8. refs \subseteq cdxMinted(d)
  BY <1>2, <1>6, <1>7 DEF cdxMinted
<1>9. ref(i.root) \in refs /\ \A r \in i.relationships : ref(r.from) \in refs /\ ref(r.to) \in refs
  BY <1>2 DEF Linked
<1>10. ASSUME NEW c PROVE /\ cdxComponent(i, c).datasets \subseteq refs
                          /\ \A r \in cdxComponent(i, c).rels : r[2] \in refs
  <2>1. modelCardDatasets(i, c) \subseteq refs
    BY <1>9 DEF modelCardDatasets, RelsOfType
  <2>2. \A r \in relProps(i, c) : r[2] \in refs
    BY <1>9 DEF relProps
  <2>3. cdxComponent(i, c).datasets = modelCardDatasets(i, c) /\ cdxComponent(i, c).rels = relProps(i, c)
    BY DEF cdxComponent
  <2> QED
    BY <2>1, <2>2, <2>3
<1>11. \A x \in d.dependencies : x.ref \in refs /\ x.dependsOn \subseteq refs
  BY <1>3, <1>9 DEF buildDependencies, RelsOfType
<1>12. ASSUME NEW v \in d.vulnerabilities PROVE v.affects \in refs
  <2>1. PICK c \in i.components :
          v \in {[id |-> r.id, affects |-> ref(c.id), own |-> TRUE, fixed |-> ""] : r \in c.risks}
               \cup {[id |-> u.id, affects |-> ref(c.id), own |-> FALSE, fixed |-> u.fixed] : u \in c.vulns}
    BY <1>3 DEF buildVulnerabilities
  <2>2. \E id, own, fixed : v = [id |-> id, affects |-> ref(c.id), own |-> own, fixed |-> fixed]
    BY <2>1
  <2>3. PICK id, own, fixed : v = [id |-> id, affects |-> ref(c.id), own |-> own, fixed |-> fixed]
    BY <2>2
  <2>4. v.affects = ref(c.id)
    BY <2>3
  <2> QED
    BY <1>2, <2>4
<1>13. ASSUME NEW x \in d.claims
       PROVE  x.target \in refs /\ x.requirement \in d.requirements /\ x.evidence \subseteq d.evidence
  <2>1. PICK k \in i.controls : x = claimFor(i, k)
    BY <1>3
  <2>2. /\ x.target = ref(i.root) /\ x.requirement = <<"req", k.id>>
        /\ x.evidence = IF controlEvidence(k) = {} THEN {} ELSE {<<"ev", k.id>>}
    BY <2>1 DEF claimFor
  <2> QED
    BY <1>3, <1>9, <2>2
<1>14. d.requirements \subseteq cdxMinted(d) /\ d.evidence \subseteq cdxMinted(d)
  BY DEF cdxMinted
<1>15. \A x \in d.component \cup d.components : x.datasets \subseteq refs /\ \A r \in x.rels : r[2] \in refs
  BY <1>5, <1>10
<1>16. ASSUME NEW x \in cdxReferenced(d) PROVE x \in refs \cup d.requirements \cup d.evidence
  <2>1. \/ \E c \in d.component \cup d.components : x \in c.datasets \cup {r[2] : r \in c.rels}
        \/ \E y \in d.dependencies : x \in {y.ref} \cup y.dependsOn
        \/ \E v \in d.vulnerabilities : x = v.affects
        \/ \E y \in d.claims : x \in {y.target, y.requirement} \cup y.evidence
    <3> DEFINE A == {c.datasets \cup {r[2] : r \in c.rels} : c \in d.component \cup d.components}
               B == {{y.ref} \cup y.dependsOn : y \in d.dependencies}
               C == {v.affects : v \in d.vulnerabilities}
               D == {{y.target, y.requirement} \cup y.evidence : y \in d.claims}
    <3>1. x \in (UNION A) \cup (UNION B) \cup C \cup (UNION D)
      BY DEF cdxReferenced
    <3>2. x \in UNION A => \E c \in d.component \cup d.components : x \in c.datasets \cup {r[2] : r \in c.rels}
      OBVIOUS
    <3>3. x \in UNION B => \E y \in d.dependencies : x \in {y.ref} \cup y.dependsOn
      OBVIOUS
    <3>4. x \in C => \E v \in d.vulnerabilities : x = v.affects
      OBVIOUS
    <3>5. x \in UNION D => \E y \in d.claims : x \in {y.target, y.requirement} \cup y.evidence
      OBVIOUS
    <3> HIDE DEF A, B, C, D
    <3> QED
      BY <3>1, <3>2, <3>3, <3>4, <3>5
  <2> QED
    BY <1>11, <1>12, <1>13, <1>15, <2>1
<1> QED
  BY <1>1, <1>8, <1>14, <1>16

(* How CycloneDX states a risk and an advisory, and how SPDX numbers them. *)
NoUpgrade        == ""
OwnIn(of, r)     == [id |-> r.id, affects |-> of, own |-> TRUE, fixed |-> NoUpgrade]
TheirsIn(of, v)  == [id |-> v.id, affects |-> of, own |-> FALSE, fixed |-> v.fixed]
RiskNo(of, r)    == [pkg |-> of, id |-> r.id, vex |-> FALSE, fixedIn |-> NoUpgrade]
AdviceNo(of, v)  == [pkg |-> of, id |-> v.id, vex |-> TRUE, fixedIn |-> v.fixed]
(* What each of them says. *)
LEMMA OwnInSays ==
  ASSUME NEW of, NEW x, NEW y, y = OwnIn(of, x)
  PROVE  y.id = x.id /\ y.affects = of /\ y.own /\ y.fixed = NoUpgrade
BY DEF OwnIn
(* An advisory of CycloneDX. *)
LEMMA TheirsInSays ==
  ASSUME NEW of, NEW x, NEW y, y = TheirsIn(of, x)
  PROVE  y.id = x.id /\ y.affects = of /\ ~y.own /\ y.fixed = x.fixed
BY DEF TheirsIn
(* A risk of SPDX. *)
LEMMA RiskNoSays ==
  ASSUME NEW of, NEW x, NEW y, y = RiskNo(of, x)
  PROVE  y.id = x.id /\ y.pkg = of /\ y.fixedIn = NoUpgrade
BY DEF RiskNo
(* An advisory of SPDX. *)
LEMMA AdviceNoSays ==
  ASSUME NEW of, NEW x, NEW y, y = AdviceNo(of, x)
  PROVE  y.id = x.id /\ y.pkg = of /\ y.fixedIn = x.fixed
BY DEF AdviceNo

(* SPDX numbers every risk and every advisory of its packages, and nothing else. *)
LEMMA FindingsListed ==
  ASSUME NEW i, Listable(i)
  PROVE  \A x : x \in Range(vulnRefs(i)) <=>
                  \E c \in i.components : \/ \E r \in c.risks : x = RiskNo(ref(c.id), r)
                                          \/ \E v \in c.vulns : x = AdviceNo(ref(c.id), v)
<1> DEFINE advised(c) == {AdviceNo(ref(c.id), v) : v \in c.vulns}
           risky(c)   == {RiskNo(ref(c.id), r) : r \in c.risks}
<1>1. ASSUME NEW c \in i.components PROVE IsFiniteSet(advised(c) \cup risky(c))
  <2>1. IsFiniteSet(c.vulns) /\ IsFiniteSet(c.risks)
    BY DEF Listable
  <2>2. PICK g : g = [v \in c.vulns |-> AdviceNo(ref(c.id), v)]
    OBVIOUS
  <2>3. DOMAIN g = c.vulns /\ advised(c) = {g[v] : v \in c.vulns}
    BY <2>2
  <2>4. IsFiniteSet({g[v] : v \in c.vulns})
    BY <2>1, <2>3, FiniteImage
  <2>5. PICK h : h = [r \in c.risks |-> RiskNo(ref(c.id), r)]
    OBVIOUS
  <2>6. DOMAIN h = c.risks /\ risky(c) = {h[r] : r \in c.risks}
    BY <2>5
  <2>7. IsFiniteSet({h[r] : r \in c.risks})
    BY <2>1, <2>6, FiniteImage
  <2>8. IsFiniteSet(advised(c)) /\ IsFiniteSet(risky(c))
    BY <2>3, <2>4, <2>6, <2>7
  <2> HIDE DEF advised, risky
  <2> QED
    BY <2>8, FS_Union
<1>2. vulnRefs(i) = SetToSeq(UNION {advised(c) \cup risky(c) : c \in i.components})
  BY DEF vulnRefs, AdviceNo, RiskNo, NoUpgrade
<1>3. \A c, x : x \in advised(c) <=> \E v \in c.vulns : x = AdviceNo(ref(c.id), v)
  OBVIOUS
<1>4. \A c, x : x \in risky(c) <=> \E r \in c.risks : x = RiskNo(ref(c.id), r)
  OBVIOUS
<1> HIDE DEF advised, risky
<1>5. PICK g : g = [c \in i.components |-> advised(c) \cup risky(c)]
  OBVIOUS
<1>6. DOMAIN g = i.components /\ \A c \in i.components : g[c] = advised(c) \cup risky(c)
  BY <1>5
<1>7. PICK all : all = {g[c] : c \in i.components}
  OBVIOUS
<1>8. all = {advised(c) \cup risky(c) : c \in i.components}
  BY <1>6, <1>7
<1>9. IsFiniteSet(all)
  BY <1>6, <1>7, FiniteImage DEF Listable
<1>10. \A T \in all : IsFiniteSet(T)
  BY <1>1, <1>8
<1>11. PICK S : S = UNION all /\ IsFiniteSet(S)
  BY <1>9, <1>10, FS_UNION
<1>12. vulnRefs(i) = SetToSeq(S)
  BY <1>2, <1>8, <1>11
<1>13. Range(vulnRefs(i)) = S
  BY <1>11, <1>12, Listed
<1>14. \A x : x \in S <=> \E c \in i.components : x \in advised(c) \/ x \in risky(c)
  BY <1>8, <1>11
<1> QED
  BY <1>3, <1>4, <1>13, <1>14

(* So what it numbers is about a package. *)
LEMMA FindingsNumbered ==
  ASSUME NEW i, Listable(i), NEW n \in DOMAIN vulnRefs(i)
  PROVE  \E c \in i.components : vulnRefs(i)[n].pkg = ref(c.id)
<1>1. PICK x : x = vulnRefs(i)[n] /\ x \in Range(vulnRefs(i))
  BY DEF Range
<1>2. PICK c \in i.components : \/ \E r \in c.risks : x = RiskNo(ref(c.id), r)
                                \/ \E v \in c.vulns : x = AdviceNo(ref(c.id), v)
  BY <1>1, FindingsListed
<1>3. x.pkg = ref(c.id)
  <2>1. ASSUME NEW r, x = RiskNo(ref(c.id), r) PROVE x.pkg = ref(c.id)
    BY <2>1, RiskNoSays
  <2>2. ASSUME NEW v, x = AdviceNo(ref(c.id), v) PROVE x.pkg = ref(c.id)
    BY <2>2, AdviceNoSays
  <2> QED
    BY <1>2, <2>1, <2>2
<1> QED
  BY <1>1, <1>3

(* What is in an SPDX document, one element for each of its sources. *)
Element(i, e) ==
  \/ e = <<<<"Agent", "airom">>, "tool">>
  \/ e = <<<<"SBOM">>, "sbom">>
  \/ \E c \in i.components : e = <<<<"component", c.id>>, "package">>
  \/ \E c \in i.components : c.provider # "" /\ e = <<<<"Agent", slug(c.provider)>>, c.provider>>
  \/ \E c \in i.components : \E l \in c.licenses : e = <<<<"License", slug(l)>>, l>>
  \/ \E n \in DOMAIN vulnRefs(i) : e = <<<<"Vulnerability", n, slug(vulnRefs(i)[n].id)>>, "vulnerability">>

(* SPDX states these elements and no other. *)
LEMMA Elements == ASSUME NEW i PROVE \A e : e \in spdx(i).elements <=> Element(i, e)
<1> TAKE e
<1>1. PICK E : E = spdx(i).elements
  OBVIOUS
<1> DEFINE P == {<<ref(c.id), "package">> : c \in i.components}
           S == {<<suppliedBy(c), c.provider>> : c \in {x \in i.components : x.provider # ""}}
           L == UNION {{<<licenseID(l), l>> : l \in c.licenses} : c \in i.components}
           V == {<<vulnElement(n, vulnRefs(i)[n]), "vulnerability">> : n \in DOMAIN vulnRefs(i)}
<1>2. E = {<<<<"Agent", "airom">>, "tool">>, <<<<"SBOM">>, "sbom">>} \cup P \cup S \cup L \cup V
  BY <1>1 DEF spdx
<1>3. e \in P <=> \E c \in i.components : e = <<<<"component", c.id>>, "package">>
  BY DEF ref
<1>4. e \in S <=> \E c \in i.components : c.provider # "" /\ e = <<<<"Agent", slug(c.provider)>>, c.provider>>
  <2>1. \A c : c.provider # "" => suppliedBy(c) = <<"Agent", slug(c.provider)>>
    BY DEF suppliedBy
  <2> QED
    BY <2>1
<1>5. e \in L <=> \E c \in i.components : \E l \in c.licenses : e = <<<<"License", slug(l)>>, l>>
  BY DEF licenseID
<1>6. e \in V <=> \E n \in DOMAIN vulnRefs(i) : e = <<<<"Vulnerability", n, slug(vulnRefs(i)[n].id)>>, "vulnerability">>
  BY DEF vulnElement
<1> HIDE DEF P, S, L, V
<1> QED
  BY <1>1, <1>2, <1>3, <1>4, <1>5, <1>6 DEF Element

Vendors(i) == {c.provider : c \in i.components}
Granted(i) == UNION {c.licenses : c \in i.components}

(* The identifier of an element says what it is of. *)
Identified(i, e) ==
  \/ e[1][1] = "Agent" /\ e[1][2] = "airom" /\ e = <<e[1], "tool">>
  \/ e[1][1] = "SBOM" /\ e = <<e[1], "sbom">>
  \/ e[1][1] = "component" /\ e = <<e[1], "package">>
  \/ \E p \in Vendors(i) : p # "" /\ e[1][1] = "Agent" /\ e[1][2] = slug(p) /\ e = <<e[1], p>>
  \/ \E l \in Granted(i) : e[1][1] = "License" /\ e[1][2] = slug(l) /\ e = <<e[1], l>>
  \/ e[1][1] = "Vulnerability" /\ e = <<e[1], "vulnerability">>

(* It does so for each of them. *)
LEMMA Identifies == ASSUME NEW i, NEW e, Element(i, e) PROVE Identified(i, e)
<1>1. CASE e = <<<<"Agent", "airom">>, "tool">>
  BY <1>1 DEF Identified
<1>2. CASE e = <<<<"SBOM">>, "sbom">>
  BY <1>2 DEF Identified
<1>3. ASSUME NEW c \in i.components, e = <<<<"component", c.id>>, "package">> PROVE Identified(i, e)
  BY <1>3 DEF Identified
<1>4. ASSUME NEW c \in i.components, c.provider # "", e = <<<<"Agent", slug(c.provider)>>, c.provider>> PROVE Identified(i, e)
  <2>1. PICK p : p = c.provider /\ p \in Vendors(i) /\ p # ""
    BY <1>4 DEF Vendors
  <2>2. e = <<<<"Agent", slug(p)>>, p>>
    BY <1>4, <2>1
  <2>3. e[1][1] = "Agent" /\ e[1][2] = slug(p) /\ e = <<e[1], p>>
    BY <2>2
  <2> QED
    BY <2>1, <2>3 DEF Identified
<1>5. ASSUME NEW c \in i.components, NEW l \in c.licenses, e = <<<<"License", slug(l)>>, l>> PROVE Identified(i, e)
  <2>1. l \in Granted(i)
    BY <1>5 DEF Granted
  <2>2. e[1][1] = "License" /\ e[1][2] = slug(l) /\ e = <<e[1], l>>
    BY <1>5
  <2> QED
    BY <2>1, <2>2 DEF Identified
<1>6. ASSUME NEW n \in DOMAIN vulnRefs(i),
             e = <<<<"Vulnerability", n, slug(vulnRefs(i)[n].id)>>, "vulnerability">>
      PROVE  Identified(i, e)
  BY <1>6 DEF Identified
<1> QED
  BY <1>1, <1>2, <1>3, <1>4, <1>5, <1>6 DEF Element

(* No two of them have one identifier. *)
LEMMA ElementsApart ==
  ASSUME NEW i, OwnSlugs(Vendors(i), Granted(i)), NEW e, Element(i, e), NEW f, Element(i, f), e[1] = f[1]
  PROVE  e = f
<1>1. Identified(i, e) /\ Identified(i, f)
  BY Identifies
<1>2. PICK id : id = e[1] /\ id = f[1]
  OBVIOUS
<1>3. \A p, q \in Vendors(i) : p # "" /\ q # "" /\ slug(p) = slug(q) => p = q
  BY DEF OwnSlugs
<1>4. \A p \in Vendors(i) : p # "" => slug(p) # "airom"
  BY DEF OwnSlugs
<1>5. \A l, m \in Granted(i) : slug(l) = slug(m) => l = m
  BY DEF OwnSlugs
<1>6. CASE id[1] = "Agent"
  BY <1>1, <1>2, <1>3, <1>4, <1>6 DEF Identified
<1>7. CASE id[1] # "Agent"
  BY <1>1, <1>2, <1>5, <1>7 DEF Identified
<1> QED
  BY <1>6, <1>7

(* SPDX refers to elements it states, and to each by an identifier of its own. *)
LEMMA SPDXResolves ==
  ASSUME NEW i, Linked(i), Listable(i), OwnSlugs(Vendors(i), Granted(i))
  PROVE  LET d == spdx(i)  ids == {e[1] : e \in d.elements}
         IN /\ \A e, f \in d.elements : e[1] = f[1] => e = f
            /\ {d.rootElement} \cup d.suppliers \cup (UNION {{r[1], r[3]} : r \in d.rels}) \subseteq ids
<1>1. PICK d : d = spdx(i)
  OBVIOUS
<1>2. \A e : e \in d.elements <=> Element(i, e)
  BY <1>1, Elements
<1>3. \A e, f \in d.elements : e[1] = f[1] => e = f
  BY <1>2, ElementsApart
<1>4. PICK ids : ids = {e[1] : e \in d.elements}
  OBVIOUS
<1>5. \A e : Element(i, e) => e[1] \in ids
  BY <1>2, <1>4
<1>6. \A c \in i.components : ref(c.id) \in ids
  <2> TAKE c \in i.components
  <2>1. PICK e : e = <<<<"component", c.id>>, "package">>
    OBVIOUS
  <2>2. Element(i, e) /\ e[1] = ref(c.id)
    BY <2>1 DEF Element, ref
  <2> QED
    BY <1>5, <2>2
<1>7. \A c \in i.components : c.provider # "" => suppliedBy(c) \in ids
  <2> SUFFICES ASSUME NEW c \in i.components, c.provider # "" PROVE suppliedBy(c) \in ids
    OBVIOUS
  <2>1. PICK e : e = <<<<"Agent", slug(c.provider)>>, c.provider>>
    OBVIOUS
  <2>2. Element(i, e)
    BY <2>1 DEF Element
  <2>3. e[1] = suppliedBy(c)
    BY <2>1 DEF suppliedBy
  <2> QED
    BY <1>5, <2>2, <2>3
<1>8. \A c \in i.components : \A l \in c.licenses : licenseID(l) \in ids
  <2> TAKE c \in i.components
  <2> TAKE l \in c.licenses
  <2>1. PICK e : e = <<<<"License", slug(l)>>, l>>
    OBVIOUS
  <2>2. Element(i, e) /\ e[1] = licenseID(l)
    BY <2>1 DEF Element, licenseID
  <2> QED
    BY <1>5, <2>2
<1>9. \A n \in DOMAIN vulnRefs(i) : vulnElement(n, vulnRefs(i)[n]) \in ids
  <2> TAKE n \in DOMAIN vulnRefs(i)
  <2>1. PICK e : e = <<<<"Vulnerability", n, slug(vulnRefs(i)[n].id)>>, "vulnerability">>
    OBVIOUS
  <2>2. Element(i, e) /\ e[1] = vulnElement(n, vulnRefs(i)[n])
    BY <2>1 DEF Element, vulnElement
  <2> QED
    BY <1>5, <2>2
<1>10. \A n \in DOMAIN vulnRefs(i) : vulnRefs(i)[n].pkg \in ids
  BY <1>6, FindingsNumbered
<1>11. d.rootElement \in ids
  <2>1. d.rootElement = ref(i.root)
    BY <1>1 DEF spdx
  <2> QED
    BY <1>6, <2>1 DEF Linked
<1>12. d.suppliers \subseteq ids
  <2>1. d.suppliers = {suppliedBy(c) : c \in {x \in i.components : x.provider # ""}}
    BY <1>1 DEF spdx
  <2> QED
    BY <1>7, <2>1
<1>13. ASSUME NEW r \in d.rels PROVE r[1] \in ids /\ r[3] \in ids
  <2>1. r \in {<<ref(x.from), x.type, ref(x.to)>> : x \in i.relationships} \cup licenseEdges(i) \cup vulnRels(i)
    BY <1>1 DEF spdx, relationships
  <2>2. CASE r \in {<<ref(x.from), x.type, ref(x.to)>> : x \in i.relationships}
    BY <1>6, <2>2 DEF Linked
  <2>3. CASE r \in licenseEdges(i)
    <3>1. PICK c \in i.components : r \in {<<ref(c.id), "hasDeclaredLicense", licenseID(l)>> : l \in c.licenses}
      BY <2>3 DEF licenseEdges
    <3>2. PICK l \in c.licenses : r = <<ref(c.id), "hasDeclaredLicense", licenseID(l)>>
      BY <3>1
    <3> QED
      BY <1>6, <1>8, <3>2
  <2>4. CASE r \in vulnRels(i)
    <3>1. PICK n \in DOMAIN vulnRefs(i) :
            r = IF vulnRefs(i)[n].vex THEN <<vulnElement(n, vulnRefs(i)[n]), "vex-affected", vulnRefs(i)[n].pkg>>
                ELSE <<vulnRefs(i)[n].pkg, "hasAssociatedVulnerability", vulnElement(n, vulnRefs(i)[n])>>
      BY <2>4 DEF vulnRels
    <3>2. PICK x, y : x = vulnElement(n, vulnRefs(i)[n]) /\ y = vulnRefs(i)[n].pkg /\ x \in ids /\ y \in ids
      BY <1>9, <1>10
    <3>3. r = <<x, "vex-affected", y>> \/ r = <<y, "hasAssociatedVulnerability", x>>
      BY <3>1, <3>2
    <3> QED
      BY <3>2, <3>3
  <2> QED
    BY <2>1, <2>2, <2>3, <2>4
<1> QED
  BY <1>1, <1>3, <1>4, <1>11, <1>12, <1>13

(* x is at place n. *)
At(s, n, x) == n \in 1 .. Len(s) /\ s[n] = x

(* What comes after a list leaves it where it is, what comes before moves it. *)
LEMMA EndToEnd ==
  ASSUME NEW s, IsSeq(s), NEW t, IsSeq(t)
  PROVE  /\ IsSeq(s \o t) /\ Len(s \o t) = Len(s) + Len(t)
         /\ \A n, x : At(s, n, x) => At(s \o t, n, x)
         /\ \A n, x : At(t, n, x) => At(s \o t, Len(s) + n, x)
<1>1. PICK R, Q : R = Range(s) /\ Q = Range(t) /\ s \in Seq(R) /\ t \in Seq(Q)
  BY DEF IsSeq
<1>a. PICK S : S = R \cup Q
  OBVIOUS
<1>b. R \subseteq S /\ Q \subseteq S
  BY <1>a
<1>2. s \in Seq(S) /\ t \in Seq(S)
  BY <1>1, <1>b
<1>3. PICK m, k : m = Len(s) /\ k = Len(t) /\ m \in Nat /\ k \in Nat
  BY <1>2, LenProperties
<1>4. PICK u : u = s \o t
  OBVIOUS
<1>5. u \in Seq(S) /\ Len(u) = m + k /\ \A i \in 1 .. m + k : u[i] = IF i <= m THEN s[i] ELSE t[i - m]
  BY <1>2, <1>3, <1>4, ConcatProperties
<1>6. ASSUME NEW n, NEW x, At(s, n, x) PROVE At(u, n, x)
  <2>1. n \in 1 .. m /\ s[n] = x /\ n \in 1 .. m + k /\ n <= m
    BY <1>3, <1>6 DEF At
  <2> QED
    BY <1>5, <2>1 DEF At
<1>7. ASSUME NEW n, NEW x, At(t, n, x) PROVE At(u, m + n, x)
  <2>1. n \in 1 .. k /\ t[n] = x
    BY <1>3, <1>7 DEF At
  <2>2. PICK j : j = m + n /\ j \in 1 .. m + k /\ ~(j <= m) /\ j - m = n
    BY <1>3, <2>1
  <2> QED
    BY <1>5, <2>1, <2>2 DEF At
<1>8. IsSeq(u)
  BY <1>5, SeqIs
<1> QED
  BY <1>3, <1>4, <1>5, <1>6, <1>7, <1>8

(* The index of a rule is its place, after the tables before its own. *)
LEMMA IndexIs ==
  ASSUME NEW S, IsFiniteSet(S), NEW s, s = SetToSeq(S), NEW offset, NEW x \in S
  PROVE  \E n : At(s, n, x) /\ indexFrom(s, offset)[x] = offset + n
<1>1. PICK m \in DOMAIN s : s[m] = x
  BY SeqOfAll
<1>2. PICK n : n = CHOOSE k \in DOMAIN s : s[k] = x
  OBVIOUS
<1>3. n \in DOMAIN s /\ s[n] = x
  BY <1>1, <1>2
<1>4. DOMAIN s = 1 .. Len(s)
  BY SeqOfSet
<1>5. x \in Range(s)
  BY <1>3 DEF Range
<1>6. indexFrom(s, offset)[x] = offset + n
  BY <1>2, <1>5 DEF indexFrom
<1> QED
  BY <1>3, <1>4, <1>6 DEF At

(* The tables of a SARIF log, and which rules they list. *)
Seen(cs) == {<<"detector", o.detector>> : o \in UNION {Range(c.occs) : c \in cs}}
Risky(cs) == {<<"risk", r.id>> : r \in UNION {c.risks : c \in cs}}
Vulnerable(cs) == {<<"cve", v.id>> : v \in UNION {c.vulns : c \in cs}}
Ending(cs) == {eolRuleID(c) : c \in {x \in cs : eolReportable(x)}}

(* They are finite. *)
LEMMA FiniteTables ==
  ASSUME NEW cs, IsFiniteSet(cs),
         \A c \in cs : IsFiniteSet(c.vulns) /\ IsFiniteSet(c.risks) /\ IsSeq(c.occs)
  PROVE  IsFiniteSet(Seen(cs)) /\ IsFiniteSet(Risky(cs)) /\ IsFiniteSet(Vulnerable(cs)) /\ IsFiniteSet(Ending(cs))
<1>1. ASSUME NEW g, DOMAIN g = cs, \A c \in cs : IsFiniteSet(g[c])
      PROVE  IsFiniteSet(UNION {g[c] : c \in cs})
  <2>1. PICK all : all = {g[c] : c \in cs}
    OBVIOUS
  <2>2. IsFiniteSet(all)
    BY <1>1, <2>1, FiniteImage
  <2>3. \A T \in all : IsFiniteSet(T)
    BY <1>1, <2>1
  <2> QED
    BY <2>1, <2>2, <2>3, FS_UNION
<1>2. IsFiniteSet(Seen(cs))
  <2>1. PICK g : g = [c \in cs |-> Range(c.occs)]
    OBVIOUS
  <2>2. DOMAIN g = cs /\ \A c \in cs : g[c] = Range(c.occs)
    BY <2>1
  <2>3. \A c \in cs : IsFiniteSet(g[c])
    BY <2>2, FiniteRange
  <2>4. PICK S : S = UNION {g[c] : c \in cs} /\ IsFiniteSet(S)
    BY <1>1, <2>2, <2>3
  <2>5. S = UNION {Range(c.occs) : c \in cs}
    BY <2>2, <2>4
  <2>6. PICK h : h = [o \in S |-> <<"detector", o.detector>>]
    OBVIOUS
  <2>7. DOMAIN h = S /\ Seen(cs) = {h[o] : o \in S}
    BY <2>5, <2>6 DEF Seen
  <2>8. IsFiniteSet({h[o] : o \in S})
    BY <2>4, <2>7, FiniteImage
  <2> QED
    BY <2>7, <2>8
<1>3. IsFiniteSet(Risky(cs))
  <2>1. PICK g : g = [c \in cs |-> c.risks]
    OBVIOUS
  <2>2. DOMAIN g = cs /\ \A c \in cs : g[c] = c.risks
    BY <2>1
  <2>4. PICK S : S = UNION {g[c] : c \in cs} /\ IsFiniteSet(S)
    BY <1>1, <2>2
  <2>5. S = UNION {c.risks : c \in cs}
    BY <2>2, <2>4
  <2>6. PICK h : h = [r \in S |-> <<"risk", r.id>>]
    OBVIOUS
  <2>7. DOMAIN h = S /\ Risky(cs) = {h[r] : r \in S}
    BY <2>5, <2>6 DEF Risky
  <2>8. IsFiniteSet({h[r] : r \in S})
    BY <2>4, <2>7, FiniteImage
  <2> QED
    BY <2>7, <2>8
<1>4. IsFiniteSet(Vulnerable(cs))
  <2>1. PICK g : g = [c \in cs |-> c.vulns]
    OBVIOUS
  <2>2. DOMAIN g = cs /\ \A c \in cs : g[c] = c.vulns
    BY <2>1
  <2>4. PICK S : S = UNION {g[c] : c \in cs} /\ IsFiniteSet(S)
    BY <1>1, <2>2
  <2>5. S = UNION {c.vulns : c \in cs}
    BY <2>2, <2>4
  <2>6. PICK h : h = [v \in S |-> <<"cve", v.id>>]
    OBVIOUS
  <2>7. DOMAIN h = S /\ Vulnerable(cs) = {h[v] : v \in S}
    BY <2>5, <2>6 DEF Vulnerable
  <2>8. IsFiniteSet({h[v] : v \in S})
    BY <2>4, <2>7, FiniteImage
  <2> QED
    BY <2>7, <2>8
<1>5. IsFiniteSet(Ending(cs))
  <2>1. PICK S : S = {x \in cs : eolReportable(x)}
    OBVIOUS
  <2>2. IsFiniteSet(S)
    BY <2>1, FS_Subset
  <2>6. PICK h : h = [c \in S |-> eolRuleID(c)]
    OBVIOUS
  <2>7. DOMAIN h = S /\ Ending(cs) = {h[c] : c \in S}
    BY <2>1, <2>6 DEF Ending
  <2>8. IsFiniteSet({h[c] : c \in S})
    BY <2>2, <2>7, FiniteImage
  <2> QED
    BY <2>7, <2>8
<1> QED
  BY <1>2, <1>3, <1>4, <1>5

(* The index of every result is the place of its rule in the whole. *)
LEMMA ResultsIndexed ==
  ASSUME NEW i, NEW t, NEW cs, cs = scannedComponents(i, t), IsFiniteSet(cs),
         \A c \in cs : IsFiniteSet(c.vulns) /\ IsFiniteSet(c.risks) /\ IsSeq(c.occs)
  PROVE  \A r \in sarif(i, t).results : sarif(i, t).rules[r.index] = r.rule
<1>1. PICK d, r, v, e : d = detectorRules(cs) /\ r = riskRules(cs) /\ v = cveRules(cs) /\ e = eolRules(cs)
  OBVIOUS
<1>2. d = SetToSeq(Seen(cs)) /\ r = SetToSeq(Risky(cs)) /\ v = SetToSeq(Vulnerable(cs)) /\ e = SetToSeq(Ending(cs))
  BY <1>1 DEF detectorRules, riskRules, cveRules, eolRules, Seen, Risky, Vulnerable, Ending
<1>3. IsFiniteSet(Seen(cs)) /\ IsFiniteSet(Risky(cs)) /\ IsFiniteSet(Vulnerable(cs)) /\ IsFiniteSet(Ending(cs))
  BY FiniteTables
<1>4. IsSeq(d) /\ IsSeq(r) /\ IsSeq(v) /\ IsSeq(e)
  BY <1>2, <1>3, Listed
<1>5. PICK rules : rules = d \o r \o v \o e
  OBVIOUS
<1>6. PICK dr : dr = d \o r
  OBVIOUS
<1>7. PICK drv : drv = dr \o v
  OBVIOUS
<1>8. rules = drv \o e
  BY <1>5, <1>6, <1>7
<1>9. IsSeq(dr) /\ Len(dr) = Len(d) + Len(r) /\ (\A n, x : At(d, n, x) => At(dr, n, x)) /\ (\A n, x : At(r, n, x) => At(dr, Len(d) + n, x))
  BY <1>4, <1>6, EndToEnd
<1>10. IsSeq(drv) /\ Len(drv) = Len(dr) + Len(v) /\ (\A n, x : At(dr, n, x) => At(drv, n, x)) /\ (\A n, x : At(v, n, x) => At(drv, Len(dr) + n, x))
  BY <1>4, <1>7, <1>9, EndToEnd
<1>11. (\A n, x : At(drv, n, x) => At(rules, n, x)) /\ (\A n, x : At(e, n, x) => At(rules, Len(drv) + n, x))
  BY <1>4, <1>8, <1>10, EndToEnd
<1>12. Len(d) \in Nat /\ Len(r) \in Nat /\ Len(v) \in Nat
  BY <1>4, SeqIs DEF IsSeq
<1>13. PICK a, b, c : a = Len(d) /\ b = Len(d) + Len(r) /\ c = Len(d) + Len(r) + Len(v)
  OBVIOUS
<1>14. b = Len(dr) /\ c = Len(drv)
  BY <1>9, <1>10, <1>13
<1>15. \A x \in Seen(cs) : rules[indexFrom(d, 0)[x]] = x
  <2> TAKE x \in Seen(cs)
  <2>1. PICK n : At(d, n, x) /\ indexFrom(d, 0)[x] = 0 + n
    BY <1>2, <1>3, IndexIs
  <2>2. At(rules, n, x)
    BY <1>9, <1>10, <1>11, <2>1
  <2>3. n \in Nat
    BY <1>12, <2>1 DEF At
  <2> QED
    BY <2>1, <2>2, <2>3 DEF At
<1>16. \A x \in Risky(cs) : rules[indexFrom(r, a)[x]] = x
  <2> TAKE x \in Risky(cs)
  <2>1. PICK n : At(r, n, x) /\ indexFrom(r, a)[x] = a + n
    BY <1>2, <1>3, IndexIs
  <2>2. At(rules, a + n, x)
    BY <1>9, <1>10, <1>11, <1>13, <2>1
  <2> QED
    BY <2>1, <2>2 DEF At
<1>17. \A x \in Vulnerable(cs) : rules[indexFrom(v, b)[x]] = x
  <2> TAKE x \in Vulnerable(cs)
  <2>1. PICK n : At(v, n, x) /\ indexFrom(v, b)[x] = b + n
    BY <1>2, <1>3, IndexIs
  <2>2. At(rules, b + n, x)
    BY <1>10, <1>11, <1>14, <2>1
  <2> QED
    BY <2>1, <2>2 DEF At
<1>18. \A x \in Ending(cs) : rules[indexFrom(e, c)[x]] = x
  <2> TAKE x \in Ending(cs)
  <2>1. PICK n : At(e, n, x) /\ indexFrom(e, c)[x] = c + n
    BY <1>2, <1>3, IndexIs
  <2>2. At(rules, c + n, x)
    BY <1>11, <1>14, <2>1
  <2> QED
    BY <2>1, <2>2 DEF At
<1>19. \A rule, ix, k, at : result(rule, ix, k, at).rule = rule /\ result(rule, ix, k, at).index = ix[rule]
  BY DEF result
<1>20. ASSUME NEW ix, NEW y \in detectorResults(cs, ix) PROVE y.index = ix[y.rule] /\ y.rule \in Seen(cs)
  <2>1. PICK k \in cs : y \in {result(<<"detector", o.detector>>, ix, k, {o}) : o \in Range(k.occs)}
    BY <1>20 DEF detectorResults
  <2>2. PICK o \in Range(k.occs) : y = result(<<"detector", o.detector>>, ix, k, {o})
    BY <2>1
  <2>3. <<"detector", o.detector>> \in Seen(cs)
    BY <2>1, <2>2 DEF Seen
  <2> QED
    BY <1>19, <2>2, <2>3
<1>21. ASSUME NEW ix, NEW y \in riskResults(cs, ix) PROVE y.index = ix[y.rule] /\ y.rule \in Risky(cs)
  <2>1. PICK k \in cs : y \in {result(<<"risk", x.id>>, ix, k, {x.occurrence}) : x \in k.risks}
    BY <1>21 DEF riskResults
  <2>2. PICK x \in k.risks : y = result(<<"risk", x.id>>, ix, k, {x.occurrence})
    BY <2>1
  <2>3. <<"risk", x.id>> \in Risky(cs)
    BY <2>1, <2>2 DEF Risky
  <2> QED
    BY <1>19, <2>2, <2>3
<1>22. ASSUME NEW ix, NEW y \in cveResults(cs, ix) PROVE y.index = ix[y.rule] /\ y.rule \in Vulnerable(cs)
  <2>1. PICK k \in cs : y \in {result(<<"cve", x.id>>, ix, k, primaryLocations(k)) : x \in k.vulns}
    BY <1>22 DEF cveResults
  <2>2. PICK x \in k.vulns : y = result(<<"cve", x.id>>, ix, k, primaryLocations(k))
    BY <2>1
  <2>3. <<"cve", x.id>> \in Vulnerable(cs)
    BY <2>1, <2>2 DEF Vulnerable
  <2> QED
    BY <1>19, <2>2, <2>3
<1>23. ASSUME NEW ix, NEW y \in eolResults(cs, ix) PROVE y.index = ix[y.rule] /\ y.rule \in Ending(cs)
  <2>1. PICK k \in cs : eolReportable(k) /\ y = result(eolRuleID(k), ix, k, Range(k.occs))
    BY <1>23 DEF eolResults
  <2>2. eolRuleID(k) \in Ending(cs)
    BY <2>1 DEF Ending
  <2> QED
    BY <1>19, <2>1, <2>2
<1>24. /\ sarif(i, t).rules = rules
       /\ sarif(i, t).results = detectorResults(cs, indexFrom(d, 0)) \cup riskResults(cs, indexFrom(r, a))
                                \cup cveResults(cs, indexFrom(v, b)) \cup eolResults(cs, indexFrom(e, c))
  BY <1>1, <1>5, <1>13 DEF sarif
<1> QED
  BY <1>15, <1>16, <1>17, <1>18, <1>20, <1>21, <1>22, <1>23, <1>24

(* So the SARIF log of a listable inventory has no index astray. *)
LEMMA SARIFResolves ==
  ASSUME NEW i, Listable(i), NEW t \in BOOLEAN
  PROVE  \A r \in sarif(i, t).results : sarif(i, t).rules[r.index] = r.rule
<1>1. PICK cs : cs = scannedComponents(i, t)
  OBVIOUS
<1>2. PICK kept : kept = {c \in Others(i) : c.kind # "application" /\ (t \/ ~c.testOnly)}
  OBVIOUS
<1>3. cs = IF t THEN kept ELSE {pruned(c) : c \in kept}
  BY <1>1, <1>2 DEF scannedComponents
<1>4. kept \subseteq i.components
  BY <1>2 DEF Others
<1>5. IsFiniteSet(kept)
  BY <1>4, FS_Subset DEF Listable
<1>6. \A c \in kept : IsFiniteSet(c.vulns) /\ IsFiniteSet(c.risks) /\ IsSeq(c.occs) /\ DOMAIN c = Facts \cup {"vulns", "eol"}
  BY <1>4 DEF Listable
<1>7. ASSUME NEW c \in kept
      PROVE  LET p == pruned(c) IN IsFiniteSet(p.vulns) /\ IsFiniteSet(p.risks) /\ IsSeq(p.occs)
  <2>1. PICK p, os, rs : p = pruned(c) /\ os = ProductionOccurrences(c.occs) /\ rs = productionRisks(c.risks)
    OBVIOUS
  <2>2. p = [c EXCEPT !.occs = os, !.risks = rs]
    BY <2>1 DEF pruned
  <2>3. {"vulns", "occs", "risks"} \subseteq DOMAIN c
    BY <1>6 DEF Facts
  <2>4. p.vulns = c.vulns /\ p.occs = os /\ p.risks = rs
    BY <2>2, <2>3
  <2>5. IsSeq(os)
    BY <1>6, <2>1, Production
  <2>6. rs \in SUBSET c.risks
    BY <2>1 DEF productionRisks
  <2>7. IsFiniteSet(rs)
    BY <1>6, <2>6, FS_Subset
  <2> QED
    BY <1>6, <2>1, <2>4, <2>5, <2>7
<1>8. IsFiniteSet({pruned(c) : c \in kept})
  <2>1. PICK g : g = [c \in kept |-> pruned(c)]
    OBVIOUS
  <2>2. DOMAIN g = kept /\ {pruned(c) : c \in kept} = {g[c] : c \in kept}
    BY <2>1
  <2> QED
    BY <1>5, <2>2, FiniteImage
<1>9. IsFiniteSet(cs) /\ \A c \in cs : IsFiniteSet(c.vulns) /\ IsFiniteSet(c.risks) /\ IsSeq(c.occs)
  BY <1>3, <1>5, <1>6, <1>7, <1>8
<1> QED
  BY <1>1, <1>9, ResultsIndexed

-----------------------------------------------------------------------------
(* The document of one scan *)

(* No two suppliers, and no two licenses, that fs names have one fragment. *)
Nameable(fs) == OwnSlugs({Lookup(Vendor, f.claim.provider) : f \in fs}, Licenses(fs))

(* Fewer names have fragments of their own too. *)
LEMMA FewerSlugs ==
  ASSUME NEW V, NEW L, OwnSlugs(V, L), NEW W, W \subseteq V \cup {""}, NEW M, M \subseteq L
  PROVE  OwnSlugs(W, M)
<1>1. ASSUME NEW p \in W, p # ""
      PROVE  slug(p) # "airom" /\ \A q \in W : slug(p) = slug(q) /\ q # "" => p = q
  <2>1. p \in V /\ \A q \in W : q # "" => q \in V
    BY <1>1
  <2> QED
    BY <1>1, <2>1 DEF OwnSlugs
<1>2. \A l, m \in M : slug(l) = slug(m) => l = m
  BY DEF OwnSlugs
<1> QED
  BY <1>1, <1>2 DEF OwnSlugs

(* What a component has of the draft it was finished from. *)
LEMMA FinishedOf ==
  ASSUME NEW k, NEW d
  PROVE  LET c == finish(k, d) IN /\ c.id = k /\ c.provider = k.provider /\ c.licenses = d.licenses
                                  /\ c.risks = d.risks /\ c.occs = dedupOccs(d.occs)
  BY DEF finish

(* A component of the document is one of these, with the advisories of its day. *)
LEMMA Documented ==
  ASSUME FlowInv, phase = "done"
  PROVE  /\ doc.root = RootKey /\ doc.relationships = inv.relationships /\ Annotable(doc)
         /\ \A b \in inv.components : \E c \in doc.components : c.id = b.id
         /\ \A c \in doc.components : \E k \in DOMAIN drafts :
              /\ c.id = k /\ c.provider = k.provider /\ c.licenses = drafts[k].licenses
              /\ c.risks = drafts[k].risks /\ c.occs = dedupOccs(drafts[k].occs)
              /\ c.vulns = Marked(Answers(c, world), world)
<1>1. inv = inventory(drafts, edges) /\ doc = Annotated(inv, world)
  BY DEF FlowInv
<1>2. Assembled(inv) /\ inv.root = RootKey
  BY <1>1, AssembledInventory
<1>3. /\ Annotable(doc) /\ doc.root = RootKey /\ doc.relationships = inv.relationships
      /\ \A b \in inv.components : \E c \in doc.components : Alike(b, c)
      /\ \A c \in doc.components : (\E b \in inv.components : Alike(b, c)) /\ c.vulns = Marked(Answers(c, world), world)
  BY <1>1, <1>2, AnnotatedIs
<1>4. \A b, c : Alike(b, c) => /\ c.id = b.id /\ c.provider = b.provider /\ c.licenses = b.licenses
                               /\ c.risks = b.risks /\ c.occs = b.occs
  BY DEF Alike, Facts
<1>5. ASSUME NEW c \in doc.components
      PROVE  \E k \in DOMAIN drafts :
              /\ c.id = k /\ c.provider = k.provider /\ c.licenses = drafts[k].licenses
              /\ c.risks = drafts[k].risks /\ c.occs = dedupOccs(drafts[k].occs)
              /\ c.vulns = Marked(Answers(c, world), world)
  <2>1. PICK b \in inv.components : Alike(b, c)
    BY <1>3
  <2>2. b \in inventory(drafts, edges).components
    BY <1>1
  <2>3. PICK k \in DOMAIN drafts : b = finish(k, drafts[k])
    BY <2>2, Finished
  <2>4. /\ b.id = k /\ b.provider = k.provider /\ b.licenses = drafts[k].licenses
        /\ b.risks = drafts[k].risks /\ b.occs = dedupOccs(drafts[k].occs)
    BY <2>3, FinishedOf
  <2>5. c.vulns = Marked(Answers(c, world), world)
    BY <1>3
  <2> QED
    BY <1>4, <2>1, <2>4, <2>5
<1> QED
  BY <1>3, <1>4, <1>5

(* The drafts are finitely many. *)
LEMMA FiniteDrafts == ASSUME NamesInv PROVE IsFiniteSet(DOMAIN drafts)
<1>1. IsFiniteSet(Keys(absorbed))
  BY DEF NamesInv, KeyInv
<1>2. CASE stage = "absorb"
  BY <1>1, <1>2 DEF NamesInv, KeyInv
<1>3. CASE stage # "absorb"
  <2>1. DOMAIN drafts = (Keys(absorbed) \ DOMAIN redirects) \cup {RootKey}
    BY <1>3 DEF NamesInv, KeyInv
  <2>2. IsFiniteSet(Keys(absorbed) \ DOMAIN redirects)
    BY <1>1, FS_Subset
  <2> QED
    BY <2>1, <2>2, FS_AddElement
<1> QED
  BY <1>2, <1>3

(* So everything in the document can be listed. *)
LEMMA ListableNow ==
  ASSUME NamesInv, DraftInv, RiskInv, FlowInv, phase = "done"
  PROVE  Listable(doc)
<1>1. OwnIds(doc) /\ \A c \in doc.components : DOMAIN c = Facts \cup {"vulns", "eol"}
  BY Documented DEF Annotable
<1>2. IsFiniteSet(doc.components)
  <2>1. PICK ids : ids = {c.id : c \in doc.components}
    OBVIOUS
  <2>2. ids \subseteq DOMAIN drafts
    BY <2>1, Documented
  <2>3. IsFiniteSet(ids)
    BY <2>2, FiniteDrafts, FS_Subset
  <2>4. PICK g : g = [x \in ids |-> CHOOSE c \in doc.components : c.id = x]
    OBVIOUS
  <2>5. \A x \in ids : g[x] \in doc.components /\ g[x].id = x
    BY <2>1, <2>4
  <2>6. \A c \in doc.components : c.id \in ids /\ g[c.id] = c
    BY <1>1, <2>1, <2>5 DEF OwnIds
  <2>7. doc.components = {g[x] : x \in ids}
    BY <2>5, <2>6
  <2>8. DOMAIN g = ids
    BY <2>4
  <2> QED
    BY <2>3, <2>7, <2>8, FiniteImage
<1>3. ASSUME NEW c \in doc.components PROVE IsFiniteSet(c.vulns) /\ IsFiniteSet(c.risks) /\ IsSeq(c.occs)
  <2>1. PICK k \in DOMAIN drafts : /\ c.risks = drafts[k].risks /\ c.occs = dedupOccs(drafts[k].occs)
                                   /\ c.vulns = Marked(Answers(c, world), world)
    BY Documented
  <2>2. IsFiniteSet(c.vulns)
    <3>1. world \in Worlds
      BY DEF FlowInv
    <3> QED
      BY <2>1, <3>1, FiniteAdvisories
  <2>3. IsFiniteSet(c.risks)
    BY <2>1 DEF RiskInv, Modest
  <2>4. IsSeq(drafts[k].occs)
    BY DEF DraftInv, Placed, WellMade
  <2>5. IsSeq(c.occs)
    BY <2>1, <2>4, SightingsStay
  <2> QED
    BY <2>2, <2>3, <2>5
<1> QED
  BY <1>1, <1>2, <1>3 DEF Listable

(* The scan target is in it, and so are both ends of every relation. *)
LEMMA LinkedNow ==
  ASSUME NamesInv, KindInv, DraftInv, ParamInv, BuiltInv, GivenInv, RelationInv, FlowInv, phase = "done",
         \A fs \in Candidates : Relatable(fs)
  PROVE  Linked(doc)
<1>1. stage = "done" /\ inv = inventory(drafts, edges)
  BY DEF FlowInv
<1>2. \E b \in inv.components : b.id = RootKey
  <2>1. RootKey \in DOMAIN drafts
    BY <1>1 DEF NamesInv, KeyInv
  <2>2. ~Bindable(Range(absorbed), RootKey)
    BY DEF Bindable, RootKey
  <2>3. finish(RootKey, drafts[RootKey]) \in inv.components
    BY <1>1, <2>1, <2>2, Present
  <2> QED
    BY <2>3, FinishedOf
<1>3. \A e \in inv.relationships : \E b \in inv.components : b.id = e.from
  <2>1. RelationsAccounted
    BY RelationsNow
  <2>2. \A e \in inv.relationships : e.from \in {c.id : c \in inv.components}
    BY <1>1, <2>1 DEF RelationsAccounted
  <2> QED
    BY <2>2
<1>4. \A e \in inv.relationships : \E b \in inv.components : b.id = e.to
  <2>1. RelationsAccounted
    BY RelationsNow
  <2>2. \A e \in inv.relationships : e.to \in {c.id : c \in inv.components}
    BY <1>1, <2>1 DEF RelationsAccounted
  <2> QED
    BY <2>2
<1>5. /\ doc.root = RootKey /\ doc.relationships = inv.relationships
      /\ \A b \in inv.components : \E c \in doc.components : c.id = b.id
  BY Documented
<1> QED
  BY <1>2, <1>3, <1>4, <1>5 DEF Linked

(* Its suppliers and licenses are those of findings. *)
LEMMA NamedNow ==
  ASSUME NamesInv, RiskInv, GivenInv, FlowInv, phase = "done", \A fs \in Candidates : Nameable(fs)
  PROVE  OwnSlugs(Vendors(doc), Granted(doc))
<1>1. PICK fs \in Candidates : Range(absorbed) \subseteq fs
  BY DEF GivenInv
<1>2. PICK V, L : V = {Lookup(Vendor, f.claim.provider) : f \in fs} /\ L = Licenses(fs)
  OBVIOUS
<1>3. OwnSlugs(V, L)
  BY <1>2 DEF Nameable
<1>4. ASSUME NEW k \in DOMAIN drafts PROVE k.provider \in V \cup {""} /\ drafts[k].licenses \subseteq L
  <2>a. drafts[k].licenses \subseteq Licenses(Range(absorbed))
    BY DEF RiskInv, Modest
  <2>1. drafts[k].licenses \subseteq L
    BY <1>1, <1>2, <2>a DEF Licenses
  <2>2. k \in Keys(absorbed) \cup {RootKey}
    BY DEF NamesInv, KeyInv
  <2>3. CASE k = RootKey
    BY <2>1, <2>3 DEF RootKey
  <2>4. CASE k \in Keys(absorbed)
    <3>1. PICK f \in Range(absorbed) : k = normalizeKey(f.claim)
      BY <2>4 DEF Keys
    <3>2. k.provider = Lookup(Vendor, f.claim.provider)
      BY <3>1 DEF normalizeKey
    <3> QED
      BY <1>1, <1>2, <2>1, <3>2
  <2> QED
    BY <2>2, <2>3, <2>4
<1>5. Vendors(doc) \subseteq V \cup {""}
  <2>1. \A c \in doc.components : \E k \in DOMAIN drafts : c.provider = k.provider
    BY Documented
  <2>2. \A c \in doc.components : c.provider \in V \cup {""}
    BY <1>4, <2>1
  <2> QED
    BY <2>2 DEF Vendors
<1>6. Granted(doc) \subseteq L
  <2>1. \A c \in doc.components : \E k \in DOMAIN drafts : c.licenses = drafts[k].licenses
    BY Documented
  <2>2. \A c \in doc.components : c.licenses \subseteq L
    BY <1>4, <2>1
  <2> QED
    BY <2>2 DEF Granted
<1> QED
  BY <1>3, <1>5, <1>6, FewerSlugs

(* So all references in the documents written from it resolve. *)
LEMMA ResolveNow ==
  ASSUME NamesInv, KindInv, DraftInv, ParamInv, BuiltInv, GivenInv, RelationInv, RiskInv, FlowInv,
         \A fs \in Candidates : Relatable(fs) /\ Nameable(fs)
  PROVE  DocumentsResolve
<1> SUFFICES ASSUME phase = "done" PROVE ReferencesResolve(doc)
  BY DEF DocumentsResolve
<1>1. Listable(doc) /\ Linked(doc) /\ OwnSlugs(Vendors(doc), Granted(doc))
  BY ListableNow, LinkedNow, NamedNow
<1>2. cdxReferenced(cdx(doc)) \subseteq cdxMinted(cdx(doc))
  BY <1>1, CycloneDXResolves
<1>3. LET d == spdx(doc)  ids == {e[1] : e \in d.elements}
      IN /\ \A e, f \in d.elements : e[1] = f[1] => e = f
         /\ {d.rootElement} \cup d.suppliers \cup (UNION {{r[1], r[3]} : r \in d.rels}) \subseteq ids
  BY <1>1, SPDXResolves
<1>4. \A t \in BOOLEAN : \A r \in sarif(doc, t).results : sarif(doc, t).rules[r.index] = r.rule
  BY <1>1, SARIFResolves
<1> QED
  BY <1>2, <1>3, <1>4 DEF ReferencesResolve

(* At every stage a draft has finitely many risks, and only licenses, versions
   and a download location that findings absorbed so far declare (absorb,
   addRisk, mergeDraft). *)
THEOREM Risks == ISpec => []RiskInv
<1>1. IInit => RiskInv
  BY InitRisks DEF IInit
<1> QED
  BY <1>1, Names, Drafts, RiskStep, PTL DEF ISpec

(* Every reference in the CycloneDX, SPDX and SARIF documents of any scan, in
   any world, names exactly one element of its document: as long as no relation
   is of or about a configuration value that dropBoundAIConfig may take away,
   and the suppliers and the licenses found have identifier fragments of their
   own. *)
THEOREM ReferencesAllResolve ==
  ASSUME \A fs \in Candidates : Relatable(fs) /\ Nameable(fs)
  PROVE  ISpec => []DocumentsResolve
<1>1. IInit => GivenInv /\ RelationInv /\ BuiltInv
  BY InitRelations DEF IInit
<1>2. /\ NamesInv /\ KindInv /\ DraftInv /\ ParamInv /\ BuiltInv /\ GivenInv /\ RelationInv /\ RiskInv /\ FlowInv
      => DocumentsResolve
  BY ResolveNow
<1> QED
  BY <1>1, <1>2, Names, Kinds, Drafts, Flow, Risks, BuiltStep, GivenStep, RelationStep, PTL DEF ISpec

-----------------------------------------------------------------------------
(* The order of texts, and what is first in it *)

(* A text of the lexicon has a place of its own. *)
LEMMA InOrder ==
  ASSUME NEW a \in Range(Lexicon)
  PROVE  PlaceOf(a) \in Nat /\ Lexicon[PlaceOf(a)] = a
<1>1. DOMAIN Lexicon = 1 .. Len(Lexicon) /\ Len(Lexicon) \in Nat
  BY AssembleAssumption, LenProperties
<1>2. \E n \in DOMAIN Lexicon : Lexicon[n] = a
  BY DEF Range
<1>3. PlaceOf(a) \in DOMAIN Lexicon /\ Lexicon[PlaceOf(a)] = a
  BY <1>2 DEF PlaceOf
<1> QED
  BY <1>1, <1>3

(* So some text comes first. *)
LEMMA LeastIs ==
  ASSUME NEW S, S \subseteq Range(Lexicon), S # {}
  PROVE  LeastText(S) \in S
<1>1. PICK T : T = {PlaceOf(a) : a \in S}
  OBVIOUS
<1>2. \A a \in S : PlaceOf(a) \in Nat /\ Lexicon[PlaceOf(a)] = a
  BY InOrder
<1>3. T \in SUBSET Nat /\ T # {}
  BY <1>1, <1>2
<1>4. PICK n \in T : \A m \in T : n <= m
  BY <1>3, First
<1>5. PICK a \in S : PlaceOf(a) = n
  BY <1>1
<1>6. \A b \in S \ {a} : TextBefore(a, b)
  <2> TAKE b \in S \ {a}
  <2>1. PlaceOf(b) \in T /\ PlaceOf(b) # n
    BY <1>1, <1>2, <1>5
  <2>2. n <= PlaceOf(b) /\ n \in Nat /\ PlaceOf(b) \in Nat
    BY <1>3, <1>4, <2>1
  <2>3. n < PlaceOf(b)
    BY <2>1, <2>2
  <2> QED
    BY <1>5, <2>3 DEF TextBefore
<1> QED
  BY <1>6 DEF LeastText

(* A set of confidences has a largest. *)
LEMMA LargestIs ==
  ASSUME NEW S, S # {}, \A x \in S : x \in 0 .. 1000
  PROVE  LargestOf(S) \in S /\ \A y \in S : y <= LargestOf(S)
<1>1. \A x \in S : x \in Nat /\ 1000 - x \in Nat /\ 1000 - (1000 - x) = x
  <2> TAKE x \in S
  <2>1. x \in 0 .. 1000
    OBVIOUS
  <2> QED
    BY <2>1
<1>2. PICK T : T = {1000 - x : x \in S}
  OBVIOUS
<1>3. T \in SUBSET Nat /\ T # {}
  BY <1>1, <1>2
<1>4. PICK n \in T : \A m \in T : n <= m
  BY <1>3, First
<1>5. PICK x \in S : n = 1000 - x
  BY <1>2
<1>6. ASSUME NEW y \in S PROVE y <= x
  <2>1. 1000 - x <= 1000 - y
    <3>1. 1000 - y \in T
      BY <1>2
    <3>2. n <= 1000 - y
      BY <1>4, <3>1
    <3> QED
      BY <1>5, <3>2
  <2>2. x \in Nat /\ y \in Nat
    BY <1>1
  <2> QED
    BY <2>1, <2>2
<1>7. \E z \in S : \A y \in S : y <= z
  BY <1>6
<1> QED
  BY <1>7 DEF LargestOf

(* The surest value of some claims is the value of one. *)
LEMMA WinnerIs ==
  ASSUME NEW claims, Certain(claims), \A c \in Range(claims) : c.value \in Range(Lexicon)
  PROVE  winner(claims) = "" \/ \E c \in Range(claims) : winner(claims) = c.value
<1> SUFFICES ASSUME claims # <<>> PROVE \E c \in Range(claims) : winner(claims) = c.value
  BY DEF winner
<1>1. PICK S : S = {c.confidence : c \in Range(claims)}
  OBVIOUS
<1>2. \A x \in S : x \in 0 .. 1000
  <2> TAKE x \in S
  <2>1. PICK c \in Range(claims) : x = c.confidence
    BY <1>1
  <2> QED
    BY <2>1 DEF Certain
<1>3. \E c : c \in Range(claims)
  BY SomeIn DEF Certain
<1>4. S # {}
  BY <1>1, <1>3
<1>5. PICK top : top = LargestOf(S) /\ top \in S
  BY <1>2, <1>4, LargestIs
<1>6. PICK V : V = {c.value : c \in {x \in Range(claims) : x.confidence = top}}
  OBVIOUS
<1>7. winner(claims) = LeastText(V)
  BY <1>1, <1>5, <1>6 DEF winner
<1>8. V # {} /\ V \subseteq Range(Lexicon)
  BY <1>1, <1>5, <1>6
<1>9. LeastText(V) \in V
  BY <1>8, LeastIs
<1> QED
  BY <1>6, <1>7, <1>9

(* Of the sightings of a component one is the first. *)
LEMMA FirstSighting ==
  ASSUME NEW c, IsSeq(c.occs), c.occs # <<>>, \A o \in Range(c.occs) : o.path \in Range(Lexicon) /\ o.line \in Nat
  PROVE  primaryLocations(c) # {} /\ primaryLocations(c) \subseteq Range(c.occs)
<1>1. PICK s, N : s = c.occs /\ N = Len(s) /\ N \in Nat /\ DOMAIN s = 1 .. N
  BY LenProperties DEF IsSeq
<1>2. N # 0
  BY <1>1, EmptySeq DEF IsSeq
<1>3. \A k \in 1 .. N : s[k].path \in Range(Lexicon) /\ s[k].line \in Nat
  BY <1>1 DEF Range
<1>4. \A k \in 1 .. N : PlaceOf(s[k].path) \in Nat /\ Lexicon[PlaceOf(s[k].path)] = s[k].path
  BY <1>3, InOrder
<1>5. PICK P : P = {PlaceOf(s[k].path) : k \in 1 .. N}
  OBVIOUS
<1>6. P \in SUBSET Nat /\ P # {}
  BY <1>1, <1>2, <1>4, <1>5
<1>7. PICK p \in P : \A q \in P : p <= q
  BY <1>6, First
<1>8. PICK K : K = {k \in 1 .. N : PlaceOf(s[k].path) = p}
  OBVIOUS
<1>9. PICK L : L = {s[k].line : k \in K}
  OBVIOUS
<1>10. L \in SUBSET Nat /\ L # {}
  BY <1>3, <1>5, <1>8, <1>9
<1>11. PICK l \in L : \A m \in L : l <= m
  BY <1>10, First
<1>12. PICK J : J = {k \in K : s[k].line = l}
  OBVIOUS
<1>13. J \in SUBSET Nat /\ J # {}
  BY <1>1, <1>8, <1>9, <1>12
<1>14. PICK n \in J : \A m \in J : n <= m
  BY <1>13, First
<1>15. n \in 1 .. N /\ n \in Nat /\ PlaceOf(s[n].path) = p /\ s[n].line = l
  BY <1>8, <1>12
<1>16. ASSUME NEW m \in (1 .. N) \ {n}
       PROVE  \/ TextBefore(s[n].path, s[m].path)
              \/ s[n].path = s[m].path /\ (s[n].line < s[m].line \/ (s[n].line = s[m].line /\ n < m))
  <2>1. PlaceOf(s[m].path) \in P /\ PlaceOf(s[m].path) \in Nat /\ p \in Nat
    BY <1>4, <1>5, <1>6
  <2>2. p <= PlaceOf(s[m].path)
    BY <1>7, <2>1
  <2>3. CASE p # PlaceOf(s[m].path)
    <3>1. p < PlaceOf(s[m].path)
      BY <2>1, <2>2, <2>3
    <3> QED
      BY <1>15, <3>1 DEF TextBefore
  <2>4. CASE p = PlaceOf(s[m].path)
    <3>1. s[n].path = s[m].path
      BY <1>4, <1>15, <2>4
    <3>2. m \in K
      BY <1>8, <2>4
    <3>3. s[m].line \in L /\ s[m].line \in Nat /\ l \in Nat
      BY <1>3, <1>9, <1>10, <3>2
    <3>4. l <= s[m].line
      BY <1>11, <3>3
    <3>5. CASE l # s[m].line
      <4>1. l < s[m].line
        BY <3>3, <3>4, <3>5
      <4> QED
        BY <1>15, <3>1, <4>1
    <3>6. CASE l = s[m].line
      <4>1. m \in J
        BY <1>12, <3>2, <3>6
      <4>2. n <= m /\ m \in Nat /\ m # n
        BY <1>14, <4>1
      <4>3. n < m
        BY <1>15, <4>2
      <4> QED
        BY <1>15, <3>1, <3>6, <4>3
    <3> QED
      BY <3>5, <3>6
  <2> QED
    BY <2>3, <2>4
<1>17. primaryLocations(c) = {s[k] : k \in {j \in 1 .. N : \A m \in (1 .. N) \ {j} :
         \/ TextBefore(s[j].path, s[m].path)
         \/ s[j].path = s[m].path /\ (s[j].line < s[m].line \/ (s[j].line = s[m].line /\ j < m))}}
  BY <1>1 DEF primaryLocations
<1>18. s[n] \in primaryLocations(c)
  BY <1>15, <1>16, <1>17
<1>19. \A x \in primaryLocations(c) : \E k \in 1 .. N : x = s[k]
  BY <1>17
<1>20. primaryLocations(c) \subseteq Range(c.occs)
  BY <1>1, <1>19 DEF Range
<1> QED
  BY <1>18, <1>20

-----------------------------------------------------------------------------
(* One story *)

(* What the components of an annotated inventory are like. *)
Coherent(i) ==
  /\ Listable(i) /\ OwnIds(i)
  /\ \A r \in i.relationships : r.type \in RelationTypes
  /\ \A c \in i.components :
       /\ c.version # NoAssertion /\ c.downloadLocation # NoAssertion
       /\ \A v, u \in c.vulns : v.id = u.id => v = u
       /\ c.kind = "application" => c.vulns = {} /\ ~eolReportable(c)
       /\ c.kind # "application" => c.occs # <<>>
       /\ c.id = i.root => c.kind = "application"
       /\ c.testOnly <=> c.occs # <<>> /\ \A o \in Range(c.occs) : o.path \in TestPaths
       /\ \A l \in c.identity : l.field \in {"name", "version", "versionConstraint"}
       /\ \A o \in Range(c.occs) : o.path \in Range(Lexicon) /\ o.line \in Nat
(* Those of them that are shipped, what SARIF makes of one, and what the table does. *)
KeptOnes(i) == {c \in i.components : c.kind # "application" /\ ~c.testOnly}
Shortened(c) == [c EXCEPT !.occs = ProductionOccurrences(@)]

(* SARIF and the table speak of the same components. *)
LEMMA Spoken ==
  ASSUME NEW i, Coherent(i)
  PROVE  /\ scannedComponents(i, FALSE) = {pruned(c) : c \in KeptOnes(i)}
         /\ tableComponents(i, FALSE) = {Shortened(c) : c \in KeptOnes(i)}
<1>1. {c \in Others(i) : c.kind # "application" /\ (FALSE \/ ~c.testOnly)} = KeptOnes(i)
  BY DEF Others, Root, KeptOnes, Coherent
<1>2. scannedComponents(i, FALSE) = {pruned(c) : c \in {x \in Others(i) : x.kind # "application" /\ (FALSE \/ ~x.testOnly)}}
  BY DEF scannedComponents
<1>3. tableComponents(i, FALSE) = {[c EXCEPT !.occs = ProductionOccurrences(@)] : c \in KeptOnes(i)}
  BY DEF tableComponents, KeptOnes
<1> QED
  BY <1>1, <1>2, <1>3 DEF Shortened

(* Its sightings in tests are left out, and one stays. *)
LEMMA StillSeen ==
  ASSUME NEW i, Coherent(i), NEW c \in KeptOnes(i)
  PROVE  LET s == ProductionOccurrences(c.occs) IN
         /\ IsSeq(s) /\ s # <<>> /\ Range(s) \subseteq Range(c.occs) /\ \A o \in Range(s) : o.path \notin TestPaths
<1>1. PICK s : s = ProductionOccurrences(c.occs)
  OBVIOUS
<1>2. c \in i.components /\ c.kind # "application" /\ ~c.testOnly
  BY DEF KeptOnes
<1>3. IsSeq(c.occs) /\ c.occs # <<>> /\ ~(c.occs # <<>> /\ \A o \in Range(c.occs) : o.path \in TestPaths)
  BY <1>2 DEF Coherent, Listable
<1>4. PICK o \in Range(c.occs) : o.path \notin TestPaths
  BY <1>3
<1>5. IsSeq(s) /\ Range(s) = {x \in Range(c.occs) : x.path \notin TestPaths}
  BY <1>1, <1>3, Production
<1>6. o \in Range(s)
  BY <1>4, <1>5
<1>7. s # <<>>
  BY <1>6 DEF Range
<1> QED
  BY <1>1, <1>5, <1>7

(* Either keeps everything else of a component. *)
LEMMA PrunedIs ==
  ASSUME NEW c, DOMAIN c = Facts \cup {"vulns", "eol"}
  PROVE  /\ LET p == pruned(c) IN
            /\ p.id = c.id /\ p.kind = c.kind /\ p.name = c.name /\ p.provider = c.provider /\ p.vulns = c.vulns
            /\ p.eol = c.eol /\ p.occs = ProductionOccurrences(c.occs) /\ p.risks = productionRisks(c.risks)
         /\ LET p == Shortened(c) IN
            /\ p.id = c.id /\ p.kind = c.kind /\ p.vulns = c.vulns /\ p.eol = c.eol
            /\ p.occs = ProductionOccurrences(c.occs)
<1>1. PICK os, rs : os = ProductionOccurrences(c.occs) /\ rs = productionRisks(c.risks)
  OBVIOUS
<1>2. PICK p, q : p = pruned(c) /\ q = Shortened(c)
  OBVIOUS
<1>3. p = [c EXCEPT !.occs = os, !.risks = rs] /\ q = [c EXCEPT !.occs = os]
  BY <1>1, <1>2 DEF pruned, Shortened
<1>4. {"id", "kind", "name", "provider", "vulns", "eol", "occs", "risks"} \subseteq DOMAIN c
  BY DEF Facts
<1>5. /\ p.id = c.id /\ p.kind = c.kind /\ p.name = c.name /\ p.provider = c.provider /\ p.vulns = c.vulns
      /\ p.eol = c.eol /\ p.occs = os /\ p.risks = rs
  BY <1>3, <1>4
<1>6. /\ q.id = c.id /\ q.kind = c.kind /\ q.vulns = c.vulns /\ q.eol = c.eol /\ q.occs = os
  BY <1>3, <1>4
<1> QED
  BY <1>1, <1>2, <1>5, <1>6

(* A component is found by its identity. *)
LEMMA FoundById ==
  ASSUME NEW i, OwnIds(i), NEW c \in i.components
  PROVE  ComponentOf(i, ref(c.id)[2]) = c
<1>1. ref(c.id)[2] = c.id
  BY DEF ref
<1> QED
  BY <1>1 DEF ComponentOf, OwnIds

(* CycloneDX states every risk and every advisory of its components. *)
LEMMA VulnerabilitiesAre ==
  ASSUME NEW i
  PROVE  \A y : y \in cdx(i).vulnerabilities <=>
                  \E c \in i.components : \/ \E r \in c.risks : y = OwnIn(ref(c.id), r)
                                          \/ \E v \in c.vulns : y = TheirsIn(ref(c.id), v)
<1> DEFINE own(c)    == {OwnIn(ref(c.id), r) : r \in c.risks}
           theirs(c) == {TheirsIn(ref(c.id), v) : v \in c.vulns}
<1>1. cdx(i).vulnerabilities = UNION {own(c) \cup theirs(c) : c \in i.components}
  BY DEF cdx, buildVulnerabilities, OwnIn, TheirsIn, NoUpgrade
<1>4. \A c, y : y \in own(c) <=> \E r \in c.risks : y = OwnIn(ref(c.id), r)
  OBVIOUS
<1>5. \A c, y : y \in theirs(c) <=> \E v \in c.vulns : y = TheirsIn(ref(c.id), v)
  OBVIOUS
<1> HIDE DEF own, theirs
<1>6. \A y : y \in cdx(i).vulnerabilities <=> \E c \in i.components : y \in own(c) \/ y \in theirs(c)
  BY <1>1
<1> QED
  BY <1>4, <1>5, <1>6

(* CycloneDX and SPDX state the same advisories of the same components. *)
LEMMA SameAdvisories ==
  ASSUME NEW i, Listable(i)
  PROVE  {<<v.id, v.affects, v.fixed>> : v \in cdx(i).vulnerabilities} = spdx(i).about
<1>1. PICK V, F : V = cdx(i).vulnerabilities /\ F = Range(vulnRefs(i))
  OBVIOUS
<1>2. spdx(i).about = {<<v.id, v.pkg, v.fixedIn>> : v \in F}
  BY <1>1 DEF spdx
<1>3. ASSUME NEW y \in V PROVE \E x \in F : y.id = x.id /\ y.affects = x.pkg /\ y.fixed = x.fixedIn
  <2>1. PICK c \in i.components : \/ \E r \in c.risks : y = OwnIn(ref(c.id), r)
                                  \/ \E v \in c.vulns : y = TheirsIn(ref(c.id), v)
    BY <1>1, VulnerabilitiesAre
  <2>2. ASSUME NEW r \in c.risks, y = OwnIn(ref(c.id), r) PROVE \E x \in F : y.id = x.id /\ y.affects = x.pkg /\ y.fixed = x.fixedIn
    <3>1. PICK x : x = RiskNo(ref(c.id), r)
      OBVIOUS
    <3>2. x \in F
      BY <1>1, <3>1, FindingsListed
    <3>3. x.id = r.id /\ x.pkg = ref(c.id) /\ x.fixedIn = NoUpgrade
      BY <3>1, RiskNoSays
    <3>4. y.id = r.id /\ y.affects = ref(c.id) /\ y.fixed = NoUpgrade
      BY <2>2, OwnInSays
    <3> QED
      BY <3>2, <3>3, <3>4
  <2>3. ASSUME NEW v \in c.vulns, y = TheirsIn(ref(c.id), v) PROVE \E x \in F : y.id = x.id /\ y.affects = x.pkg /\ y.fixed = x.fixedIn
    <3>1. PICK x : x = AdviceNo(ref(c.id), v)
      OBVIOUS
    <3>2. x \in F
      BY <1>1, <3>1, FindingsListed
    <3>3. x.id = v.id /\ x.pkg = ref(c.id) /\ x.fixedIn = v.fixed
      BY <3>1, AdviceNoSays
    <3>4. y.id = v.id /\ y.affects = ref(c.id) /\ y.fixed = v.fixed
      BY <2>3, TheirsInSays
    <3> QED
      BY <3>2, <3>3, <3>4
  <2> QED
    BY <2>1, <2>2, <2>3
<1>4. ASSUME NEW x \in F PROVE \E y \in V : y.id = x.id /\ y.affects = x.pkg /\ y.fixed = x.fixedIn
  <2>1. PICK c \in i.components : \/ \E r \in c.risks : x = RiskNo(ref(c.id), r)
                                  \/ \E v \in c.vulns : x = AdviceNo(ref(c.id), v)
    BY <1>1, FindingsListed
  <2>2. ASSUME NEW r \in c.risks, x = RiskNo(ref(c.id), r) PROVE \E y \in V : y.id = x.id /\ y.affects = x.pkg /\ y.fixed = x.fixedIn
    <3>1. PICK y : y = OwnIn(ref(c.id), r)
      OBVIOUS
    <3>2. y \in V
      BY <1>1, <3>1, VulnerabilitiesAre
    <3>3. x.id = r.id /\ x.pkg = ref(c.id) /\ x.fixedIn = NoUpgrade
      BY <2>2, RiskNoSays
    <3>4. y.id = r.id /\ y.affects = ref(c.id) /\ y.fixed = NoUpgrade
      BY <3>1, OwnInSays
    <3> QED
      BY <3>2, <3>3, <3>4
  <2>3. ASSUME NEW v \in c.vulns, x = AdviceNo(ref(c.id), v) PROVE \E y \in V : y.id = x.id /\ y.affects = x.pkg /\ y.fixed = x.fixedIn
    <3>1. PICK y : y = TheirsIn(ref(c.id), v)
      OBVIOUS
    <3>2. y \in V
      BY <1>1, <3>1, VulnerabilitiesAre
    <3>3. x.id = v.id /\ x.pkg = ref(c.id) /\ x.fixedIn = v.fixed
      BY <2>3, AdviceNoSays
    <3>4. y.id = v.id /\ y.affects = ref(c.id) /\ y.fixed = v.fixed
      BY <3>1, TheirsInSays
    <3> QED
      BY <3>2, <3>3, <3>4
  <2> QED
    BY <2>1, <2>2, <2>3
<1> QED
  BY <1>1, <1>2, <1>3, <1>4

(* The fields of a SARIF result. *)
LEMMA ResultIs ==
  ASSUME NEW rule, NEW ix, NEW c, NEW at, NEW x, x = result(rule, ix, c, at)
  PROVE  x.rule = rule /\ x.component = ref(c.id) /\ x.at = at
  BY DEF result

(* The components SARIF speaks of, and its alerts. *)
SpokenOf(i) == scannedComponents(i, FALSE)
AlertsOf(i) == sarif(i, FALSE).results

(* What an alert is about, and where it points. *)
LEMMA AlertsAre ==
  ASSUME NEW i, NEW cs, cs = SpokenOf(i), NEW results, results = AlertsOf(i),
         NEW y \in results
  PROVE  \E c \in cs : y.component = ref(c.id) /\
            \/ y.rule[1] = "detector" /\ \E o \in Range(c.occs) : y.at = {o}
            \/ y.rule[1] = "risk" /\ \E k \in c.risks : y.at = {k.occurrence}
            \/ y.rule[1] = "cve" /\ y.at = primaryLocations(c) /\ \E u \in c.vulns : y.rule[2] = u.id
            \/ y.rule[1] = "eol" /\ y.at = Range(c.occs) /\ eolReportable(c)
<1>1. PICK d, r, v, e : /\ d = indexFrom(detectorRules(cs), 0) /\ r = indexFrom(riskRules(cs), Len(detectorRules(cs)))
                        /\ v = indexFrom(cveRules(cs), Len(detectorRules(cs)) + Len(riskRules(cs)))
                        /\ e = indexFrom(eolRules(cs), Len(detectorRules(cs)) + Len(riskRules(cs)) + Len(cveRules(cs)))
  OBVIOUS
<1>3. results = detectorResults(cs, d) \cup riskResults(cs, r) \cup cveResults(cs, v) \cup eolResults(cs, e)
  BY <1>1 DEF sarif, AlertsOf, SpokenOf
<1>5. \A c : eolRuleID(c)[1] = "eol"
  BY DEF eolRuleID
<1>6. ASSUME NEW x \in detectorResults(cs, d)
      PROVE  \E c \in cs : x.component = ref(c.id) /\ x.rule[1] = "detector" /\ \E o \in Range(c.occs) : x.at = {o}
  <2>1. PICK c \in cs : \E o \in Range(c.occs) : x = result(<<"detector", o.detector>>, d, c, {o})
    BY DEF detectorResults
  <2>2. PICK o \in Range(c.occs) : x = result(<<"detector", o.detector>>, d, c, {o})
    BY <2>1
  <2>3. x.rule = <<"detector", o.detector>> /\ x.component = ref(c.id) /\ x.at = {o}
    BY <2>2, ResultIs
  <2>4. x.rule[1] = "detector"
    BY <2>3
  <2>5. \E p \in Range(c.occs) : x.at = {p}
    BY <2>3
  <2> QED
    BY <2>3, <2>4, <2>5
<1>7. ASSUME NEW x \in riskResults(cs, r)
      PROVE  \E c \in cs : x.component = ref(c.id) /\ x.rule[1] = "risk" /\ \E k \in c.risks : x.at = {k.occurrence}
  <2>1. PICK c \in cs : \E k \in c.risks : x = result(<<"risk", k.id>>, r, c, {k.occurrence})
    BY DEF riskResults
  <2>2. PICK k \in c.risks : x = result(<<"risk", k.id>>, r, c, {k.occurrence})
    BY <2>1
  <2>3. x.rule = <<"risk", k.id>> /\ x.component = ref(c.id) /\ x.at = {k.occurrence}
    BY <2>2, ResultIs
  <2>4. x.rule[1] = "risk"
    BY <2>3
  <2>5. \E p \in c.risks : x.at = {p.occurrence}
    BY <2>3
  <2> QED
    BY <2>3, <2>4, <2>5
<1>8. ASSUME NEW x \in cveResults(cs, v)
      PROVE  \E c \in cs : /\ x.component = ref(c.id) /\ x.rule[1] = "cve" /\ x.at = primaryLocations(c)
                           /\ \E u \in c.vulns : x.rule[2] = u.id
  <2>1. PICK c \in cs : \E u \in c.vulns : x = result(<<"cve", u.id>>, v, c, primaryLocations(c))
    BY DEF cveResults
  <2>2. PICK u \in c.vulns : x = result(<<"cve", u.id>>, v, c, primaryLocations(c))
    BY <2>1
  <2>3. x.rule = <<"cve", u.id>> /\ x.component = ref(c.id) /\ x.at = primaryLocations(c)
    BY <2>2, ResultIs
  <2>4. x.rule[1] = "cve" /\ x.rule[2] = u.id
    BY <2>3
  <2> QED
    BY <2>3, <2>4
<1>9. ASSUME NEW x \in eolResults(cs, e)
      PROVE  \E c \in cs : x.component = ref(c.id) /\ x.rule[1] = "eol" /\ x.at = Range(c.occs) /\ eolReportable(c)
  <2>1. PICK c \in cs : eolReportable(c) /\ x = result(eolRuleID(c), e, c, Range(c.occs))
    BY DEF eolResults
  <2>2. x.rule = eolRuleID(c) /\ x.component = ref(c.id) /\ x.at = Range(c.occs)
    BY <2>1, ResultIs
  <2> QED
    BY <1>5, <2>1, <2>2
<1> QED
  BY <1>3, <1>6, <1>7, <1>8, <1>9

(* An advisory of a component that SARIF speaks of raises one, and so does the
   end of its life. *)
LEMMA AlertsRaised ==
  ASSUME NEW i, NEW cs, cs = SpokenOf(i), NEW results, results = AlertsOf(i),
         NEW c \in cs
  PROVE  /\ \A u \in c.vulns : \E x \in results : x.rule = <<"cve", u.id>> /\ x.component = ref(c.id)
         /\ eolReportable(c) => \E x \in results : x.rule[1] = "eol" /\ x.component = ref(c.id)
<1>1. PICK d, r, v, e : /\ d = indexFrom(detectorRules(cs), 0) /\ r = indexFrom(riskRules(cs), Len(detectorRules(cs)))
                        /\ v = indexFrom(cveRules(cs), Len(detectorRules(cs)) + Len(riskRules(cs)))
                        /\ e = indexFrom(eolRules(cs), Len(detectorRules(cs)) + Len(riskRules(cs)) + Len(cveRules(cs)))
  OBVIOUS
<1>3. results = detectorResults(cs, d) \cup riskResults(cs, r) \cup cveResults(cs, v) \cup eolResults(cs, e)
  BY <1>1 DEF sarif, AlertsOf, SpokenOf
<1>5. eolRuleID(c)[1] = "eol"
  BY DEF eolRuleID
<1>10. ASSUME NEW u \in c.vulns
       PROVE  \E x \in results : x.rule = <<"cve", u.id>> /\ x.component = ref(c.id)
  <2>1. PICK x : x = result(<<"cve", u.id>>, v, c, primaryLocations(c))
    OBVIOUS
  <2>2. x.rule = <<"cve", u.id>> /\ x.component = ref(c.id)
    BY <2>1, ResultIs
  <2>3. x \in cveResults(cs, v)
    <3> DEFINE of(b) == {result(<<"cve", w.id>>, v, b, primaryLocations(b)) : w \in b.vulns}
    <3>1. x \in of(c)
      BY <2>1
    <3>2. cveResults(cs, v) = UNION {of(b) : b \in cs}
      BY DEF cveResults
    <3> HIDE DEF of
    <3> QED
      BY <3>1, <3>2
  <2> QED
    BY <1>3, <2>2, <2>3
<1>11. ASSUME eolReportable(c)
       PROVE  \E x \in results : x.rule[1] = "eol" /\ x.component = ref(c.id)
  <2>1. PICK x : x = result(eolRuleID(c), e, c, Range(c.occs))
    OBVIOUS
  <2>2. x.rule = eolRuleID(c) /\ x.component = ref(c.id)
    BY <2>1, ResultIs
  <2>3. x \in eolResults(cs, e)
    BY <1>11, <2>1 DEF eolResults
  <2> QED
    BY <1>3, <1>5, <2>2, <2>3
<1> QED
  BY <1>10, <1>11

(* A license edge of SPDX, and what either format states of a component. *)
Far(edge) == edge[3]
Edge(c, l) == <<ref(c.id), "hasDeclaredLicense", licenseID(l)>>
SaidOf(x) ==
  [ref |-> x.bomRef, version |-> x.version, constraint |-> x.constraint, purl |-> x.purl, hashes |-> x.hashes,
   from |-> x.externalRefs, testOnly |-> x.excluded, licenses |-> {licenseID(l) : l \in x.licenses},
   occurrences |-> x.occurrences]
StatedOf(p, rels) ==
  [ref |-> p.identity.spdxId, version |-> Told(p.identity.packageVersion), constraint |-> p.identity.constraint,
   purl |-> p.identity.purl, hashes |-> p.identity.verifiedUsing,
   from |-> {Told(p.provenance.downloadLocation)} \ {""}, testOnly |-> p.provenance.testOnly,
   licenses |-> {r[3] : r \in {x \in rels : x[1] = p.identity.spdxId /\ x[2] = "hasDeclaredLicense"}},
   occurrences |-> p.overflow.occurrences]
FactsOf(c) ==
  [ref |-> ref(c.id), version |-> c.version, constraint |-> c.versionConstraint, purl |-> c.purl, hashes |-> c.hashes,
   from |-> {c.downloadLocation} \ {""}, testOnly |-> c.testOnly, licenses |-> {licenseID(l) : l \in c.licenses},
   occurrences |-> Len(c.occs)]

(* The license edges of a package are those of its licenses. *)
LEMMA LicensesDeclared ==
  ASSUME NEW i, Coherent(i), NEW c \in i.components,
         NEW M, M = {x \in spdx(i).rels : x[1] = ref(c.id) /\ x[2] = "hasDeclaredLicense"}
  PROVE  {Far(r) : r \in M} = {licenseID(l) : l \in c.licenses}
<1> DEFINE R == {<<ref(r.from), r.type, ref(r.to)>> : r \in i.relationships}
           V == vulnRels(i)
           L == licenseEdges(i)
<1>1. \A x \in R : \E r \in i.relationships : x = <<ref(r.from), r.type, ref(r.to)>>
  OBVIOUS
<1>2. spdx(i).rels = R \cup L \cup V
  BY DEF spdx, relationships
<1>3. ASSUME NEW x \in R PROVE x[2] # "hasDeclaredLicense"
  <2>1. PICK r \in i.relationships : x = <<ref(r.from), r.type, ref(r.to)>>
    BY <1>1
  <2>2. x[2] = r.type
    BY <2>1
  <2>3. r.type \in RelationTypes
    BY DEF Coherent
  <2> QED
    BY <2>2, <2>3 DEF RelationTypes
<1>4. ASSUME NEW x \in V PROVE x[2] # "hasDeclaredLicense"
  <2>1. PICK n \in DOMAIN vulnRefs(i) :
          x = LET v == vulnRefs(i)[n] IN
              IF v.vex THEN <<vulnElement(n, v), "vex-affected", v.pkg>>
              ELSE <<v.pkg, "hasAssociatedVulnerability", vulnElement(n, v)>>
    BY DEF vulnRels
  <2>2. PICK v : v = vulnRefs(i)[n]
    OBVIOUS
  <2>3. \/ x = <<vulnElement(n, v), "vex-affected", v.pkg>>
        \/ x = <<v.pkg, "hasAssociatedVulnerability", vulnElement(n, v)>>
    BY <2>1, <2>2
  <2>4. x[2] = "vex-affected" \/ x[2] = "hasAssociatedVulnerability"
    BY <2>3
  <2> QED
    BY <2>4
<1>5. \A x : x \in L <=> \E d \in i.components : \E l \in d.licenses : x = Edge(d, l)
  <2> DEFINE of(d) == {Edge(d, l) : l \in d.licenses}
  <2>1. L = UNION {of(d) : d \in i.components}
    BY DEF licenseEdges, Edge
  <2>2. \A d, x : x \in of(d) <=> \E l \in d.licenses : x = Edge(d, l)
    OBVIOUS
  <2> HIDE DEF of
  <2>3. \A x : x \in L <=> \E d \in i.components : x \in of(d)
    BY <2>1
  <2> QED
    BY <2>2, <2>3
<1> HIDE DEF R, V, L
<1>6. \A d, l, x : x = Edge(d, l) => x[1] = ref(d.id) /\ x[2] = "hasDeclaredLicense" /\ Far(x) = licenseID(l)
  BY DEF Edge, Far
<1>7. \A d \in i.components : ref(d.id) = ref(c.id) => d = c
  <2>1. \A d : ref(d.id)[2] = d.id
    BY DEF ref
  <2> QED
    BY <2>1 DEF Coherent, OwnIds
<1>9. \A x : x \in M <=> \E l \in c.licenses : x = Edge(c, l)
  BY <1>2, <1>3, <1>4, <1>5, <1>6, <1>7
<1>10. \A l \in c.licenses : \E x \in M : Far(x) = licenseID(l)
  BY <1>6, <1>9
<1>11. \A x \in M : \E l \in c.licenses : Far(x) = licenseID(l)
  BY <1>6, <1>9
<1> QED
  BY <1>10, <1>11

(* CycloneDX and SPDX state the same facts of every component. *)
LEMMA SameFacts ==
  ASSUME NEW i, Coherent(i)
  PROVE  InCycloneDX(cdx(i)) = InSPDX(spdx(i))
<1>1. PICK d, s : d = cdx(i) /\ s = spdx(i)
  OBVIOUS
<1>2. /\ d.component = {cdxComponent(i, c) : c \in Root(i)}
      /\ d.components = {cdxComponent(i, c) : c \in Others(i)}
  BY <1>1 DEF cdx
<1>3. Root(i) \cup Others(i) = i.components
  BY DEF Root, Others
<1>4. PICK X : X = d.component \cup d.components
  OBVIOUS
<1>5. X = {cdxComponent(i, c) : c \in i.components}
  BY <1>2, <1>3, <1>4
<1>6. s.packages = {pkg(c) : c \in i.components}
  BY <1>1 DEF spdx
<1>7. InCycloneDX(d) = {SaidOf(x) : x \in X}
  BY <1>4 DEF InCycloneDX, SaidOf
<1>8. InSPDX(s) = {StatedOf(p, s.rels) : p \in s.packages}
  BY DEF InSPDX, StatedOf
<1>9. ASSUME NEW c \in i.components PROVE SaidOf(cdxComponent(i, c)) = FactsOf(c)
  <2>1. PICK x : x = cdxComponent(i, c)
    OBVIOUS
  <2>2. /\ x.bomRef = ref(c.id) /\ x.version = c.version /\ x.constraint = c.versionConstraint /\ x.purl = c.purl
        /\ x.hashes = c.hashes /\ x.externalRefs = {c.downloadLocation} \ {""} /\ x.excluded = c.testOnly
        /\ x.licenses = c.licenses /\ x.occurrences = Len(c.occs)
    BY <2>1 DEF cdxComponent, distribution
  <2> QED
    BY <2>1, <2>2 DEF SaidOf, FactsOf
<1>10. ASSUME NEW c \in i.components PROVE StatedOf(pkg(c), s.rels) = FactsOf(c)
  <2>1. PICK p, a, b, o : p = pkg(c) /\ a = identity(c) /\ b = provenance(c) /\ o = overflow(c)
    OBVIOUS
  <2>2. p.identity = a /\ p.provenance = b /\ p.overflow = o
    BY <2>1 DEF pkg
  <2>3. /\ a.spdxId = ref(c.id) /\ a.packageVersion = asserted(c, c.version) /\ a.constraint = c.versionConstraint
        /\ a.purl = c.purl /\ a.verifiedUsing = c.hashes
    BY <2>1 DEF identity
  <2>4. b.downloadLocation = asserted(c, c.downloadLocation) /\ b.testOnly = c.testOnly
    BY <2>1 DEF provenance
  <2>5. o.occurrences = Len(c.occs)
    BY <2>1 DEF overflow
  <2>6. c.version # NoAssertion /\ c.downloadLocation # NoAssertion
    BY DEF Coherent
  <2>7. \A t : t # NoAssertion => Told(asserted(c, t)) = t
    BY DEF Told, asserted, NoAssertion
  <2>8. Told(a.packageVersion) = c.version /\ Told(b.downloadLocation) = c.downloadLocation
    BY <2>3, <2>4, <2>6, <2>7
  <2>9. PICK M : M = {x \in spdx(i).rels : x[1] = ref(c.id) /\ x[2] = "hasDeclaredLicense"}
    OBVIOUS
  <2>10. {Far(r) : r \in M} = {licenseID(l) : l \in c.licenses}
    BY <2>9, LicensesDeclared
  <2>11. StatedOf(p, s.rels) =
           [ref |-> ref(c.id), version |-> c.version, constraint |-> c.versionConstraint, purl |-> c.purl,
            hashes |-> c.hashes, from |-> {c.downloadLocation} \ {""}, testOnly |-> c.testOnly, licenses |-> {Far(r) : r \in M},
            occurrences |-> Len(c.occs)]
    BY <1>1, <2>2, <2>3, <2>4, <2>5, <2>8, <2>9 DEF StatedOf, Far
  <2> QED
    BY <2>1, <2>10, <2>11 DEF FactsOf
<1>11. InCycloneDX(d) = {FactsOf(c) : c \in i.components}
  BY <1>5, <1>7, <1>9
<1>12. InSPDX(s) = {FactsOf(c) : c \in i.components}
  BY <1>6, <1>8, <1>10
<1> QED
  BY <1>1, <1>11, <1>12

(* An advisory of CycloneDX about a shipped component. *)
OfShipped(i, v) == ~v.own /\ ~ComponentOf(i, v.affects[2]).testOnly
(* It is one of a component that SARIF and the table keep. *)
LEMMA AdvisoriesShipped ==
  ASSUME NEW i, Coherent(i)
  PROVE  \A y : y \in cdx(i).vulnerabilities /\ OfShipped(i, y)
                  <=> \E c \in KeptOnes(i) : \E v \in c.vulns : y = TheirsIn(ref(c.id), v)
<1>1. ASSUME NEW y \in cdx(i).vulnerabilities, OfShipped(i, y)
      PROVE  \E c \in KeptOnes(i) : \E v \in c.vulns : y = TheirsIn(ref(c.id), v)
  <2>1. PICK c \in i.components : \/ \E r \in c.risks : y = OwnIn(ref(c.id), r)
                                  \/ \E v \in c.vulns : y = TheirsIn(ref(c.id), v)
    BY VulnerabilitiesAre
  <2>2. ASSUME NEW r, y = OwnIn(ref(c.id), r) PROVE FALSE
    <3>1. y.own
      BY <2>2, OwnInSays
    <3> QED
      BY <1>1, <3>1 DEF OfShipped
  <2>3. PICK v \in c.vulns : y = TheirsIn(ref(c.id), v)
    BY <2>1, <2>2
  <2>4. y.affects = ref(c.id)
    BY <2>3, TheirsInSays
  <2>5. ComponentOf(i, ref(c.id)[2]) = c
    BY FoundById DEF Coherent
  <2>6. ~c.testOnly
    BY <1>1, <2>4, <2>5 DEF OfShipped
  <2>7. c.kind # "application"
    BY <2>3 DEF Coherent
  <2> QED
    BY <2>3, <2>6, <2>7 DEF KeptOnes
<1>2. ASSUME NEW y, NEW c \in KeptOnes(i), NEW v \in c.vulns, y = TheirsIn(ref(c.id), v)
      PROVE  y \in cdx(i).vulnerabilities /\ OfShipped(i, y)
  <2>1. c \in i.components /\ ~c.testOnly
    BY DEF KeptOnes
  <2>2. y \in cdx(i).vulnerabilities
    BY <1>2, <2>1, VulnerabilitiesAre
  <2>3. ~y.own /\ y.affects = ref(c.id)
    BY <1>2, TheirsInSays
  <2>4. ComponentOf(i, ref(c.id)[2]) = c
    BY <2>1, FoundById DEF Coherent
  <2> QED
    BY <2>1, <2>2, <2>3, <2>4 DEF OfShipped
<1> QED
  BY <1>1, <1>2

(* The alerts about advisories are those of CycloneDX about shipped components. *)
LEMMA SameAlerts ==
  ASSUME NEW i, Coherent(i)
  PROVE  {<<r.rule[2], r.component>> : r \in {x \in sarif(i, FALSE).results : x.rule[1] = "cve"}}
           = {<<v.id, v.affects>> : v \in {x \in cdx(i).vulnerabilities : OfShipped(i, x)}}
<1>1. PICK cs, K, R, V : /\ cs = scannedComponents(i, FALSE) /\ K = KeptOnes(i) /\ R = sarif(i, FALSE).results
                         /\ V = {x \in cdx(i).vulnerabilities : OfShipped(i, x)}
  OBVIOUS
<1>10. cs = SpokenOf(i) /\ R = AlertsOf(i)
  BY <1>1 DEF SpokenOf, AlertsOf
<1>2. cs = {pruned(c) : c \in K}
  BY <1>1, Spoken
<1>3. \A y : y \in V <=> \E c \in K : \E v \in c.vulns : y = TheirsIn(ref(c.id), v)
  BY <1>1, AdvisoriesShipped
<1>4. ASSUME NEW c \in K PROVE pruned(c).id = c.id /\ pruned(c).vulns = c.vulns
  <2>1. DOMAIN c = Facts \cup {"vulns", "eol"}
    BY <1>1 DEF KeptOnes, Coherent, Listable
  <2> QED
    BY <2>1, PrunedIs
<1>5. ASSUME NEW x \in R, x.rule[1] = "cve"
      PROVE  \E y \in V : x.rule[2] = y.id /\ x.component = y.affects
  <2>0. PICK p \in cs : x.component = ref(p.id) /\
           \/ x.rule[1] = "detector" /\ \E o \in Range(p.occs) : x.at = {o}
           \/ x.rule[1] = "risk" /\ \E r \in p.risks : x.at = {r.occurrence}
           \/ x.rule[1] = "cve" /\ x.at = primaryLocations(p) /\ \E v \in p.vulns : x.rule[2] = v.id
           \/ x.rule[1] = "eol" /\ x.at = Range(p.occs) /\ eolReportable(p)
    BY <1>10, AlertsAre
  <2>1. x.component = ref(p.id) /\ \E v \in p.vulns : x.rule[2] = v.id
    BY <1>5, <2>0
  <2>2. PICK c \in K : p = pruned(c)
    BY <1>2
  <2>3. PICK v \in c.vulns : x.rule[2] = v.id
    BY <1>4, <2>1, <2>2
  <2>4. x.component = ref(c.id)
    BY <1>4, <2>1, <2>2
  <2>5. PICK y : y = TheirsIn(ref(c.id), v)
    OBVIOUS
  <2>6. y.id = v.id /\ y.affects = ref(c.id)
    BY <2>5, TheirsInSays
  <2> QED
    BY <1>3, <2>3, <2>4, <2>5, <2>6
<1>6. ASSUME NEW y \in V
      PROVE  \E x \in R : x.rule[1] = "cve" /\ x.rule[2] = y.id /\ x.component = y.affects
  <2>1. PICK c \in K : \E v \in c.vulns : y = TheirsIn(ref(c.id), v)
    BY <1>3
  <2>2. PICK v \in c.vulns : y = TheirsIn(ref(c.id), v)
    BY <2>1
  <2>3. y.id = v.id /\ y.affects = ref(c.id)
    BY <2>2, TheirsInSays
  <2>4. pruned(c) \in cs /\ v \in pruned(c).vulns
    BY <1>2, <1>4
  <2>5. PICK x \in R : x.rule = <<"cve", v.id>> /\ x.component = ref(pruned(c).id)
    <3>1. pruned(c) \in cs
      BY <2>4
    <3>2. \A u \in pruned(c).vulns : \E x \in R : x.rule = <<"cve", u.id>> /\ x.component = ref(pruned(c).id)
      BY <1>10, <3>1, AlertsRaised
    <3> QED
      BY <2>4, <3>2
  <2>6. x.rule[1] = "cve" /\ x.rule[2] = v.id
    BY <2>5
  <2> QED
    BY <1>4, <2>3, <2>5, <2>6
<1> DEFINE A == {<<r.rule[2], r.component>> : r \in {x \in R : x.rule[1] = "cve"}}
           B == {<<v.id, v.affects>> : v \in V}
<1>7. \A z : z \in A <=> \E x \in R : x.rule[1] = "cve" /\ z = <<x.rule[2], x.component>>
  OBVIOUS
<1>8. \A z : z \in B <=> \E y \in V : z = <<y.id, y.affects>>
  OBVIOUS
<1> HIDE DEF A, B
<1>9. A = B
  BY <1>5, <1>6, <1>7, <1>8
<1> QED
  BY <1>1, <1>9 DEF A, B

(* A row of the table's advisories. *)
RowOf(of, v) == [library |-> of, id |-> v.id, exploited |-> v.kev, fixed |-> v.fixed]
(* The table's advisories are those of the components it keeps. *)
LEMMA RowsAre ==
  ASSUME NEW i, Coherent(i)
  PROVE  \A x : x \in table(i, FALSE).vulnRows <=> \E c \in KeptOnes(i) : \E v \in c.vulns : x = RowOf(ref(c.id), v)
<1> DEFINE of(c) == {RowOf(ref(c.id), v) : v \in c.vulns}
<1>1. PICK cs, K, R : cs = tableComponents(i, FALSE) /\ K = KeptOnes(i) /\ R = table(i, FALSE).vulnRows
  OBVIOUS
<1>2. R = UNION {of(c) : c \in cs}
  BY <1>1 DEF table, vulnRows, RowOf
<1>3. \A c, x : x \in of(c) <=> \E v \in c.vulns : x = RowOf(ref(c.id), v)
  OBVIOUS
<1> HIDE DEF of
<1>4. \A x : x \in R <=> \E d \in cs : x \in of(d)
  BY <1>2
<1>5. cs = {Shortened(c) : c \in K}
  BY <1>1, Spoken
<1>6. ASSUME NEW c \in K PROVE of(Shortened(c)) = of(c)
  <2>1. DOMAIN c = Facts \cup {"vulns", "eol"}
    BY <1>1 DEF KeptOnes, Coherent, Listable
  <2>2. Shortened(c).id = c.id /\ Shortened(c).vulns = c.vulns
    BY <2>1, PrunedIs
  <2> QED
    BY <2>2 DEF of
<1>7. \A x : x \in R <=> \E c \in K : x \in of(c)
  BY <1>4, <1>5, <1>6
<1>8. \A x : x \in R <=> \E c \in K : \E v \in c.vulns : x = RowOf(ref(c.id), v)
  BY <1>3, <1>7
<1> QED
  BY <1>1, <1>8

(* And so are the table's rows. *)
LEMMA SameRows ==
  ASSUME NEW i, Coherent(i)
  PROVE  {<<r.id, r.library, r.fixed>> : r \in table(i, FALSE).vulnRows}
           = {<<v.id, v.affects, v.fixed>> : v \in {x \in cdx(i).vulnerabilities : OfShipped(i, x)}}
<1>1. PICK K, R, V : /\ K = KeptOnes(i) /\ R = table(i, FALSE).vulnRows
                     /\ V = {x \in cdx(i).vulnerabilities : OfShipped(i, x)}
  OBVIOUS
<1>3. \A y : y \in V <=> \E c \in K : \E v \in c.vulns : y = TheirsIn(ref(c.id), v)
  BY <1>1, AdvisoriesShipped
<1>5. \A x : x \in R <=> \E c \in K : \E v \in c.vulns : x = RowOf(ref(c.id), v)
  BY <1>1, RowsAre
<1>6. \A of, v, x : x = RowOf(of, v) => x.id = v.id /\ x.library = of /\ x.fixed = v.fixed
  BY DEF RowOf
<1>7. ASSUME NEW x \in R PROVE \E y \in V : x.id = y.id /\ x.library = y.affects /\ x.fixed = y.fixed
  <2>1. PICK c \in K : \E v \in c.vulns : x = RowOf(ref(c.id), v)
    BY <1>5
  <2>2. PICK v \in c.vulns : x = RowOf(ref(c.id), v)
    BY <2>1
  <2>3. PICK y : y = TheirsIn(ref(c.id), v)
    OBVIOUS
  <2>4. y.id = v.id /\ y.affects = ref(c.id) /\ y.fixed = v.fixed
    BY <2>3, TheirsInSays
  <2> QED
    BY <1>3, <1>6, <2>2, <2>3, <2>4
<1>8. ASSUME NEW y \in V PROVE \E x \in R : x.id = y.id /\ x.library = y.affects /\ x.fixed = y.fixed
  <2>1. PICK c \in K : \E v \in c.vulns : y = TheirsIn(ref(c.id), v)
    BY <1>3
  <2>2. PICK v \in c.vulns : y = TheirsIn(ref(c.id), v)
    BY <2>1
  <2>3. y.id = v.id /\ y.affects = ref(c.id) /\ y.fixed = v.fixed
    BY <2>2, TheirsInSays
  <2>4. PICK x : x = RowOf(ref(c.id), v)
    OBVIOUS
  <2> QED
    BY <1>5, <1>6, <2>3, <2>4
<1> DEFINE A == {<<r.id, r.library, r.fixed>> : r \in R}
           B == {<<v.id, v.affects, v.fixed>> : v \in V}
<1>9. \A z : z \in A <=> \E x \in R : z = <<x.id, x.library, x.fixed>>
  OBVIOUS
<1>10. \A z : z \in B <=> \E y \in V : z = <<y.id, y.affects, y.fixed>>
  OBVIOUS
<1> HIDE DEF A, B
<1>11. A = B
  BY <1>7, <1>8, <1>9, <1>10
<1> QED
  BY <1>1, <1>11 DEF A, B

(* The models that go away, of those that are shipped; a row of the table about
   one, and what CycloneDX states of one. *)
GoneOf(i) == {ref(c.id) : c \in {x \in KeptOnes(i) : eolReportable(x)}}
EndRow(c) ==
  [model |-> ref(c.id), state |-> c.eol.state, shutdown |-> c.eol.shutdown, days |-> c.eol.daysRemaining,
   replacement |-> <<c.eol.replacement, c.eol.replacementState>>]
SaysGone(i, x) == /\ x.properties.lifecycle.state \in {"deprecated", "retired"}
                  /\ ~ComponentOf(i, x.bomRef[2]).testOnly

(* What is left out of a component does not touch its lifecycle. *)
LEMMA StillGone ==
  ASSUME NEW i, Coherent(i), NEW c \in KeptOnes(i)
  PROVE  /\ ref(pruned(c).id) = ref(c.id) /\ (eolReportable(pruned(c)) <=> eolReportable(c))
         /\ ref(Shortened(c).id) = ref(c.id) /\ (eolReportable(Shortened(c)) <=> eolReportable(c))
<1>1. DOMAIN c = Facts \cup {"vulns", "eol"}
  BY DEF KeptOnes, Coherent, Listable
<1>2. pruned(c).id = c.id /\ pruned(c).eol = c.eol /\ Shortened(c).id = c.id /\ Shortened(c).eol = c.eol
  BY <1>1, PrunedIs
<1> QED
  BY <1>2 DEF eolReportable

(* SARIF raises an alert about each of them, and about no other component. *)
LEMMA AlertsGone ==
  ASSUME NEW i, Coherent(i)
  PROVE  {r.component : r \in {x \in AlertsOf(i) : x.rule[1] = "eol"}} = GoneOf(i)
<1>1. PICK cs, K, R : cs = SpokenOf(i) /\ K = KeptOnes(i) /\ R = AlertsOf(i)
  OBVIOUS
<1>2. cs = {pruned(c) : c \in K}
  BY <1>1, Spoken DEF SpokenOf
<1>3. \A c \in K : ref(pruned(c).id) = ref(c.id) /\ (eolReportable(pruned(c)) <=> eolReportable(c))
  BY <1>1, StillGone
<1>4. cs = SpokenOf(i) /\ R = AlertsOf(i)
  BY <1>1
<1>5. ASSUME NEW x \in R, x.rule[1] = "eol" PROVE \E c \in K : eolReportable(c) /\ x.component = ref(c.id)
  <2>1. PICK p \in cs : x.component = ref(p.id) /\
           \/ x.rule[1] = "detector" /\ \E o \in Range(p.occs) : x.at = {o}
           \/ x.rule[1] = "risk" /\ \E k \in p.risks : x.at = {k.occurrence}
           \/ x.rule[1] = "cve" /\ x.at = primaryLocations(p) /\ \E u \in p.vulns : x.rule[2] = u.id
           \/ x.rule[1] = "eol" /\ x.at = Range(p.occs) /\ eolReportable(p)
    BY <1>4, AlertsAre
  <2>2. eolReportable(p) /\ x.component = ref(p.id)
    BY <1>5, <2>1
  <2>3. PICK c \in K : p = pruned(c)
    BY <1>2
  <2> QED
    BY <1>3, <2>2, <2>3
<1>6. ASSUME NEW c \in K, eolReportable(c) PROVE \E x \in R : x.rule[1] = "eol" /\ x.component = ref(c.id)
  <2>1. pruned(c) \in cs /\ eolReportable(pruned(c)) /\ ref(pruned(c).id) = ref(c.id)
    BY <1>2, <1>3, <1>6
  <2>2. eolReportable(pruned(c)) => \E x \in R : x.rule[1] = "eol" /\ x.component = ref(pruned(c).id)
    BY <1>4, <2>1, AlertsRaised
  <2> QED
    BY <2>1, <2>2
<1> DEFINE A == {r.component : r \in {x \in R : x.rule[1] = "eol"}}
<1>7. \A z : z \in A <=> \E x \in R : x.rule[1] = "eol" /\ z = x.component
  OBVIOUS
<1>8. \A z : z \in GoneOf(i) <=> \E c \in K : eolReportable(c) /\ z = ref(c.id)
  BY <1>1 DEF GoneOf
<1> HIDE DEF A
<1>9. ASSUME NEW z \in A PROVE z \in GoneOf(i)
  BY <1>5, <1>7, <1>8
<1>10. ASSUME NEW z \in GoneOf(i) PROVE z \in A
  BY <1>6, <1>7, <1>8
<1>11. A = GoneOf(i)
  BY <1>9, <1>10
<1> QED
  BY <1>1, <1>11 DEF A

(* And so does the table. *)
LEMMA RowsGone ==
  ASSUME NEW i, Coherent(i)
  PROVE  {r.model : r \in table(i, FALSE).eolRows} = GoneOf(i)
<1>1. PICK cs, K, R : cs = tableComponents(i, FALSE) /\ K = KeptOnes(i) /\ R = table(i, FALSE).eolRows
  OBVIOUS
<1>2. cs = {Shortened(c) : c \in K}
  BY <1>1, Spoken
<1>3. \A c \in K : ref(Shortened(c).id) = ref(c.id) /\ (eolReportable(Shortened(c)) <=> eolReportable(c))
  BY <1>1, StillGone
<1>4. R = {EndRow(d) : d \in {x \in cs : eolReportable(x)}}
  BY <1>1 DEF table, eolRows, EndRow
<1>5. \A d : EndRow(d).model = ref(d.id)
  BY DEF EndRow
<1>6. \A z : z \in {r.model : r \in R} <=> \E d \in cs : eolReportable(d) /\ z = ref(d.id)
  BY <1>4, <1>5
<1>7. \A z : z \in GoneOf(i) <=> \E c \in K : eolReportable(c) /\ z = ref(c.id)
  BY <1>1 DEF GoneOf
<1>8. \A z : z \in {r.model : r \in R} <=> \E c \in K : eolReportable(c) /\ z = ref(c.id)
  BY <1>2, <1>3, <1>6
<1>9. {r.model : r \in R} = GoneOf(i)
  BY <1>7, <1>8
<1> QED
  BY <1>1, <1>9

(* And CycloneDX states it. *)
LEMMA StatedGone ==
  ASSUME NEW i, Coherent(i)
  PROVE  {x.bomRef : x \in {y \in cdx(i).components : SaysGone(i, y)}} = GoneOf(i)
<1>1. PICK K, X : K = KeptOnes(i) /\ X = cdx(i).components
  OBVIOUS
<1>2. X = {cdxComponent(i, c) : c \in Others(i)}
  BY <1>1 DEF cdx
<1>3. ASSUME NEW c \in i.components
      PROVE  /\ cdxComponent(i, c).bomRef = ref(c.id)
             /\ SaysGone(i, cdxComponent(i, c)) <=> eolReportable(c) /\ ~c.testOnly
  <2>1. PICK x, p : x = cdxComponent(i, c) /\ p = properties(c)
    OBVIOUS
  <2>2. x.bomRef = ref(c.id) /\ x.properties = p
    BY <2>1 DEF cdxComponent
  <2>3. p.lifecycle = c.eol
    BY <2>1 DEF properties
  <2>4. ComponentOf(i, ref(c.id)[2]) = c
    BY FoundById DEF Coherent
  <2> QED
    BY <2>1, <2>2, <2>3, <2>4 DEF SaysGone, eolReportable
<1>4. \A c : c \in Others(i) /\ eolReportable(c) /\ ~c.testOnly <=> c \in K /\ eolReportable(c)
  BY <1>1 DEF Others, Root, KeptOnes, Coherent
<1>5. Others(i) \subseteq i.components
  BY DEF Others
<1>6. \A z : z \in {x.bomRef : x \in {y \in X : SaysGone(i, y)}}
             <=> \E c \in Others(i) : eolReportable(c) /\ ~c.testOnly /\ z = ref(c.id)
  BY <1>2, <1>3, <1>5
<1>7. \A z : z \in GoneOf(i) <=> \E c \in K : eolReportable(c) /\ z = ref(c.id)
  BY <1>1 DEF GoneOf
<1>8. {x.bomRef : x \in {y \in X : SaysGone(i, y)}} = GoneOf(i)
  BY <1>4, <1>6, <1>7
<1> QED
  BY <1>1, <1>8

(* OpenVEX states every advisory of what has a purl. *)
LEMMA StatementsMade ==
  ASSUME NEW i, Coherent(i), NEW y \in cdx(i).vulnerabilities, ~y.own,
         ComponentOf(i, y.affects[2]).purl # <<>>
  PROVE  [product |-> ComponentOf(i, y.affects[2]).purl, vulnerability |-> y.id, status |-> "affected",
          upgradeTo |-> y.fixed] \in vexStatements(i)
<1>1. PICK c \in i.components : \/ \E r \in c.risks : y = OwnIn(ref(c.id), r)
                                \/ \E v \in c.vulns : y = TheirsIn(ref(c.id), v)
  BY VulnerabilitiesAre
<1>2. ASSUME NEW r, y = OwnIn(ref(c.id), r) PROVE FALSE
  <2>1. y.own
    BY <1>2, OwnInSays
  <2> QED
    BY <2>1
<1>3. PICK v \in c.vulns : y = TheirsIn(ref(c.id), v)
  BY <1>1, <1>2
<1>4. y.id = v.id /\ y.affects = ref(c.id) /\ y.fixed = v.fixed
  BY <1>3, TheirsInSays
<1>5. ComponentOf(i, y.affects[2]) = c
  BY <1>4, FoundById DEF Coherent
<1> DEFINE of(d) == {[product |-> d.purl, vulnerability |-> w.id, status |-> "affected", upgradeTo |-> w.fixed] :
                       w \in d.vulns}
<1>6. vexStatements(i) = UNION {of(d) : d \in {x \in i.components : x.purl # <<>>}}
  BY DEF vexStatements
<1>7. PICK s : s = [product |-> c.purl, vulnerability |-> v.id, status |-> "affected", upgradeTo |-> v.fixed]
  OBVIOUS
<1>8. s \in of(c)
  BY <1>7
<1> HIDE DEF of
<1>9. s \in vexStatements(i)
  BY <1>5, <1>6, <1>8
<1> QED
  BY <1>4, <1>5, <1>7, <1>9

(* A set is listed without repetition. *)
LEMMA ListedOnce ==
  ASSUME NEW S, IsFiniteSet(S), NEW m \in DOMAIN SetToSeq(S), NEW n \in DOMAIN SetToSeq(S),
         SetToSeq(S)[m] = SetToSeq(S)[n]
  PROVE  m = n
<1>1. PICK N : N = Cardinality(S) /\ N \in Nat /\ ExistsBijection(1 .. N, S)
  BY FS_CardinalityType
<1>2. PICK f \in [1 .. N -> S] : IsInjective(f)
  BY <1>1 DEF ExistsBijection, Bijection, Injection, IsInjective
<1>3. PICK s : s = SetToSeq(S)
  OBVIOUS
<1>4. s \in [1 .. N -> S] /\ IsInjective(s)
  BY <1>1, <1>2, <1>3 DEF SetToSeq
<1>5. \A a, b \in DOMAIN s : s[a] = s[b] => a = b
  BY <1>4 DEF IsInjective
<1> QED
  BY <1>3, <1>5

(* Things that are told apart are as many as their images. *)
LEMMA OneEach ==
  ASSUME NEW S, IsFiniteSet(S), NEW g, DOMAIN g = S, \A a, b \in S : g[a] = g[b] => a = b
  PROVE  IsFiniteSet({g[x] : x \in S}) /\ Cardinality({g[x] : x \in S}) = Cardinality(S)
<1>1. PICK T : T = {g[x] : x \in S}
  OBVIOUS
<1>2. PICK h : h = [x \in S |-> g[x]]
  OBVIOUS
<1>3. h \in [S -> T] /\ (\A t \in T : \E x \in S : h[x] = t) /\ \A a, b \in S : h[a] = h[b] => a = b
  BY <1>1, <1>2
<1>4. h \in Bijection(S, T)
  BY <1>3 DEF Bijection, Injection, Surjection, IsInjective
<1>5. ExistsBijection(S, T)
  BY <1>4 DEF ExistsBijection
<1>6. IsFiniteSet(T) /\ Cardinality(T) = Cardinality(S)
  BY <1>5, FS_Bijection
<1> QED
  BY <1>1, <1>6

(* The sum of the sizes of disjoint sets is the size of their union. *)
LEMMA SumIs ==
  ASSUME NEW counts, IsFiniteSet(counts), NEW share, DOMAIN share = counts,
         \A e \in counts : IsFiniteSet(share[e]) /\ Cardinality(share[e]) = e[2],
         \A e, f \in counts : e # f => share[e] \cap share[f] = {}
  PROVE  SumOf(counts) = Cardinality(UNION {share[e] : e \in counts})
<1>1. PICK s, N : s = SetToSeq(counts) /\ N = Len(s) /\ N \in Nat /\ DOMAIN s = 1 .. N /\ \A n \in 1 .. N : s[n] \in counts
  BY SeqOfSet
<1>2. \A m, n \in 1 .. N : s[m] = s[n] => m = n
  BY <1>1, ListedOnce
<1>3. \A e \in counts : \E n \in 1 .. N : s[n] = e
  BY <1>1, SeqOfAll
<1> DEFINE U(n) == UNION {share[s[k]] : k \in 1 .. n}
<1>4. U(0) = {}
  OBVIOUS
<1>5. ASSUME NEW n \in Nat, n + 1 \in 1 .. N
      PROVE  U(n + 1) = U(n) \cup share[s[n + 1]] /\ U(n) \cap share[s[n + 1]] = {}
  <2>1. 1 .. n + 1 = (1 .. n) \cup {n + 1}
    OBVIOUS
  <2>2. ASSUME NEW k \in 1 .. n PROVE share[s[k]] \cap share[s[n + 1]] = {}
    <3>1. k \in 1 .. N /\ k # n + 1
      BY <1>1, <1>5
    <3>2. s[k] # s[n + 1] /\ s[k] \in counts /\ s[n + 1] \in counts
      BY <1>1, <1>2, <1>5, <3>1
    <3> QED
      BY <3>2
  <2> QED
    BY <2>1, <2>2
<1>6. U(N) = UNION {share[e] : e \in counts}
  BY <1>1, <1>3
<1> HIDE DEF U
<1>7. PICK T : T = {n \in Nat : n <= N => IsFiniteSet(U(n)) /\ Cardinality(U(n)) \in Nat}
  OBVIOUS
<1>8. 0 \in T
  <2>1. IsFiniteSet({}) /\ Cardinality({}) = 0
    BY FS_EmptySet
  <2>2. IsFiniteSet(U(0)) /\ Cardinality(U(0)) \in Nat
    BY <1>4, <2>1
  <2> QED
    BY <1>7, <2>2
<1>9. ASSUME NEW n \in Nat, n \in T, n + 1 <= N
      PROVE  IsFiniteSet(U(n + 1)) /\ Cardinality(U(n + 1)) \in Nat /\ Cardinality(U(n + 1)) = Cardinality(U(n)) + s[n + 1][2]
  <2>1. n + 1 \in 1 .. N /\ n <= N
    BY <1>1, <1>9
  <2>2. PICK A, B : A = U(n) /\ B = share[s[n + 1]]
    OBVIOUS
  <2>3. IsFiniteSet(A) /\ Cardinality(A) \in Nat
    BY <1>7, <1>9, <2>1, <2>2
  <2>4. s[n + 1] \in counts
    BY <1>1, <2>1
  <2>5. IsFiniteSet(B) /\ Cardinality(B) = s[n + 1][2]
    BY <2>2, <2>4
  <2>6. U(n + 1) = A \cup B /\ A \cap B = {}
    BY <1>5, <2>1, <2>2
  <2>7. IsFiniteSet(A \cup B) /\ Cardinality(A \cup B) = Cardinality(A) + Cardinality(B) - Cardinality(A \cap B)
    BY <2>3, <2>5, FS_Union
  <2>8. Cardinality(A \cap B) = 0 /\ Cardinality(B) \in Nat
    BY <2>5, <2>6, FS_EmptySet, FS_CardinalityType
  <2>9. Cardinality(A \cup B) = Cardinality(A) + Cardinality(B)
    BY <2>3, <2>7, <2>8
  <2>10. IsFiniteSet(U(n + 1))
    BY <2>6, <2>7
  <2>11. Cardinality(U(n + 1)) = Cardinality(A) + Cardinality(B)
    BY <2>6, <2>9
  <2>12. Cardinality(U(n + 1)) \in Nat
    BY <2>3, <2>8, <2>11
  <2>13. Cardinality(U(n + 1)) = Cardinality(U(n)) + s[n + 1][2]
    BY <2>2, <2>5, <2>11
  <2> QED
    BY <2>10, <2>12, <2>13
<1>10. \A n \in Nat : n \in T => n + 1 \in T
  BY <1>7, <1>9
<1>11. Nat \subseteq T
  BY <1>8, <1>10, Induction
<1>12. PICK G : G = [n \in 0 .. N |-> Cardinality(U(n))]
  OBVIOUS
<1>13. ASSUME NEW n \in 0 .. N
       PROVE  G[n] = IF n = 0 THEN 0 ELSE G[n - 1] + s[n][2]
  <2>1. CASE n = 0
    BY <1>4, <1>12, <2>1, FS_EmptySet
  <2>2. CASE n # 0
    <3>1. PICK m : m = n - 1 /\ m \in Nat /\ m + 1 = n /\ m + 1 <= N /\ m \in 0 .. N
      BY <1>1, <2>2
    <3>2. m \in T
      BY <1>11, <3>1
    <3>3. Cardinality(U(m + 1)) = Cardinality(U(m)) + s[m + 1][2]
      BY <1>9, <3>1, <3>2
    <3>4. G[n] = Cardinality(U(n)) /\ G[m] = Cardinality(U(m))
      BY <1>12, <3>1
    <3> QED
      BY <2>2, <3>1, <3>3, <3>4
  <2> QED
    BY <2>1, <2>2
<1>14. G = [n \in 0 .. N |-> IF n = 0 THEN 0 ELSE G[n - 1] + s[n][2]]
  <2>1. PICK f : f = [n \in 0 .. N |-> IF n = 0 THEN 0 ELSE G[n - 1] + s[n][2]]
    OBVIOUS
  <2>2. DOMAIN f = 0 .. N /\ \A n \in 0 .. N : f[n] = IF n = 0 THEN 0 ELSE G[n - 1] + s[n][2]
    BY <2>1
  <2>3. f = [n \in 0 .. N |-> f[n]]
    BY <2>1
  <2>4. \A n \in 0 .. N : f[n] = G[n]
    BY <1>13, <2>2
  <2>5. f = G
    BY <1>12, <2>3, <2>4
  <2> QED
    BY <2>1, <2>5
<1>15. PICK upTo : upTo = CHOOSE H : H = [n \in 0 .. N |-> IF n = 0 THEN 0 ELSE H[n - 1] + s[n][2]]
  OBVIOUS
<1>16. upTo = [n \in 0 .. N |-> IF n = 0 THEN 0 ELSE upTo[n - 1] + s[n][2]]
  BY <1>14, <1>15
<1>17. SumOf(counts) = upTo[N]
  BY <1>1, <1>15 DEF SumOf
<1>18. PICK Q : Q = {n \in Nat : n <= N => upTo[n] = G[n]}
  OBVIOUS
<1>19. 0 \in Q
  <2>1. 0 \in 0 .. N
    BY <1>1
  <2> QED
    BY <1>13, <1>16, <1>18, <2>1
<1>20. ASSUME NEW n \in Nat, n \in Q PROVE n + 1 \in Q
  <2>1. CASE n + 1 <= N
    <3>1. n + 1 \in 0 .. N /\ n + 1 # 0 /\ n + 1 - 1 = n /\ n <= N
      BY <1>1, <2>1
    <3>2. upTo[n + 1] = upTo[n + 1 - 1] + s[n + 1][2]
      BY <1>16, <3>1
    <3>3. G[n + 1] = G[n + 1 - 1] + s[n + 1][2]
      BY <1>13, <3>1
    <3>4. upTo[n] = G[n]
      BY <1>18, <1>20, <3>1
    <3>5. upTo[n + 1] = G[n + 1]
      BY <3>1, <3>2, <3>3, <3>4
    <3> QED
      BY <1>18, <3>5
  <2>2. CASE ~(n + 1 <= N)
    BY <1>18, <2>2
  <2> QED
    BY <2>1, <2>2
<1>21. N \in Q
  BY <1>1, <1>19, <1>20, Induction
<1>22. upTo[N] = Cardinality(U(N))
  BY <1>1, <1>12, <1>18, <1>21
<1> QED
  BY <1>6, <1>17, <1>22

(* The components of the table. *)
RowedOf(i) == tableComponents(i, FALSE)
(* There is an end to them, each has an identity of its own, a sighting, and
   advisories that are told apart. *)
LEMMA RowedOnes ==
  ASSUME NEW i, Coherent(i)
  PROVE  /\ IsFiniteSet(RowedOf(i))
         /\ \A c, d \in RowedOf(i) : c.id = d.id => c = d
         /\ \A c \in RowedOf(i) : /\ IsFiniteSet(c.vulns) /\ (\A v, u \in c.vulns : v.id = u.id => v = u)
                                  /\ IsSeq(c.occs) /\ c.occs # <<>>
<1>1. PICK cs, K : cs = RowedOf(i) /\ K = KeptOnes(i)
  OBVIOUS
<1>2. cs = {Shortened(c) : c \in K}
  BY <1>1, Spoken DEF RowedOf
<1>3. K \subseteq i.components
  BY <1>1 DEF KeptOnes
<1>4. IsFiniteSet(K)
  BY <1>3, FS_Subset DEF Coherent, Listable
<1>5. PICK g : g = [c \in K |-> Shortened(c)]
  OBVIOUS
<1>6. DOMAIN g = K /\ \A c \in K : g[c] = Shortened(c)
  BY <1>5
<1>7. IsFiniteSet({g[c] : c \in K})
  BY <1>4, <1>6, FiniteImage
<1>8. cs = {g[c] : c \in K}
  BY <1>2, <1>6
<1>9. ASSUME NEW c \in K
      PROVE  /\ Shortened(c).id = c.id /\ Shortened(c).vulns = c.vulns
             /\ IsSeq(Shortened(c).occs) /\ Shortened(c).occs # <<>>
  <2>1. DOMAIN c = Facts \cup {"vulns", "eol"}
    BY <1>3 DEF Coherent, Listable
  <2>2. Shortened(c).id = c.id /\ Shortened(c).vulns = c.vulns /\ Shortened(c).occs = ProductionOccurrences(c.occs)
    BY <2>1, PrunedIs
  <2>3. c \in KeptOnes(i)
    BY <1>1
  <2>4. IsSeq(ProductionOccurrences(c.occs)) /\ ProductionOccurrences(c.occs) # <<>>
    BY <2>3, StillSeen
  <2> QED
    BY <2>2, <2>4
<1>10. \A c \in K : IsFiniteSet(c.vulns) /\ \A v, u \in c.vulns : v.id = u.id => v = u
  BY <1>3 DEF Coherent, Listable
<1>11. \A c, d \in K : c.id = d.id => c = d
  BY <1>3 DEF Coherent, OwnIds
<1>12. \A c, d \in cs : c.id = d.id => c = d
  BY <1>2, <1>9, <1>11
<1>13. ASSUME NEW c \in cs
       PROVE  /\ IsFiniteSet(c.vulns) /\ (\A v, u \in c.vulns : v.id = u.id => v = u)
              /\ IsSeq(c.occs) /\ c.occs # <<>>
  <2>1. PICK d \in K : c = Shortened(d)
    BY <1>2
  <2> QED
    BY <1>9, <1>10, <2>1
<1> QED
  BY <1>1, <1>7, <1>8, <1>12, <1>13

(* A row for each of them, with its sightings counted. *)
LEMMA RowEach ==
  ASSUME NEW i, Coherent(i)
  PROVE  /\ Cardinality({tableRow(c) : c \in RowedOf(i)}) = Cardinality(RowedOf(i))
         /\ \A r \in {tableRow(c) : c \in RowedOf(i)} : r.evidence > 0
<1>1. PICK cs : cs = RowedOf(i)
  OBVIOUS
<1>2. IsFiniteSet(cs) /\ \A c, d \in cs : c.id = d.id => c = d
  BY <1>1, RowedOnes
<1>3. \A c : tableRow(c).id = c.id /\ tableRow(c).evidence = Len(c.occs)
  BY DEF tableRow
<1>4. PICK g : g = [c \in cs |-> tableRow(c)]
  OBVIOUS
<1>5. DOMAIN g = cs /\ \A c \in cs : g[c] = tableRow(c)
  BY <1>4
<1>6. \A c, d \in cs : g[c] = g[d] => c = d
  <2>1. \A c \in cs : g[c].id = c.id
    BY <1>3, <1>5
  <2> QED
    BY <1>2, <2>1
<1>7. Cardinality({g[c] : c \in cs}) = Cardinality(cs)
  BY <1>2, <1>5, <1>6, OneEach
<1>8. {g[c] : c \in cs} = {tableRow(c) : c \in cs}
  BY <1>5
<1>9. ASSUME NEW c \in cs PROVE Len(c.occs) > 0
  <2>1. PICK s : s = c.occs /\ IsSeq(s) /\ s # <<>>
    BY <1>1, RowedOnes
  <2>2. Len(s) \in Nat /\ Len(s) # 0
    BY <2>1, EmptySeq, LenProperties DEF IsSeq
  <2> QED
    BY <2>1, <2>2
<1>10. \A r \in {tableRow(c) : c \in cs} : r.evidence > 0
  BY <1>3, <1>9
<1> QED
  BY <1>1, <1>7, <1>8, <1>10

(* A row for each of those that go away. *)
LEMMA EndRowEach ==
  ASSUME NEW i, Coherent(i)
  PROVE  Cardinality({c \in RowedOf(i) : eolReportable(c)}) = Cardinality(table(i, FALSE).eolRows)
<1>1. PICK cs : cs = {c \in RowedOf(i) : eolReportable(c)}
  OBVIOUS
<1>2. cs \subseteq RowedOf(i)
  BY <1>1
<1>3. IsFiniteSet(cs) /\ \A c, d \in cs : c.id = d.id => c = d
  BY <1>2, RowedOnes, FS_Subset
<1>4. \A c : EndRow(c).model = ref(c.id) /\ ref(c.id)[2] = c.id
  BY DEF EndRow, ref
<1>5. PICK g : g = [c \in cs |-> EndRow(c)]
  OBVIOUS
<1>6. DOMAIN g = cs /\ \A c \in cs : g[c] = EndRow(c)
  BY <1>5
<1>7. \A c, d \in cs : g[c] = g[d] => c = d
  <2>1. \A c \in cs : g[c].model[2] = c.id
    BY <1>4, <1>6
  <2> QED
    BY <1>3, <2>1
<1>8. Cardinality({g[c] : c \in cs}) = Cardinality(cs)
  BY <1>3, <1>6, <1>7, OneEach
<1>9. {g[c] : c \in cs} = {EndRow(c) : c \in cs}
  BY <1>6
<1>10. table(i, FALSE).eolRows = {EndRow(c) : c \in cs}
  BY <1>1 DEF table, eolRows, EndRow, RowedOf
<1> QED
  BY <1>1, <1>8, <1>9, <1>10

(* As many rows of advisories as the total says. *)
LEMMA RowsCounted ==
  ASSUME NEW i, Coherent(i)
  PROVE  SumOf({<<c.id, Cardinality(c.vulns)>> : c \in RowedOf(i)}) = Cardinality(table(i, FALSE).vulnRows)
<1>1. PICK cs, counts : cs = RowedOf(i) /\ counts = {<<c.id, Cardinality(c.vulns)>> : c \in RowedOf(i)}
  OBVIOUS
<1>2. /\ IsFiniteSet(cs) /\ \A c, d \in cs : c.id = d.id => c = d
      /\ \A c \in cs : IsFiniteSet(c.vulns) /\ \A v, u \in c.vulns : v.id = u.id => v = u
  BY <1>1, RowedOnes
<1> DEFINE rowsOf(c) == {RowOf(ref(c.id), v) : v \in c.vulns}
<1>3. table(i, FALSE).vulnRows = UNION {rowsOf(c) : c \in cs}
  BY <1>1 DEF table, vulnRows, RowOf, RowedOf
<1>4. ASSUME NEW c \in cs PROVE IsFiniteSet(rowsOf(c)) /\ Cardinality(rowsOf(c)) = Cardinality(c.vulns)
  <2>1. PICK g : g = [v \in c.vulns |-> RowOf(ref(c.id), v)]
    OBVIOUS
  <2>2. DOMAIN g = c.vulns /\ \A v \in c.vulns : g[v] = RowOf(ref(c.id), v)
    BY <2>1
  <2>3. \A v : RowOf(ref(c.id), v).id = v.id
    BY DEF RowOf
  <2>4. \A v, u \in c.vulns : g[v] = g[u] => v = u
    BY <1>2, <2>2, <2>3
  <2>5. IsFiniteSet({g[v] : v \in c.vulns}) /\ Cardinality({g[v] : v \in c.vulns}) = Cardinality(c.vulns)
    BY <1>2, <2>2, <2>4, OneEach
  <2>6. {g[v] : v \in c.vulns} = rowsOf(c)
    BY <2>2
  <2> QED
    BY <2>5, <2>6
<1>5. \A c : \A r \in rowsOf(c) : r.library = ref(c.id) /\ ref(c.id)[2] = c.id
  BY DEF RowOf, ref
<1> HIDE DEF rowsOf
<1>6. \A c, d \in cs : c # d => rowsOf(c) \cap rowsOf(d) = {}
  <2>1. \A c : \A r \in rowsOf(c) : r.library[2] = c.id
    BY <1>5
  <2> QED
    BY <1>2, <2>1
<1>7. \A e : e \in counts <=> \E c \in cs : e = <<c.id, Cardinality(c.vulns)>>
  BY <1>1
<1>8. PICK of : of = [e \in counts |-> CHOOSE c \in cs : c.id = e[1]]
  OBVIOUS
<1>9. ASSUME NEW c \in cs, NEW e, e = <<c.id, Cardinality(c.vulns)>>
      PROVE  e \in counts /\ of[e] = c /\ e[2] = Cardinality(c.vulns)
  <2>1. e[1] = c.id /\ e[2] = Cardinality(c.vulns) /\ e \in counts
    BY <1>7, <1>9
  <2>2. (CHOOSE d \in cs : d.id = c.id) = c
    BY <1>2
  <2> QED
    BY <1>8, <2>1, <2>2
<1>10. PICK share : share = [e \in counts |-> rowsOf(of[e])]
  OBVIOUS
<1>11. DOMAIN share = counts /\ \A e \in counts : share[e] = rowsOf(of[e])
  BY <1>10
<1>12. \A e \in counts : of[e] \in cs /\ e = <<of[e].id, Cardinality(of[e].vulns)>> /\ e[2] = Cardinality(of[e].vulns)
  <2> TAKE e \in counts
  <2>1. PICK c \in cs : e = <<c.id, Cardinality(c.vulns)>>
    BY <1>7
  <2> QED
    BY <1>9, <2>1
<1>13. \A e \in counts : IsFiniteSet(share[e]) /\ Cardinality(share[e]) = e[2]
  BY <1>4, <1>11, <1>12
<1>14. \A e, f \in counts : e # f => share[e] \cap share[f] = {}
  <2> TAKE e, f \in counts
  <2>1. e # f => of[e] # of[f]
    BY <1>12
  <2> QED
    BY <1>6, <1>11, <1>12, <2>1
<1>15. UNION {share[e] : e \in counts} = UNION {rowsOf(c) : c \in cs}
  <2>1. \A c \in cs : \E e \in counts : share[e] = rowsOf(c)
    <3> TAKE c \in cs
    <3>1. PICK e : e = <<c.id, Cardinality(c.vulns)>>
      OBVIOUS
    <3>2. e \in counts /\ of[e] = c
      BY <1>9, <3>1
    <3> QED
      BY <1>11, <3>2
  <2>2. \A e \in counts : \E c \in cs : share[e] = rowsOf(c)
    BY <1>11, <1>12
  <2> QED
    BY <2>1, <2>2
<1>16. PICK g : g = [c \in cs |-> <<c.id, Cardinality(c.vulns)>>]
  OBVIOUS
<1>17. DOMAIN g = cs /\ counts = {g[c] : c \in cs}
  BY <1>1, <1>16
<1>18. IsFiniteSet(counts)
  BY <1>2, <1>17, FiniteImage
<1>19. SumOf(counts) = Cardinality(UNION {share[e] : e \in counts})
  BY <1>11, <1>13, <1>14, <1>18, SumIs
<1> QED
  BY <1>1, <1>3, <1>15, <1>19

(* Every alert points somewhere, and never into a test. *)
LEMMA AlertsPoint ==
  ASSUME NEW i, Coherent(i), NEW x \in AlertsOf(i)
  PROVE  x.at # {} /\ \A o \in x.at : o.path \notin TestPaths
<1>1. PICK cs, R : cs = SpokenOf(i) /\ R = AlertsOf(i)
  OBVIOUS
<1>2. PICK p \in cs : x.component = ref(p.id) /\
         \/ x.rule[1] = "detector" /\ \E o \in Range(p.occs) : x.at = {o}
         \/ x.rule[1] = "risk" /\ \E k \in p.risks : x.at = {k.occurrence}
         \/ x.rule[1] = "cve" /\ x.at = primaryLocations(p) /\ \E u \in p.vulns : x.rule[2] = u.id
         \/ x.rule[1] = "eol" /\ x.at = Range(p.occs) /\ eolReportable(p)
  BY <1>1, AlertsAre
<1>3. PICK c \in KeptOnes(i) : p = pruned(c)
  BY <1>1, <1>2, Spoken DEF SpokenOf
<1>4. c \in i.components
  BY DEF KeptOnes
<1>5. DOMAIN c = Facts \cup {"vulns", "eol"}
  BY <1>4 DEF Coherent, Listable
<1>6. p.occs = ProductionOccurrences(c.occs) /\ p.risks = productionRisks(c.risks)
  BY <1>3, <1>5, PrunedIs
<1>7. LET s == ProductionOccurrences(c.occs) IN
      IsSeq(s) /\ s # <<>> /\ Range(s) \subseteq Range(c.occs) /\ \A o \in Range(s) : o.path \notin TestPaths
  BY StillSeen
<1>8. PICK s : s = p.occs /\ IsSeq(s) /\ s # <<>> /\ Range(s) \subseteq Range(c.occs) /\ \A o \in Range(s) : o.path \notin TestPaths
  BY <1>6, <1>7
<1>9. Range(s) # {}
  <2>1. Len(s) \in Nat /\ DOMAIN s = 1 .. Len(s) /\ Len(s) # 0
    BY <1>8, EmptySeq, LenProperties DEF IsSeq
  <2>2. 1 \in DOMAIN s
    BY <2>1
  <2> QED
    BY <2>2 DEF Range
<1>10. \A k \in p.risks : k.occurrence.path \notin TestPaths
  BY <1>6 DEF productionRisks
<1>11. \A o \in Range(c.occs) : o.path \in Range(Lexicon) /\ o.line \in Nat
  BY <1>4 DEF Coherent
<1>12. IsSeq(p.occs) /\ p.occs # <<>> /\ \A o \in Range(p.occs) : o.path \in Range(Lexicon) /\ o.line \in Nat
  BY <1>8, <1>11
<1>13. primaryLocations(p) # {} /\ primaryLocations(p) \subseteq Range(p.occs)
  BY <1>12, FirstSighting
<1>14. x.at # {} /\ (x.at \subseteq Range(s) \/ \E k \in p.risks : x.at = {k.occurrence})
  BY <1>2, <1>8, <1>9, <1>13
<1> QED
  BY <1>8, <1>10, <1>14

(* CycloneDX states every sighting of a component's identity. *)
LEMMA IdentityStated ==
  ASSUME NEW i, Coherent(i), NEW x \in cdx(i).components, NEW l \in ComponentOf(i, x.bomRef[2]).identity
  PROVE  l \in x.identity \/ l.value \in x.ranges
<1>1. PICK c \in Others(i) : x = cdxComponent(i, c)
  BY DEF cdx
<1>2. c \in i.components
  BY DEF Others
<1>3. x.bomRef = ref(c.id) /\ x.identity = evidence(c) /\ x.ranges = constraintProps(c)
  BY <1>1 DEF cdxComponent
<1>4. ComponentOf(i, x.bomRef[2]) = c
  BY <1>2, <1>3, FoundById DEF Coherent
<1>5. l \in c.identity /\ l.field \in {"name", "version", "versionConstraint"}
  BY <1>2, <1>4 DEF Coherent
<1>6. CASE l.field = "versionConstraint"
  BY <1>3, <1>5, <1>6 DEF constraintProps
<1>7. CASE l.field # "versionConstraint"
  <2>1. l.field \in cdxIdentityFields
    BY <1>5, <1>7 DEF cdxIdentityFields
  <2> QED
    BY <1>3, <1>5, <2>1 DEF evidence
<1> QED
  BY <1>6, <1>7

(* The formats tell one story of a coherent inventory. *)
LEMMA CoherentIsOneStory ==
  ASSUME NEW i, Coherent(i) PROVE OneStory(i)
<1> DEFINE bom    == cdx(i)
           stated == {<<v.id, v.affects, v.fixed>> : v \in bom.vulnerabilities}
           cve    == {v \in bom.vulnerabilities : ~v.own}
           log    == sarif(i, FALSE)
           shown  == table(i, FALSE)
           shipped(r) == ~ComponentOf(i, r[2]).testOnly
           alerts(family) == {r \in log.results : r.rule[1] = family}
<1>1. stated = spdx(i).about
  BY SameAdvisories DEF Coherent
<1>2. InCycloneDX(bom) = InSPDX(spdx(i))
  BY SameFacts
<1>3. {x \in cve : shipped(x.affects)} = {x \in bom.vulnerabilities : OfShipped(i, x)}
  BY DEF OfShipped
<1>4. {<<r.rule[2], r.component>> : r \in alerts("cve")} = {<<v.id, v.affects>> : v \in {x \in cve : shipped(x.affects)}}
  BY <1>3, SameAlerts
<1>5. {<<r.id, r.library, r.fixed>> : r \in shown.vulnRows}
        = {<<v.id, v.affects, v.fixed>> : v \in {x \in cve : shipped(x.affects)}}
  BY <1>3, SameRows
<1>6. {r.component : r \in alerts("eol")} = GoneOf(i)
  BY AlertsGone DEF AlertsOf
<1>7. {r.model : r \in shown.eolRows} = GoneOf(i)
  BY RowsGone
<1>8. {c.bomRef : c \in {x \in bom.components : /\ x.properties.lifecycle.state \in {"deprecated", "retired"}
                                                /\ shipped(x.bomRef)}} = GoneOf(i)
  BY StatedGone DEF SaysGone
<1>9. \A v \in cve : ComponentOf(i, v.affects[2]).purl # <<>> =>
        [product |-> ComponentOf(i, v.affects[2]).purl, vulnerability |-> v.id, status |-> "affected",
         upgradeTo |-> v.fixed] \in vexStatements(i)
  BY StatementsMade
<1>10. \A r \in log.results : r.at # {} /\ \A o \in r.at : o.path \notin TestPaths
  BY AlertsPoint DEF AlertsOf
<1>11. shown.rows = {tableRow(c) : c \in RowedOf(i)} /\ shown.summary = summary(i, RowedOf(i))
  BY DEF table, RowedOf
<1>12. /\ shown.summary.components = Cardinality(RowedOf(i))
       /\ shown.summary.vulnerabilities = SumOf({<<c.id, Cardinality(c.vulns)>> : c \in RowedOf(i)})
       /\ shown.summary.lifecycle = Cardinality({c \in RowedOf(i) : eolReportable(c)})
  <2>1. PICK a, b, c, d : /\ a = Cardinality(RowedOf(i)) /\ b = visibleRelationships(i, RowedOf(i))
                          /\ c = SumOf({<<x.id, Cardinality(x.vulns)>> : x \in RowedOf(i)})
                          /\ d = Cardinality({x \in RowedOf(i) : eolReportable(x)})
    OBVIOUS
  <2>2. summary(i, RowedOf(i)) = [components |-> a, relationships |-> b, vulnerabilities |-> c, lifecycle |-> d]
    BY <2>1 DEF summary
  <2>3. PICK t : t = summary(i, RowedOf(i))
    OBVIOUS
  <2>4. t.components = a /\ t.vulnerabilities = c /\ t.lifecycle = d
    BY <2>2, <2>3
  <2> QED
    BY <1>11, <2>1, <2>3, <2>4
<1>13. \A r \in shown.rows : r.evidence > 0
  BY <1>11, RowEach
<1>14. shown.summary.components = Cardinality(shown.rows)
  BY <1>11, <1>12, RowEach
<1>15. shown.summary.vulnerabilities = Cardinality(shown.vulnRows)
  BY <1>12, RowsCounted
<1>16. shown.summary.lifecycle = Cardinality(shown.eolRows)
  BY <1>12, EndRowEach
<1>17. \A c \in bom.components : \A l \in ComponentOf(i, c.bomRef[2]).identity : l \in c.identity \/ l.value \in c.ranges
  BY IdentityStated
<1>18. {r.component : r \in alerts("eol")} = {r.model : r \in shown.eolRows}
  BY <1>6, <1>7
<1>19. {r.model : r \in shown.eolRows}
         = {c.bomRef : c \in {x \in bom.components : /\ x.properties.lifecycle.state \in {"deprecated", "retired"}
                                                     /\ shipped(x.bomRef)}}
  BY <1>7, <1>8
<1> QED
  BY <1>1, <1>2, <1>4, <1>5, <1>9, <1>10, <1>13, <1>14, <1>15, <1>16, <1>17, <1>18, <1>19 DEF OneStory

(* The paths of fs and the versions it declares are texts with an order, and
   no version or download is called NOASSERTION. *)
Worded(fs) == /\ \A f \in fs : f.occurrence.path \in Range(Lexicon)
              /\ Versions(fs) \subseteq Range(Lexicon)
              /\ NoAssertion \notin Versions(fs) \cup Downloads(fs)

(* A component of the document is a finished draft with the overlays of the day. *)
LEMMA FinishedNow ==
  ASSUME FlowInv, phase = "done", NEW c \in doc.components
  PROVE  \E k \in DOMAIN drafts : /\ Alike(finish(k, drafts[k]), c)
                                  /\ c.vulns = Marked(Answers(c, world), world) /\ c.eol = Claim(c, world)
<1>1. inv = inventory(drafts, edges) /\ doc = Annotated(inv, world)
  BY DEF FlowInv
<1>2. Assembled(inv)
  BY <1>1, AssembledInventory
<1>3. (\E b \in inv.components : Alike(b, c)) /\ c.vulns = Marked(Answers(c, world), world) /\ c.eol = Claim(c, world)
  BY <1>1, <1>2, AnnotatedIs
<1>4. PICK b \in inventory(drafts, edges).components : Alike(b, c)
  BY <1>1, <1>3
<1>5. PICK k \in DOMAIN drafts : b = finish(k, drafts[k])
  BY <1>4, Finished
<1> QED
  BY <1>3, <1>4, <1>5

(* Every relation has one of the types there are. *)
LEMMA TypesNow ==
  ASSUME GivenInv, RelationInv, FlowInv, phase = "done", NEW r \in doc.relationships
  PROVE  r.type \in RelationTypes
<1>1. stage = "done" /\ inv = inventory(drafts, edges)
  BY DEF FlowInv
<1>2. doc.relationships = inv.relationships
  BY Documented
<1>3. PICK e \in DOMAIN edges : r.type = e[2]
  BY <1>1, <1>2 DEF inventory
<1>4. edges[e] # {} /\ \A q \in edges[e] : Backed(DOMAIN drafts, redirects, absorbed, e, q)
  BY <1>1 DEF RelationInv, Related
<1>5. PICK q \in Claimed(absorbed) : e[2] = q.hint.type
  BY <1>4 DEF Backed
<1>6. PICK n \in DOMAIN absorbed :
        \E m \in DOMAIN absorbed[n].relations : q.hint = absorbed[n].relations[m]
  BY <1>5 DEF Claimed
<1>7. PICK m \in DOMAIN absorbed[n].relations : q.hint = absorbed[n].relations[m]
  BY <1>6
<1>8. PICK f : f = absorbed[n] /\ f \in Range(absorbed)
  BY DEF Range
<1>9. PICK fs \in Candidates : f \in fs
  BY <1>8 DEF GivenInv
<1>10. q.hint \in Range(f.relations)
  BY <1>7, <1>8 DEF Range
<1>11. q.hint.type \in RelationTypes
  BY <1>9, <1>10, AssembleAssumption
<1> QED
  BY <1>3, <1>5, <1>11

(* Every draft but that of the scan target was found somewhere. *)
LEMMA SomewhereFound ==
  ASSUME NamesInv, DraftInv, stage = "done", NEW k \in DOMAIN drafts, k # RootKey
  PROVE  \E o : o \in Range(drafts[k].occs)
<1>1. k \in Keys(absorbed) /\ k \notin DOMAIN redirects
  BY DEF NamesInv, KeyInv
<1>2. PICK f \in Range(absorbed) : k = normalizeKey(f.claim)
  BY <1>1 DEF Keys
<1>3. HomeOf(redirects, f) = k
  BY <1>1, <1>2 DEF HomeOf, canonicalID, Lookup
<1>4. Carries(k.name, drafts[k], f)
  BY <1>3 DEF DraftInv, Placed
<1> QED
  BY <1>4 DEF Carries

(* Claims of a field are about that field. *)
LEMMA FieldOf == ASSUME NEW field, NEW claims, NEW l \in dedupeClaims(field, claims) PROVE l.field = field
  BY DEF dedupeClaims

(* An application has nothing a package registry or a model catalog would know. *)
LEMMA ApplicationsBare ==
  ASSUME FlowInv, KindInv, phase = "done", NEW c \in doc.components, c.kind = "application"
  PROVE  c.vulns = {} /\ ~eolReportable(c)
<1>1. PICK k \in DOMAIN drafts : /\ Alike(finish(k, drafts[k]), c)
                                 /\ c.vulns = Marked(Answers(c, world), world) /\ c.eol = Claim(c, world)
  BY FinishedNow
<1>2. PICK b : b = finish(k, drafts[k])
  OBVIOUS
<1>3. /\ b.kind = drafts[k].kind /\ b.purl = purlOf(k, drafts[k])
      /\ c.kind = b.kind /\ c.purl = b.purl
  <2>1. b.kind = drafts[k].kind /\ b.purl = purlOf(k, drafts[k])
    BY <1>2 DEF finish
  <2> QED
    BY <1>1, <1>2, <2>1, AlikeSame
<1>4. k.class = "app"
  <2>1. drafts[k].kind = "application" /\ classOf(drafts[k].kind) = k.class
    BY <1>3 DEF KindInv, Fitting
  <2> QED
    BY <2>1 DEF classOf
<1>5. purlOf(k, drafts[k]) = <<>>
  BY <1>4 DEF purlOf
<1>6. ~queryablePurl(c)
  BY <1>3, <1>5 DEF queryablePurl
<1>7. c.vulns = {}
  BY <1>1, <1>6 DEF Answers, Marked
<1>8. c.eol.state = ""
  <2>1. CASE catalogFor(world).catalog = Refused
    <3>1. c.eol = NoClaim
      BY <1>1, <2>1 DEF Claim
    <3>2. NoClaim.state = ""
      BY DEF NoClaim
    <3> QED
      BY <3>1, <3>2
  <2>2. CASE catalogFor(world).catalog # Refused
    <3>1. PICK cat, on : cat = catalogFor(world).catalog /\ on = world.day
      OBVIOUS
    <3>2. c.eol = enrichEOL(c, cat, on)
      BY <1>1, <2>2, <3>1 DEF Claim
    <3>3. enrichEOL(c, cat, on).state # "" => c.kind \in {"hosted-llm", "embedding-model"}
      BY Unknown
    <3> QED
      BY <3>2, <3>3
  <2> QED
    BY <2>1, <2>2
<1> QED
  BY <1>7, <1>8 DEF eolReportable

(* What the components of the document are like. *)
LEMMA CoherentEach ==
  ASSUME NamesInv, KindInv, DraftInv, RiskInv, GivenInv, FlowInv, phase = "done",
         \A fs \in Candidates : Worded(fs), NEW c \in doc.components
  PROVE  /\ c.version # NoAssertion /\ c.downloadLocation # NoAssertion
         /\ c.kind # "application" => c.occs # <<>>
         /\ c.testOnly <=> c.occs # <<>> /\ \A o \in Range(c.occs) : o.path \in TestPaths
         /\ \A l \in c.identity : l.field \in {"name", "version", "versionConstraint"}
         /\ \A o \in Range(c.occs) : o.path \in Range(Lexicon) /\ o.line \in Nat
<1>1. PICK k \in DOMAIN drafts : Alike(finish(k, drafts[k]), c)
  BY FinishedNow
<1>2. PICK d : d = drafts[k]
  OBVIOUS
<1>3. PICK b : b = finish(k, d)
  OBVIOUS
<1>4. /\ b.id = k /\ b.kind = d.kind /\ b.version = winner(d.versionClaims) /\ b.downloadLocation = d.downloadLocation
      /\ b.occs = dedupOccs(d.occs)
      /\ b.identity = dedupeClaims("version", d.versionClaims)
                      \cup dedupeClaims("versionConstraint", d.constraintClaims) \cup dedupeClaims("name", d.nameClaims)
  BY <1>3 DEF finish
<1>5. b.testOnly = (b.occs # <<>> /\ \A o \in Range(b.occs) : o.path \in TestPaths)
  BY <1>3 DEF finish
<1>6. /\ c.kind = b.kind /\ c.version = b.version /\ c.downloadLocation = b.downloadLocation /\ c.occs = b.occs
      /\ c.identity = b.identity /\ c.testOnly = b.testOnly
  BY <1>1, <1>2, <1>3 DEF Alike, Facts
<1>7. PICK fs \in Candidates : Range(absorbed) \subseteq fs
  BY DEF GivenInv
<1>8. Worded(fs)
  BY <1>7
<1>9. Modest(d, fs)
  <2>1. Modest(d, Range(absorbed)) /\ Range(absorbed) \subseteq fs
    BY <1>2, <1>7 DEF RiskInv
  <2> QED
    BY <2>1, ModestOfMore
<1>10. WellMade(d, Sightings(absorbed))
  BY <1>2 DEF DraftInv, Placed
<1>11. winner(d.versionClaims) = "" \/ winner(d.versionClaims) \in Versions(fs)
  <2>1. Certain(d.versionClaims) /\ \A x \in Range(d.versionClaims) : x.value \in Range(Lexicon)
    BY <1>8, <1>9, <1>10 DEF WellMade, Modest, Worded
  <2>2. winner(d.versionClaims) = "" \/ \E x \in Range(d.versionClaims) : winner(d.versionClaims) = x.value
    BY <2>1, WinnerIs
  <2> QED
    BY <1>9, <2>2 DEF Modest
<1>12. c.version # NoAssertion
  BY <1>4, <1>6, <1>8, <1>11 DEF Worded, NoAssertion
<1>13. c.downloadLocation # NoAssertion
  BY <1>4, <1>6, <1>8, <1>9 DEF Worded, Modest, NoAssertion
<1>14. /\ IsSeq(d.occs) /\ IsSeq(c.occs) /\ Range(c.occs) \subseteq Range(d.occs)
       /\ \A o \in Range(d.occs) : \E x \in Range(c.occs) : SameSighting(x, o)
  <2>1. IsSeq(d.occs)
    BY <1>10 DEF WellMade
  <2> QED
    BY <1>4, <1>6, <2>1, SightingsStay
<1>15. ASSUME c.kind # "application" PROVE c.occs # <<>>
  <2>1. k # RootKey
    <3>1. classOf(d.kind) = k.class
      BY <1>2 DEF KindInv, Fitting
    <3>2. d.kind # "application"
      BY <1>4, <1>6, <1>15
    <3>3. d.kind # "app"
      BY <1>2 DEF KindInv, Fitting, ComponentKinds
    <3>4. k.class # "app"
      BY <3>1, <3>2, <3>3 DEF classOf
    <3>5. RootKey.class = "app"
      BY DEF RootKey
    <3> QED
      BY <3>4, <3>5
  <2>2. stage = "done"
    BY DEF FlowInv
  <2>3. PICK o : o \in Range(d.occs)
    BY <1>2, <2>1, <2>2, SomewhereFound
  <2>4. PICK x : x \in Range(c.occs)
    BY <1>14, <2>3
  <2> QED
    BY <2>4 DEF Range
<1>16. c.testOnly <=> c.occs # <<>> /\ \A o \in Range(c.occs) : o.path \in TestPaths
  BY <1>5, <1>6
<1>17. \A l \in c.identity : l.field \in {"name", "version", "versionConstraint"}
  BY <1>4, <1>6, FieldOf
<1>18. ASSUME NEW o \in Range(c.occs) PROVE o.path \in Range(Lexicon) /\ o.line \in Nat
  <2>1. o \in Sightings(absorbed)
    BY <1>10, <1>14 DEF WellMade
  <2>2. PICK f \in fs : o = f.occurrence
    BY <1>7, <2>1 DEF Sightings
  <2>3. f.occurrence.path \in Range(Lexicon)
    BY <1>8 DEF Worded
  <2>4. f.occurrence.line \in Nat
    BY <1>7, AssembleAssumption
  <2> QED
    BY <2>2, <2>3, <2>4
<1> QED
  BY <1>12, <1>13, <1>15, <1>16, <1>17, <1>18

(* So the document is coherent, and the formats tell one story of it. *)
LEMMA AgreeNow ==
  ASSUME NamesInv, KindInv, DraftInv, GivenInv, RelationInv, RiskInv, FlowInv, \A fs \in Candidates : Worded(fs)
  PROVE  DocumentsAgree
<1> SUFFICES ASSUME phase = "done" PROVE OneStory(doc)
  BY DEF DocumentsAgree
<1>1. Listable(doc)
  BY ListableNow
<1>2. OwnIds(doc)
  BY Documented DEF Annotable
<1>3. \A r \in doc.relationships : r.type \in RelationTypes
  BY TypesNow
<1>4. ASSUME NEW c \in doc.components
      PROVE  /\ \A v, u \in c.vulns : v.id = u.id => v = u
             /\ c.kind = "application" => c.vulns = {} /\ ~eolReportable(c)
             /\ c.id = doc.root => c.kind = "application"
  <2>1. AdvisoriesKept
    BY Kept
  <2>2. \A v, u \in c.vulns : v.id = u.id => v = u
    BY <2>1 DEF AdvisoriesKept
  <2> QED
    BY <2>2, ApplicationsBare, RootKind
<1>5. \A c \in doc.components :
        /\ c.version # NoAssertion /\ c.downloadLocation # NoAssertion
        /\ c.kind # "application" => c.occs # <<>>
        /\ c.testOnly <=> c.occs # <<>> /\ \A o \in Range(c.occs) : o.path \in TestPaths
        /\ \A l \in c.identity : l.field \in {"name", "version", "versionConstraint"}
        /\ \A o \in Range(c.occs) : o.path \in Range(Lexicon) /\ o.line \in Nat
  BY CoherentEach
<1>6. Coherent(doc)
  BY <1>1, <1>2, <1>3, <1>4, <1>5 DEF Coherent
<1> QED
  BY <1>6, CoherentIsOneStory

(* CycloneDX, SPDX, SARIF, OpenVEX and the table tell one story of any scan, in
   any world: as long as paths and versions are texts that have an order, and
   nothing is called NOASSERTION. *)
THEOREM FormatsAgree ==
  ASSUME \A fs \in Candidates : Worded(fs)
  PROVE  ISpec => []DocumentsAgree
<1>1. IInit => GivenInv /\ RelationInv /\ BuiltInv
  BY InitRelations DEF IInit
<1>2. /\ NamesInv /\ KindInv /\ DraftInv /\ ParamInv /\ BuiltInv /\ GivenInv /\ RelationInv /\ RiskInv /\ FlowInv
      => DocumentsAgree
  BY AgreeNow
<1> QED
  BY <1>1, <1>2, Names, Kinds, Drafts, Flow, Risks, BuiltStep, GivenStep, RelationStep, PTL DEF ISpec

-----------------------------------------------------------------------------
(* One assembly against another *)

(* Absorbing is done finding by finding. *)
AbsorbsTo(G, fs, n) ==
  /\ DOMAIN G = 0 .. n /\ G[0] = << >>
  /\ \A i \in 1 .. n : G[i] = absorb(G[i - 1], fs[i])

(* The drafts can be listed, for any number of findings. *)
LEMMA AbsorbExists == ASSUME NEW fs, NEW n \in Nat PROVE \E G : AbsorbsTo(G, fs, n)
<1>1. PICK T : T = {m \in Nat : \E G : AbsorbsTo(G, fs, m)}
  OBVIOUS
<1>2. 0 \in T
  <2>1. PICK none : none = << >>
    OBVIOUS
  <2>2. PICK G : G = [i \in 0 .. 0 |-> none]
    OBVIOUS
  <2>3. AbsorbsTo(G, fs, 0)
    BY <2>1, <2>2 DEF AbsorbsTo
  <2> QED
    BY <1>1, <2>3
<1>3. ASSUME NEW m \in Nat, m \in T PROVE m + 1 \in T
  <2>1. PICK F : AbsorbsTo(F, fs, m)
    BY <1>1, <1>3
  <2>2. PICK new : new = absorb(F[m], fs[m + 1])
    OBVIOUS
  <2>3. PICK G : G = [i \in 0 .. m + 1 |-> IF i = m + 1 THEN new ELSE F[i]]
    OBVIOUS
  <2>4. DOMAIN G = 0 .. m + 1 /\ G[m + 1] = new /\ \A i \in 0 .. m : G[i] = F[i]
    BY <2>3
  <2>5. G[0] = << >>
    BY <2>1, <2>4 DEF AbsorbsTo
  <2>6. ASSUME NEW i \in 1 .. m + 1 PROVE G[i] = absorb(G[i - 1], fs[i])
    <3>1. CASE i = m + 1
      <4>1. i - 1 = m /\ m \in 0 .. m
        BY <3>1
      <4> QED
        BY <2>2, <2>4, <3>1, <4>1
    <3>2. CASE i # m + 1
      <4>1. i \in 1 .. m /\ i \in 0 .. m /\ i - 1 \in 0 .. m
        BY <3>2
      <4> QED
        BY <2>1, <2>4, <4>1 DEF AbsorbsTo
    <3> QED
      BY <3>1, <3>2
  <2>7. AbsorbsTo(G, fs, m + 1)
    BY <2>4, <2>5, <2>6 DEF AbsorbsTo
  <2> QED
    BY <1>1, <2>7
<1>4. n \in T
  BY <1>2, <1>3, Induction
<1> QED
  BY <1>1, <1>4

(* absorbAll is the last of such a list. *)
LEMMA AbsorbRuns ==
  ASSUME NEW fs, Len(fs) \in Nat
  PROVE  \E G : AbsorbsTo(G, fs, Len(fs)) /\ absorbAll(fs) = G[Len(fs)]
<1> DEFINE N == Len(fs)
<1>1. PICK F : AbsorbsTo(F, fs, N)
  BY AbsorbExists
<1>e. PICK none : none = << >>
  OBVIOUS
<1>2. PICK G : G = [n \in 0 .. N |-> F[n]]
  OBVIOUS
<1>3. ASSUME NEW n \in 0 .. N
      PROVE  G[n] = IF n = 0 THEN none ELSE absorb(G[n - 1], fs[n])
  <2>1. CASE n = 0
    BY <1>1, <1>2, <1>e, <2>1 DEF AbsorbsTo
  <2>2. CASE n # 0
    <3>1. n \in 1 .. N /\ n - 1 \in 0 .. N
      BY <2>2
    <3>2. G[n] = F[n] /\ G[n - 1] = F[n - 1]
      BY <1>2, <3>1
    <3> QED
      BY <1>1, <2>2, <3>1, <3>2 DEF AbsorbsTo
  <2> QED
    BY <2>1, <2>2
<1>4. G = [n \in 0 .. N |-> IF n = 0 THEN none ELSE absorb(G[n - 1], fs[n])]
  <2>1. PICK f : f = [n \in 0 .. N |-> IF n = 0 THEN none ELSE absorb(G[n - 1], fs[n])]
    OBVIOUS
  <2>2. DOMAIN f = 0 .. N /\ \A n \in 0 .. N : f[n] = IF n = 0 THEN none ELSE absorb(G[n - 1], fs[n])
    BY <2>1
  <2>3. f = [n \in 0 .. N |-> f[n]]
    BY <2>1
  <2>4. \A n \in 0 .. N : f[n] = G[n]
    BY <1>3, <2>2
  <2>5. f = G
    BY <1>2, <2>3, <2>4
  <2> QED
    BY <2>1, <2>5
<1>5. PICK upTo : upTo = CHOOSE H : H = [n \in 0 .. N |-> IF n = 0 THEN none ELSE absorb(H[n - 1], fs[n])]
  OBVIOUS
<1>6. upTo = [n \in 0 .. N |-> IF n = 0 THEN none ELSE absorb(upTo[n - 1], fs[n])]
  BY <1>4, <1>5
<1>7. absorbAll(fs) = upTo[N]
  BY <1>5, <1>e DEF absorbAll
<1>8. AbsorbsTo(upTo, fs, N)
  <2>1. DOMAIN upTo = 0 .. N /\ \A n \in 0 .. N : upTo[n] = IF n = 0 THEN none ELSE absorb(upTo[n - 1], fs[n])
    BY <1>6
  <2>2. \A n \in 1 .. N : upTo[n] = absorb(upTo[n - 1], fs[n])
    BY <2>1
  <2> QED
    BY <1>e, <2>1, <2>2 DEF AbsorbsTo
<1> QED
  BY <1>7, <1>8

(* Two such lists of the same findings agree, as far as both go. *)
LEMMA AbsorbSame ==
  ASSUME NEW fs, NEW gs, NEW m \in Nat, NEW n \in Nat, m <= n, NEW F, AbsorbsTo(F, fs, m), NEW G, AbsorbsTo(G, gs, n),
         \A i \in 1 .. m : gs[i] = fs[i]
  PROVE  F[m] = G[m]
<1>1. PICK T : T = {i \in Nat : i <= m => F[i] = G[i]}
  OBVIOUS
<1>2. 0 \in T
  BY <1>1 DEF AbsorbsTo
<1>3. ASSUME NEW i \in Nat, i \in T PROVE i + 1 \in T
  <2>1. CASE i + 1 <= m
    <3>1. PICK j : j = i + 1 /\ j \in 1 .. m /\ j \in 1 .. n /\ j - 1 = i /\ F[i] = G[i]
      BY <1>1, <1>3, <2>1
    <3>2. F[j] = absorb(F[j - 1], fs[j]) /\ G[j] = absorb(G[j - 1], gs[j]) /\ gs[j] = fs[j]
      BY <3>1 DEF AbsorbsTo
    <3>3. F[j] = G[j]
      BY <3>1, <3>2
    <3> QED
      BY <1>1, <3>1, <3>3
  <2>2. CASE ~(i + 1 <= m)
    BY <1>1, <2>2
  <2> QED
    BY <2>1, <2>2
<1>4. m \in T
  BY <1>2, <1>3, Induction
<1> QED
  BY <1>1, <1>4

(* One more finding is absorbed last. *)
LEMMA AbsorbLast ==
  ASSUME NEW S, NEW fs \in Seq(S), NEW f \in S
  PROVE  absorbAll(Append(fs, f)) = absorb(absorbAll(fs), f)
<1>1. PICK gs : gs = Append(fs, f)
  OBVIOUS
<1>2. PICK n : n = Len(fs) /\ n \in Nat /\ Len(gs) = n + 1 /\ gs[n + 1] = f /\ \A i \in 1 .. n : gs[i] = fs[i]
  BY <1>1, AppendProperties, LenProperties
<1>3. PICK F : AbsorbsTo(F, fs, n) /\ absorbAll(fs) = F[n]
  BY <1>2, AbsorbRuns
<1>4. PICK G : AbsorbsTo(G, gs, n + 1) /\ absorbAll(gs) = G[n + 1]
  BY <1>2, AbsorbRuns
<1>5. PICK m : m = n + 1 /\ m \in Nat /\ n <= m /\ m \in 1 .. m /\ m - 1 = n
  BY <1>2
<1>6. F[n] = G[n]
  BY <1>2, <1>3, <1>4, <1>5, AbsorbSame
<1>7. G[m] = absorb(G[m - 1], gs[m])
  BY <1>4, <1>5 DEF AbsorbsTo
<1> QED
  BY <1>1, <1>2, <1>3, <1>4, <1>5, <1>6, <1>7

(* Nothing is made of nothing. *)
LEMMA AbsorbNone == absorbAll(<<>>) = <<>>
<1>1. PICK none : none = <<>> /\ Len(none) = 0
  BY EmptySeq
<1>2. PICK G : AbsorbsTo(G, none, 0) /\ absorbAll(none) = G[0]
  BY <1>1, AbsorbRuns
<1> QED
  BY <1>1, <1>2 DEF AbsorbsTo

-----------------------------------------------------------------------------
(* What the assembly has in hand is what Build computes of the findings
   absorbed, stage by stage. *)
Homes(fs) == redirected(absorbAll(fs))
Folded(fs) == mintRoot(foldInto(absorbAll(fs), Homes(fs)))
GoneInv ==
  /\ stage = "absorb" => drafts = absorbAll(absorbed)
  /\ stage # "absorb" => redirects = Homes(absorbed)
  /\ stage = "relate" => drafts = Folded(absorbed)
  /\ stage \in {"finish", "done"} => /\ drafts = promoteParams(Folded(absorbed))
                                     /\ edges = resolveRelations(Folded(absorbed), Homes(absorbed), absorbed)

(* No step leaves the path of Build. *)
LEMMA GoneStep == NamesInv /\ GoneInv /\ [INext]_<<vars, ovars>> => GoneInv'
<1> SUFFICES ASSUME NamesInv, GoneInv, [Next]_vars PROVE GoneInv'
  BY AssemblyOrSame
<1>1. ASSUME NEW f \in pending, Absorb(f) PROVE GoneInv'
  <2>1. /\ stage = "absorb" /\ stage' = "absorb" /\ absorbed' = Append(absorbed, f)
        /\ drafts' = absorb(drafts, f) /\ drafts = absorbAll(absorbed)
    BY <1>1 DEF Absorb, GoneInv
  <2>2. PICK S : S = AllFindings
    OBVIOUS
  <2>3. absorbed \in Seq(S) /\ f \in S
    BY <2>2 DEF NamesInv, ArrivalInv
  <2>4. drafts' = absorbAll(absorbed')
    BY <2>1, <2>3, AbsorbLast
  <2> QED
    BY <2>1, <2>4 DEF GoneInv
<1>2. ASSUME Fold PROVE GoneInv'
  <2>1. /\ stage = "absorb" /\ stage' = "relate" /\ absorbed' = absorbed
        /\ redirects' = redirected(drafts) /\ drafts' = mintRoot(foldInto(drafts, redirects'))
        /\ drafts = absorbAll(absorbed)
    BY <1>2 DEF Fold, GoneInv
  <2>2. redirects' = Homes(absorbed) /\ drafts' = Folded(absorbed)
    BY <2>1 DEF Homes, Folded
  <2> QED
    BY <2>1, <2>2 DEF GoneInv
<1>3. ASSUME Relate PROVE GoneInv'
  <2>1. /\ stage = "relate" /\ stage' = "finish" /\ absorbed' = absorbed /\ redirects' = redirects
        /\ edges' = resolveRelations(drafts, redirects, absorbed) /\ drafts' = promoteParams(drafts)
        /\ redirects = Homes(absorbed) /\ drafts = Folded(absorbed)
    BY <1>3 DEF Relate, GoneInv
  <2> QED
    BY <2>1 DEF GoneInv
<1>4. ASSUME Finish PROVE GoneInv'
  <2>1. /\ stage = "finish" /\ stage' = "done" /\ absorbed' = absorbed /\ redirects' = redirects
        /\ drafts' = drafts /\ edges' = edges
    BY <1>4 DEF Finish
  <2> QED
    BY <2>1 DEF GoneInv
<1>5. ASSUME Done \/ UNCHANGED vars PROVE GoneInv'
  <2>1. /\ stage' = stage /\ absorbed' = absorbed /\ redirects' = redirects
        /\ drafts' = drafts /\ edges' = edges
    BY <1>5 DEF Done, vars
  <2> QED
    BY <2>1 DEF GoneInv
<1> QED
  BY <1>1, <1>2, <1>3, <1>4, <1>5 DEF Next

(* Nothing is absorbed at first. *)
LEMMA InitGone == Init => GoneInv
  BY AbsorbNone DEF Init, GoneInv

(* The steps of the assembly compute Build, of the findings in their order. *)
LEMMA InOneGo == GoneInv /\ BuiltInv => (stage = "done" => inv = Build(absorbed))
<1> SUFFICES ASSUME GoneInv, BuiltInv, stage = "done" PROVE inv = Build(absorbed)
  OBVIOUS
<1>1. /\ inv = inventory(drafts, edges) /\ drafts = promoteParams(Folded(absorbed))
      /\ edges = resolveRelations(Folded(absorbed), Homes(absorbed), absorbed)
  BY DEF GoneInv, BuiltInv
<1> QED
  BY <1>1 DEF Build, Folded, Homes

-----------------------------------------------------------------------------
(* Drafts that agree but for some names *)

(* As far as a comparison reports an identity, two drafts of it are the same. *)
Peers(d, e) == DOMAIN d = DraftFields /\ DOMAIN e = DraftFields /\ e.kind = d.kind /\ e.occs = d.occs
Outside(ds, M) == {k \in DOMAIN ds : k.name \notin M}
AgreeBut(M, ds, es) ==
  /\ IsFiniteSet(DOMAIN ds) /\ IsFiniteSet(DOMAIN es)
  /\ Outside(ds, M) = Outside(es, M)
  /\ \A k \in Outside(ds, M) : Peers(ds[k], es[k])

(* A finding leaves every draft of another name as it was. *)
LEMMA AbsorbApart ==
  ASSUME NEW M, NEW ds, NEW es, AgreeBut(M, ds, es), NEW f, normalizeKey(f.claim).name \in M
  PROVE  AgreeBut(M, absorb(ds, f), es)
<1>1. PICK key : key = normalizeKey(f.claim) /\ key.name \in M
  OBVIOUS
<1>2. PICK new : new = absorb(ds, f)
  OBVIOUS
<1>3. DOMAIN new = DOMAIN ds \cup {key} /\ \A k \in DOMAIN ds : k # key => new[k] = ds[k]
  BY <1>1, <1>2 DEF absorb
<1>4. IsFiniteSet(DOMAIN new)
  BY <1>3, FS_AddElement DEF AgreeBut
<1>5. Outside(new, M) = Outside(ds, M)
  BY <1>1, <1>3 DEF Outside
<1>6. \A k \in Outside(ds, M) : new[k] = ds[k]
  BY <1>1, <1>3 DEF Outside
<1> QED
  BY <1>2, <1>4, <1>5, <1>6 DEF AgreeBut

(* Two findings of one identity and kind, seen at one place, add the same to both. *)
LEMMA AbsorbPeers ==
  ASSUME NEW d, NEW e, Peers(d, e), NEW key, NEW f, NEW g,
         g.claim.kind = f.claim.kind, g.occurrence = f.occurrence
  PROVE  Peers(absorbInto(d, key, f), absorbInto(e, key, g))
<1>1. \A x, h : DOMAIN x = DraftFields =>
        LET a == absorbInto(x, key, h) IN
        /\ DOMAIN a = DraftFields /\ a.kind = MoreSpecific(h.claim.kind, x.kind)
        /\ a.occs = Append(x.occs, h.occurrence)
  <2> TAKE x, h
  <2> HAVE DOMAIN x = DraftFields
  <2>1. PICK a : a = absorbInto(x, key, h)
    OBVIOUS
  <2>2. DOMAIN a = DOMAIN x
    BY <2>1 DEF absorbInto
  <2>3. a.kind = MoreSpecific(h.claim.kind, x.kind)
    BY <2>1 DEF absorbInto, DraftFields
  <2>4. a.occs = Append(x.occs, h.occurrence)
    BY <2>1 DEF absorbInto, DraftFields
  <2> QED
    BY <2>1, <2>2, <2>3, <2>4
<1>2. PICK a, b : a = absorbInto(d, key, f) /\ b = absorbInto(e, key, g)
  OBVIOUS
<1>3. DOMAIN a = DraftFields /\ a.kind = MoreSpecific(f.claim.kind, d.kind) /\ a.occs = Append(d.occs, f.occurrence)
  BY <1>1, <1>2 DEF Peers
<1>4. DOMAIN b = DraftFields /\ b.kind = MoreSpecific(g.claim.kind, e.kind) /\ b.occs = Append(e.occs, g.occurrence)
  BY <1>1, <1>2 DEF Peers
<1> QED
  BY <1>2, <1>3, <1>4 DEF Peers

(* New drafts of one kind are the same. *)
LEMMA FreshPeers == ASSUME NEW key, NEW kind PROVE Peers(fresh(key, kind), fresh(key, kind))
<1>1. DOMAIN fresh(key, kind) = DraftFields
  BY DEF fresh, DraftFields
<1> QED
  BY <1>1 DEF Peers

(* So drafts that agree still do after both. *)
LEMMA AbsorbAgree ==
  ASSUME NEW M, NEW ds, NEW es, AgreeBut(M, ds, es), NEW f, NEW g,
         normalizeKey(g.claim) = normalizeKey(f.claim), g.claim.kind = f.claim.kind, g.occurrence = f.occurrence
  PROVE  AgreeBut(M, absorb(ds, f), absorb(es, g))
<1>1. PICK key : key = normalizeKey(f.claim)
  OBVIOUS
<1>2. PICK a, b : a = absorb(ds, f) /\ b = absorb(es, g)
  OBVIOUS
<1>3. /\ DOMAIN a = DOMAIN ds \cup {key} /\ \A k \in DOMAIN ds : k # key => a[k] = ds[k]
      /\ a[key] = absorbInto(DraftOf(ds, key, f.claim.kind), key, f)
  BY <1>1, <1>2 DEF absorb
<1>4. /\ DOMAIN b = DOMAIN es \cup {key} /\ \A k \in DOMAIN es : k # key => b[k] = es[k]
      /\ b[key] = absorbInto(DraftOf(es, key, g.claim.kind), key, g)
  BY <1>1, <1>2 DEF absorb
<1>5. IsFiniteSet(DOMAIN a) /\ IsFiniteSet(DOMAIN b)
  BY <1>3, <1>4, FS_AddElement DEF AgreeBut
<1>6. Outside(a, M) = Outside(b, M)
  <2>1. Outside(a, M) = Outside(ds, M) \cup {k \in {key} : k.name \notin M}
    BY <1>3 DEF Outside
  <2>2. Outside(b, M) = Outside(es, M) \cup {k \in {key} : k.name \notin M}
    BY <1>4 DEF Outside
  <2> QED
    BY <2>1, <2>2 DEF AgreeBut
<1>7. ASSUME NEW k \in Outside(a, M) PROVE Peers(a[k], b[k])
  <2>1. CASE k = key
    <3>1. key \in DOMAIN ds <=> key \in DOMAIN es
      BY <1>7, <2>1 DEF Outside, AgreeBut
    <3>2. Peers(DraftOf(ds, key, f.claim.kind), DraftOf(es, key, f.claim.kind))
      <4>1. CASE key \in DOMAIN ds
        <5>1. key \in Outside(ds, M)
          BY <1>7, <2>1, <4>1 DEF Outside
        <5> QED
          BY <3>1, <4>1, <5>1 DEF DraftOf, AgreeBut
      <4>2. CASE key \notin DOMAIN ds
        BY <3>1, <4>2, FreshPeers DEF DraftOf
      <4> QED
        BY <4>1, <4>2
    <3>3. Peers(absorbInto(DraftOf(ds, key, f.claim.kind), key, f), absorbInto(DraftOf(es, key, f.claim.kind), key, g))
      BY <3>2, AbsorbPeers
    <3> QED
      BY <1>3, <1>4, <2>1, <3>3
  <2>2. CASE k # key
    <3>1. k \in Outside(ds, M) /\ k \in Outside(es, M)
      BY <1>3, <1>7, <2>2 DEF Outside, AgreeBut
    <3>2. a[k] = ds[k] /\ b[k] = es[k]
      BY <1>3, <1>4, <2>2, <3>1 DEF Outside
    <3> QED
      BY <3>1, <3>2 DEF AgreeBut
  <2> QED
    BY <2>1, <2>2
<1> QED
  BY <1>2, <1>5, <1>6, <1>7 DEF AgreeBut

(* No drafts agree with no drafts. *)
LEMMA NoneAgree == ASSUME NEW M PROVE AgreeBut(M, <<>>, <<>>)
<1>1. PICK none : none = <<>> /\ DOMAIN none = {}
  OBVIOUS
<1>2. AgreeBut(M, none, none)
  BY <1>1, FS_EmptySet DEF AgreeBut, Outside
<1> QED
  BY <1>1, <1>2

(* The same findings but for what a claim says of versions and the like. *)
LEMMA AllAgree ==
  ASSUME NEW fs, NEW gs, NEW N \in Nat, Len(fs) = N, Len(gs) = N,
         \A i \in 1 .. N : /\ normalizeKey(gs[i].claim) = normalizeKey(fs[i].claim)
                           /\ gs[i].claim.kind = fs[i].claim.kind /\ gs[i].occurrence = fs[i].occurrence
  PROVE  AgreeBut({}, absorbAll(fs), absorbAll(gs))
<1>1. PICK F : AbsorbsTo(F, fs, N) /\ absorbAll(fs) = F[N]
  BY AbsorbRuns
<1>2. PICK G : AbsorbsTo(G, gs, N) /\ absorbAll(gs) = G[N]
  BY AbsorbRuns
<1>3. PICK T : T = {i \in Nat : i <= N => AgreeBut({}, F[i], G[i])}
  OBVIOUS
<1>4. 0 \in T
  BY <1>1, <1>2, <1>3, NoneAgree DEF AbsorbsTo
<1>5. ASSUME NEW i \in Nat, i \in T PROVE i + 1 \in T
  <2>1. CASE i + 1 <= N
    <3>1. PICK j : j = i + 1 /\ j \in 1 .. N /\ j - 1 = i /\ AgreeBut({}, F[i], G[i])
      BY <1>3, <1>5, <2>1
    <3>2. F[j] = absorb(F[i], fs[j]) /\ G[j] = absorb(G[i], gs[j])
      BY <1>1, <1>2, <3>1 DEF AbsorbsTo
    <3>3. PICK f, g : f = fs[j] /\ g = gs[j]
      OBVIOUS
    <3>4. normalizeKey(g.claim) = normalizeKey(f.claim) /\ g.claim.kind = f.claim.kind /\ g.occurrence = f.occurrence
      BY <3>1, <3>3
    <3>5. AgreeBut({}, F[j], G[j])
      BY <3>1, <3>2, <3>3, <3>4, AbsorbAgree
    <3> QED
      BY <1>3, <3>1, <3>5
  <2>2. CASE ~(i + 1 <= N)
    BY <1>3, <2>2
  <2> QED
    BY <2>1, <2>2
<1>6. N \in T
  BY <1>4, <1>5, Induction
<1> QED
  BY <1>1, <1>2, <1>3, <1>6

(* The same findings without one: only drafts of its name may differ. *)
LEMMA OneLessAgree ==
  ASSUME NEW fs, NEW gs, NEW N \in Nat, Len(fs) = N, NEW n \in 1 .. N, Len(gs) = N - 1,
         \A i \in 1 .. N : i < n => gs[i] = fs[i],
         \A i \in 1 .. N : i > n => gs[i - 1] = fs[i]
  PROVE  AgreeBut({normalizeKey(fs[n].claim).name}, absorbAll(fs), absorbAll(gs))
<1>0. PICK M : M = {normalizeKey(fs[n].claim).name}
  OBVIOUS
<1>1. PICK F : AbsorbsTo(F, fs, N) /\ absorbAll(fs) = F[N]
  BY AbsorbRuns
<1>2. PICK K : K = N - 1 /\ K \in Nat
  OBVIOUS
<1>3. PICK G : AbsorbsTo(G, gs, K) /\ absorbAll(gs) = G[K]
  BY <1>2, AbsorbRuns
<1>4. PICK T : T = {i \in Nat : i <= N => AgreeBut(M, F[i], G[IF i < n THEN i ELSE i - 1])}
  OBVIOUS
<1>5. 0 \in T
  <2>1. F[0] = <<>> /\ G[0] = <<>> /\ 0 < n
    BY <1>1, <1>3 DEF AbsorbsTo
  <2> QED
    BY <1>4, <2>1, NoneAgree
<1>6. ASSUME NEW i \in Nat, i \in T PROVE i + 1 \in T
  <2>1. CASE i + 1 <= N
    <3>1. PICK j : j = i + 1 /\ j \in 1 .. N /\ j - 1 = i
      BY <2>1
    <3>2. F[j] = absorb(F[i], fs[j]) /\ i <= N
      BY <1>1, <3>1 DEF AbsorbsTo
    <3>3. CASE j < n
      <4>1. i < n /\ j \in 1 .. K
        BY <1>2, <3>1, <3>3
      <4>2. AgreeBut(M, F[i], G[i])
        BY <1>4, <1>6, <3>2, <4>1
      <4>3. G[j] = absorb(G[i], gs[j]) /\ gs[j] = fs[j]
        BY <1>3, <3>1, <3>3, <4>1 DEF AbsorbsTo
      <4>4. AgreeBut(M, F[j], G[j])
        BY <3>2, <4>2, <4>3, AbsorbAgree
      <4> QED
        BY <1>4, <3>1, <3>3, <4>4
    <3>4. CASE j = n
      <4>1. i < n /\ ~(j < n)
        BY <3>1, <3>4
      <4>2. AgreeBut(M, F[i], G[i])
        BY <1>4, <1>6, <3>2, <4>1
      <4>3. AgreeBut(M, F[j], G[i])
        BY <1>0, <3>2, <3>4, <4>2, AbsorbApart
      <4> QED
        BY <1>4, <3>1, <4>1, <4>3
    <3>5. CASE j > n
      <4>1. PICK m : m = i - 1 /\ i \in 1 .. K /\ ~(i < n) /\ ~(j < n)
        BY <1>2, <3>1, <3>5
      <4>2. AgreeBut(M, F[i], G[m])
        BY <1>4, <1>6, <3>2, <4>1
      <4>3. G[i] = absorb(G[m], gs[i]) /\ gs[i] = fs[j]
        BY <1>3, <3>1, <3>5, <4>1 DEF AbsorbsTo
      <4>4. AgreeBut(M, F[j], G[i])
        BY <3>2, <4>2, <4>3, AbsorbAgree
      <4> QED
        BY <1>4, <3>1, <4>1, <4>4
    <3> QED
      BY <3>1, <3>3, <3>4, <3>5
  <2>2. CASE ~(i + 1 <= N)
    BY <1>4, <2>2
  <2> QED
    BY <2>1, <2>2
<1>7. N \in T
  BY <1>5, <1>6, Induction
<1>8. ~(N < n)
  OBVIOUS
<1> QED
  BY <1>0, <1>1, <1>2, <1>3, <1>4, <1>7, <1>8

(* foldPackages looks only at drafts of the same name. *)
LEMMA PackagesAgree ==
  ASSUME NEW M, NEW ds, NEW es, Outside(ds, M) = Outside(es, M), NEW k \in DOMAIN foldPackages(ds), k.name \notin M
  PROVE  k \in DOMAIN foldPackages(es) /\ foldPackages(es)[k] = foldPackages(ds)[k]
<1>1. PICK A : A = Declared(DOMAIN ds, k)
  OBVIOUS
<1>2. Declared(DOMAIN es, k) = A
  <2>1. \A t : t.name = k.name => (t \in DOMAIN ds <=> t \in DOMAIN es)
    BY DEF Outside
  <2> QED
    BY <1>1, <2>1 DEF Declared
<1>3. /\ k \in DOMAIN ds /\ k.class = "package" /\ Discless(k) /\ Cardinality(A) = 1
      /\ foldPackages(ds)[k] = CHOOSE t \in A : TRUE
  BY <1>1 DEF foldPackages, Declared
<1>4. k \in DOMAIN es
  BY <1>3 DEF Outside
<1>5. k \in DOMAIN foldPackages(es) /\ foldPackages(es)[k] = CHOOSE t \in Declared(DOMAIN es, k) : TRUE
  BY <1>2, <1>3, <1>4 DEF foldPackages, Declared
<1> QED
  BY <1>2, <1>3, <1>5

(* Where the models of name n go: to the only one with a vendor, or to its publisher's. *)
ModelHome(D, n) ==
  LET V == Vendored(D, n)
  IN IF Cardinality(V) = 1 THEN V
     ELSE {k \in V : Cardinality(V) > 1 /\ n \in DOMAIN Publisher /\ k.provider = Publisher[n]}

(* foldModels sends a model there, unless it is there. *)
LEMMA ModelsGo ==
  ASSUME NEW ds
  PROVE  foldModels(ds) =
           [k \in {x \in DOMAIN ds : /\ x.class = "hosted-model" /\ ModelHome(DOMAIN ds, x.name) \notin {{}, {x}}
                                     /\ x \notin ModelHome(DOMAIN ds, x.name)} |->
              CHOOSE t \in ModelHome(DOMAIN ds, k.name) : TRUE]
<1> DEFINE D == DOMAIN ds
           named(n)   == {x \in D : x.class = "hosted-model" /\ x.name = n}
           targets(n) == {x \in named(n) : x.provider # ""}
           home(n)    == {x \in targets(n) : /\ Cardinality(targets(n)) > 1
                                             /\ n \in DOMAIN Publisher
                                             /\ x.provider = Publisher[n]}
           homeOf(n)  == IF Cardinality(targets(n)) = 1 THEN targets(n) ELSE home(n)
           moving     == {x \in D : /\ x.class = "hosted-model"
                                    /\ homeOf(x.name) \notin {{}, {x}}
                                    /\ x \notin homeOf(x.name)}
<1>1. foldModels(ds) = [k \in moving |-> CHOOSE t \in homeOf(k.name) : TRUE]
  BY DEF foldModels
<1>2. ASSUME NEW n PROVE homeOf(n) = ModelHome(D, n)
  <2>1. targets(n) = Vendored(D, n)
    BY DEF Vendored
  <2> HIDE DEF targets
  <2> QED
    BY <2>1 DEF ModelHome
<1> HIDE DEF homeOf
<1> QED
  BY <1>1, <1>2

(* So it looks only at drafts of the same name too. *)
LEMMA ModelsAgree ==
  ASSUME NEW M, NEW ds, NEW es, Outside(ds, M) = Outside(es, M), NEW k \in DOMAIN foldModels(ds), k.name \notin M
  PROVE  k \in DOMAIN foldModels(es) /\ foldModels(es)[k] = foldModels(ds)[k]
<1>1. PICK H : H = ModelHome(DOMAIN ds, k.name)
  OBVIOUS
<1>2. ModelHome(DOMAIN es, k.name) = H
  <2>1. \A t : t.name = k.name => (t \in DOMAIN ds <=> t \in DOMAIN es)
    BY DEF Outside
  <2>2. Vendored(DOMAIN es, k.name) = Vendored(DOMAIN ds, k.name)
    BY <2>1 DEF Vendored
  <2> QED
    BY <1>1, <2>2 DEF ModelHome
<1>3. /\ k \in DOMAIN ds /\ k.class = "hosted-model" /\ H \notin {{}, {k}} /\ k \notin H
      /\ foldModels(ds)[k] = CHOOSE t \in H : TRUE
  BY <1>1, ModelsGo
<1>4. k \in DOMAIN es
  BY <1>3 DEF Outside
<1>5. k \in DOMAIN foldModels(es) /\ foldModels(es)[k] = CHOOSE t \in ModelHome(DOMAIN es, k.name) : TRUE
  BY <1>2, <1>3, <1>4, ModelsGo
<1> QED
  BY <1>2, <1>3, <1>5

(* So both send the drafts of other names the same way. *)
LEMMA RedirectsAgree ==
  ASSUME NEW M, NEW ds, NEW es, Outside(ds, M) = Outside(es, M), NEW k \in DOMAIN redirected(ds), k.name \notin M
  PROVE  k \in DOMAIN redirected(es) /\ redirected(es)[k] = redirected(ds)[k]
<1>1. \A x : /\ DOMAIN redirected(x) = DOMAIN foldPackages(x) \cup DOMAIN foldModels(x)
             /\ k \in DOMAIN redirected(x) =>
                  redirected(x)[k] = IF k \in DOMAIN foldPackages(x) THEN foldPackages(x)[k] ELSE foldModels(x)[k]
  BY DEF redirected
<1>2. k \in DOMAIN foldPackages(ds) <=> k \in DOMAIN foldPackages(es)
  BY PackagesAgree
<1>3. CASE k \in DOMAIN foldPackages(ds)
  <2>1. k \in DOMAIN foldPackages(es) /\ foldPackages(es)[k] = foldPackages(ds)[k]
    BY <1>3, PackagesAgree
  <2> QED
    BY <1>1, <1>3, <2>1
<1>4. CASE k \notin DOMAIN foldPackages(ds)
  <2>1. k \in DOMAIN foldModels(ds)
    BY <1>1, <1>4
  <2>2. k \in DOMAIN foldModels(es) /\ foldModels(es)[k] = foldModels(ds)[k]
    BY <2>1, ModelsAgree
  <2> QED
    BY <1>1, <1>2, <1>4, <2>2
<1> QED
  BY <1>3, <1>4

(* And gather the same for each draft. *)
LEMMA SourcesAgree ==
  ASSUME NEW M, NEW ds, NEW es, AgreeBut(M, ds, es), NEW k, k.name \notin M
  PROVE  Sources(redirected(ds), k) = Sources(redirected(es), k)
<1>1. \A x \in Sources(redirected(ds), k) : x \in Sources(redirected(es), k)
  <2> TAKE x \in Sources(redirected(ds), k)
  <2>1. x \in DOMAIN redirected(ds) /\ redirected(ds)[x] = k
    BY DEF Sources
  <2>2. Moves(DOMAIN ds, redirected(ds))
    BY Redirects DEF AgreeBut
  <2>3. x.name = k.name
    BY <2>1, <2>2, MoveKeepsName DEF canonicalID, Lookup
  <2>4. x \in DOMAIN redirected(es) /\ redirected(es)[x] = redirected(ds)[x]
    BY <2>1, <2>3, RedirectsAgree DEF AgreeBut
  <2> QED
    BY <2>1, <2>4 DEF Sources
<1>2. \A x \in Sources(redirected(es), k) : x \in Sources(redirected(ds), k)
  <2> TAKE x \in Sources(redirected(es), k)
  <2>1. x \in DOMAIN redirected(es) /\ redirected(es)[x] = k
    BY DEF Sources
  <2>2. Moves(DOMAIN es, redirected(es))
    BY Redirects DEF AgreeBut
  <2>3. x.name = k.name
    BY <2>1, <2>2, MoveKeepsName DEF canonicalID, Lookup
  <2>4. x \in DOMAIN redirected(ds) /\ redirected(es)[x] = redirected(ds)[x]
    BY <2>1, <2>3, RedirectsAgree DEF AgreeBut
  <2> QED
    BY <2>1, <2>4 DEF Sources
<1> QED
  BY <1>1, <1>2

(* mergeDraft keeps the same drafts the same. *)
LEMMA MergePeers ==
  ASSUME NEW d, NEW e, Peers(d, e), NEW s, NEW t, Peers(s, t)
  PROVE  Peers(mergeDraft(d, s), mergeDraft(e, t))
<1>1. /\ DOMAIN mergeDraft(d, s) = DraftFields /\ mergeDraft(d, s).occs = d.occs \o s.occs
      /\ DOMAIN mergeDraft(e, t) = DraftFields /\ mergeDraft(e, t).occs = e.occs \o t.occs
  BY MergedFields DEF Peers
<1>2. mergeDraft(d, s).kind = MoreSpecific(s.kind, d.kind)
  BY DEF mergeDraft, Peers, DraftFields
<1>3. mergeDraft(e, t).kind = MoreSpecific(t.kind, e.kind)
  BY DEF mergeDraft, Peers, DraftFields
<1> QED
  BY <1>1, <1>2, <1>3 DEF Peers

(* So does a whole fold. *)
LEMMA AllMergePeers ==
  ASSUME NEW d, NEW e, Peers(d, e), NEW S, NEW R, NEW N \in Nat, Len(S) = N, Len(R) = N,
         \A n \in 1 .. N : Peers(S[n], R[n])
  PROVE  Peers(mergeAll(d, S), mergeAll(e, R))
<1>1. PICK F : FoldsTo(F, d, S, N) /\ mergeAll(d, S) = F[N]
  BY FoldRuns
<1>2. PICK G : FoldsTo(G, e, R, N) /\ mergeAll(e, R) = G[N]
  BY FoldRuns
<1>3. PICK T : T = {i \in Nat : i <= N => Peers(F[i], G[i])}
  OBVIOUS
<1>4. 0 \in T
  BY <1>1, <1>2, <1>3 DEF FoldsTo
<1>5. ASSUME NEW i \in Nat, i \in T PROVE i + 1 \in T
  <2>1. CASE i + 1 <= N
    <3>1. PICK j : j = i + 1 /\ j \in 1 .. N /\ j - 1 = i /\ Peers(F[i], G[i])
      BY <1>3, <1>5, <2>1
    <3>2. F[j] = mergeDraft(F[i], S[j]) /\ G[j] = mergeDraft(G[i], R[j])
      BY <1>1, <1>2, <3>1 DEF FoldsTo
    <3>3. Peers(F[j], G[j])
      BY <3>1, <3>2, MergePeers
    <3> QED
      BY <1>3, <3>1, <3>3
  <2>2. CASE ~(i + 1 <= N)
    BY <1>3, <2>2
  <2> QED
    BY <2>1, <2>2
<1>6. N \in T
  BY <1>4, <1>5, Induction
<1> QED
  BY <1>1, <1>2, <1>3, <1>6

(* Drafts that agree still do after the folds of Build. *)
LEMMA FoldAgree ==
  ASSUME NEW M, NEW ds, NEW es, AgreeBut(M, ds, es)
  PROVE  AgreeBut(M, foldInto(ds, redirected(ds)), foldInto(es, redirected(es)))
<1>1. PICK to, at : to = redirected(ds) /\ at = redirected(es)
  OBVIOUS
<1>2. PICK a, b : a = foldInto(ds, to) /\ b = foldInto(es, at)
  OBVIOUS
<1>3. DOMAIN a = DOMAIN ds \ DOMAIN to /\ DOMAIN b = DOMAIN es \ DOMAIN at
  BY <1>2 DEF foldInto
<1>4. IsFiniteSet(DOMAIN a) /\ IsFiniteSet(DOMAIN b)
  BY <1>3, FS_Subset DEF AgreeBut
<1>5. \A k : k.name \notin M => (k \in DOMAIN to <=> k \in DOMAIN at)
  BY <1>1, RedirectsAgree DEF AgreeBut
<1>6. Outside(a, M) = Outside(b, M)
  BY <1>3, <1>5 DEF Outside, AgreeBut
<1>7. ASSUME NEW k \in Outside(a, M) PROVE Peers(a[k], b[k])
  <2>1. k \in DOMAIN ds \ DOMAIN to /\ k \in DOMAIN es \ DOMAIN at /\ k.name \notin M
    BY <1>3, <1>6, <1>7 DEF Outside
  <2>2. PICK S : S = Sources(to, k) /\ S = Sources(at, k)
    BY <1>1, <2>1, SourcesAgree
  <2>3. DOMAIN to \subseteq DOMAIN ds /\ DOMAIN at \subseteq DOMAIN es
    BY <1>1, Redirects DEF AgreeBut, Moves
  <2>4. PICK s : s = SetToSeq(S)
    OBVIOUS
  <2>5. Len(s) \in Nat /\ DOMAIN s = 1 .. Len(s) /\ \A n \in DOMAIN s : s[n] \in S
    <3>1. IsFiniteSet(S)
      BY <2>2, <2>3, FS_Subset DEF Sources, AgreeBut
    <3> QED
      BY <2>4, <3>1, SeqOfSet
  <2>6. PICK N : N = Len(s) /\ N \in Nat
    BY <2>5
  <2>7. PICK A, B : A = Gathered(ds, to, k) /\ B = Gathered(es, at, k)
    OBVIOUS
  <2>8. A = [n \in 1 .. N |-> ds[s[n]]] /\ B = [n \in 1 .. N |-> es[s[n]]]
    BY <2>2, <2>4, <2>5, <2>6, <2>7 DEF Gathered
  <2>9. Len(A) = N /\ Len(B) = N
    <3>1. A = [n \in 1 .. N |-> A[n]] /\ B = [n \in 1 .. N |-> B[n]]
      BY <2>8
    <3> QED
      BY <2>6, <3>1, Functional
  <2>10. \A n \in 1 .. N : Peers(A[n], B[n])
    <3> TAKE n \in 1 .. N
    <3>1. PICK x : x = s[n] /\ x \in S
      BY <2>5, <2>6
    <3>2. x \in DOMAIN ds /\ x.name = k.name
      <4>1. x \in DOMAIN to /\ to[x] = k
        BY <2>2, <3>1 DEF Sources
      <4>2. Moves(DOMAIN ds, to)
        BY <1>1, Redirects DEF AgreeBut
      <4> QED
        BY <2>3, <4>1, <4>2, MoveKeepsName DEF canonicalID, Lookup
    <3>3. x \in Outside(ds, M)
      BY <2>1, <3>2 DEF Outside
    <3> QED
      BY <2>8, <3>1, <3>3 DEF AgreeBut
  <2>11. Peers(ds[k], es[k])
    BY <2>1 DEF AgreeBut, Outside
  <2>12. Peers(mergeAll(ds[k], A), mergeAll(es[k], B))
    BY <2>6, <2>9, <2>10, <2>11, AllMergePeers
  <2>13. a[k] = mergeAll(ds[k], A) /\ b[k] = mergeAll(es[k], B)
    BY <1>2, <2>1, <2>7, FoldedInto
  <2> QED
    BY <2>12, <2>13
<1> QED
  BY <1>1, <1>2, <1>4, <1>6, <1>7 DEF AgreeBut

(* And after the root is minted. *)
LEMMA RootAgree ==
  ASSUME NEW M, NEW ds, NEW es, AgreeBut(M, ds, es)
  PROVE  AgreeBut(M, mintRoot(ds), mintRoot(es))
<1>1. PICK a, b : a = mintRoot(ds) /\ b = mintRoot(es)
  OBVIOUS
<1>2. /\ DOMAIN a = DOMAIN ds \cup {RootKey} /\ \A k \in DOMAIN a : a[k] = DraftOf(ds, k, "application")
      /\ DOMAIN b = DOMAIN es \cup {RootKey} /\ \A k \in DOMAIN b : b[k] = DraftOf(es, k, "application")
  BY <1>1 DEF mintRoot
<1>3. IsFiniteSet(DOMAIN a) /\ IsFiniteSet(DOMAIN b)
  BY <1>2, FS_AddElement DEF AgreeBut
<1>4. \A k : k.name \notin M => (k \in DOMAIN ds <=> k \in DOMAIN es)
  BY DEF AgreeBut, Outside
<1>5. Outside(a, M) = Outside(b, M)
  BY <1>2, <1>4 DEF Outside
<1>6. ASSUME NEW k \in Outside(a, M) PROVE Peers(a[k], b[k])
  <2>1. k.name \notin M /\ a[k] = DraftOf(ds, k, "application") /\ b[k] = DraftOf(es, k, "application")
    BY <1>2, <1>5, <1>6 DEF Outside
  <2>2. CASE k \in DOMAIN ds
    <3>1. k \in Outside(ds, M) /\ k \in DOMAIN es
      BY <1>4, <2>1, <2>2 DEF Outside
    <3> QED
      BY <2>1, <2>2, <3>1 DEF DraftOf, AgreeBut
  <2>3. CASE k \notin DOMAIN ds
    BY <1>4, <2>1, <2>3, FreshPeers DEF DraftOf
  <2> QED
    BY <2>2, <2>3
<1> QED
  BY <1>1, <1>3, <1>5, <1>6 DEF AgreeBut

(* The parameters bound to k, of the drafts D and all their sightings O. *)
Sighted(ds) == UNION {Range(ds[j].occs) : j \in DOMAIN ds}
BoundTo(D, O, k) ==
  {[name |-> b[1].name, value |-> b[1].value, path |-> b[2].path, line |-> b[2].line, column |-> b[2].column] :
     b \in {x \in UNION {o.params \X {o} : o \in O} :
              x[2].model # "" /\ {j \in D : j.class = classOf("hosted-llm") /\ j.name = Lookup(Canon, x[2].model)} = {k}}}

(* Those are what promoteParams binds. *)
LEMMA Promoted ==
  ASSUME NEW ds
  PROVE  /\ DOMAIN promoteParams(ds) = DOMAIN ds
         /\ \A k \in DOMAIN ds :
              promoteParams(ds)[k] = [ds[k] EXCEPT !.generationParams = BoundTo(DOMAIN ds, Sighted(ds), k)]
  BY DEF promoteParams, BoundTo, Sighted, lookupByName, Named

(* Each draft binds the same parameters. *)
SameParams(ds, es) == \A k \in DOMAIN ds : ds[k].generationParams = es[k].generationParams

(* And after the parameters of calls are bound; which are the same, if all drafts are. *)
LEMMA PromoteAgree ==
  ASSUME NEW M, NEW ds, NEW es, AgreeBut(M, ds, es)
  PROVE  /\ AgreeBut(M, promoteParams(ds), promoteParams(es))
         /\ M = {} => SameParams(promoteParams(ds), promoteParams(es))
<1>1. PICK a, b : a = promoteParams(ds) /\ b = promoteParams(es)
  OBVIOUS
<1>2. /\ DOMAIN a = DOMAIN ds
      /\ \A k \in DOMAIN ds : a[k] = [ds[k] EXCEPT !.generationParams = BoundTo(DOMAIN ds, Sighted(ds), k)]
  BY <1>1, Promoted
<1>3. /\ DOMAIN b = DOMAIN es
      /\ \A k \in DOMAIN es : b[k] = [es[k] EXCEPT !.generationParams = BoundTo(DOMAIN es, Sighted(es), k)]
  BY <1>1, Promoted
<1>4. Outside(a, M) = Outside(ds, M) /\ Outside(b, M) = Outside(es, M)
  BY <1>2, <1>3 DEF Outside
<1>5. \A d, g : DOMAIN d = DraftFields =>
        LET p == [d EXCEPT !.generationParams = g] IN
        DOMAIN p = DraftFields /\ p.kind = d.kind /\ p.occs = d.occs /\ p.generationParams = g
  BY DEF DraftFields
<1>6. ASSUME NEW k \in Outside(a, M)
      PROVE  /\ Peers(a[k], b[k]) /\ a[k].generationParams = BoundTo(DOMAIN ds, Sighted(ds), k)
             /\ b[k].generationParams = BoundTo(DOMAIN es, Sighted(es), k)
  <2>1. k \in Outside(ds, M) /\ k \in DOMAIN ds /\ k \in DOMAIN es
    BY <1>4, <1>6 DEF Outside, AgreeBut
  <2>2. Peers(ds[k], es[k])
    BY <2>1 DEF AgreeBut
  <2>3. PICK g, h : g = BoundTo(DOMAIN ds, Sighted(ds), k) /\ h = BoundTo(DOMAIN es, Sighted(es), k)
    OBVIOUS
  <2>4. a[k] = [ds[k] EXCEPT !.generationParams = g] /\ b[k] = [es[k] EXCEPT !.generationParams = h]
    BY <1>2, <1>3, <2>1, <2>3
  <2> QED
    BY <1>5, <2>2, <2>3, <2>4 DEF Peers
<1>7. AgreeBut(M, a, b)
  BY <1>2, <1>3, <1>4, <1>6 DEF AgreeBut
<1>8. ASSUME M = {}, NEW k \in DOMAIN ds PROVE a[k].generationParams = b[k].generationParams
  <2>1. DOMAIN ds = DOMAIN es /\ \A j \in DOMAIN ds : es[j].occs = ds[j].occs
    BY <1>8 DEF AgreeBut, Outside, Peers
  <2>2. Sighted(ds) = Sighted(es)
    BY <2>1 DEF Sighted
  <2>3. k \in Outside(a, M)
    BY <1>2, <1>8 DEF Outside
  <2> QED
    BY <1>6, <2>1, <2>2, <2>3
<1> QED
  BY <1>1, <1>2, <1>7, <1>8 DEF SameParams

-----------------------------------------------------------------------------
(* What a comparison blames *)

(* What a comparison reads of a finished draft. *)
LEMMA PeersFinished ==
  ASSUME NEW k, NEW d, NEW e, Peers(d, e)
  PROVE  LET c == finish(k, d)
             x == finish(k, e)
         IN /\ c.id = k /\ x.id = k /\ c.name = k.name /\ x.name = k.name /\ c.kind = d.kind /\ x.kind = c.kind
            /\ x.occs = c.occs /\ x.testOnly = c.testOnly
            /\ c.generationParams = d.generationParams /\ x.generationParams = e.generationParams
<1>1. PICK o : o = dedupOccs(d.occs) /\ o = dedupOccs(e.occs)
  BY DEF Peers
<1>2. \A a : LET c == finish(k, a) IN
        /\ c.id = k /\ c.name = k.name /\ c.kind = a.kind /\ c.occs = dedupOccs(a.occs)
        /\ c.testOnly = (dedupOccs(a.occs) # <<>> /\ \A y \in Range(dedupOccs(a.occs)) : y.path \in TestPaths)
        /\ c.generationParams = a.generationParams
  BY DEF finish
<1> QED
  BY <1>1, <1>2 DEF Peers

(* What a comparison of two inventories goes by. *)
Counterpart(c, x) == x.id = c.id /\ x.kind = c.kind /\ x.testOnly = c.testOnly

(* A component of another name is there again, if it is no parameter. *)
LEMMA StillThere ==
  ASSUME NEW M, NEW ds, NEW es, AgreeBut(M, ds, es), NEW p, NEW q,
         NEW c \in inventory(ds, p).components, c.name \notin M, c.kind # "ai-config"
  PROVE  \E x \in inventory(es, q).components : Counterpart(c, x)
<1>1. PICK k \in DOMAIN ds : c = finish(k, ds[k])
  BY Finished
<1>2. k \in Outside(ds, M)
  <2>1. c.name = k.name
    BY <1>1, FinishedFields
  <2> QED
    BY <2>1 DEF Outside
<1>3. k \in DOMAIN es /\ Peers(ds[k], es[k])
  BY <1>2 DEF AgreeBut, Outside
<1>4. PICK x : x = finish(k, es[k])
  OBVIOUS
<1>5. x.id = c.id /\ x.kind = c.kind /\ x.testOnly = c.testOnly
  BY <1>1, <1>3, <1>4, PeersFinished
<1>6. ~Covered(es, x)
  BY <1>5 DEF Covered
<1>7. x \in inventory(es, q).components
  BY <1>3, <1>4, <1>6, HandedOver
<1> QED
  BY <1>5, <1>7 DEF Counterpart

(* All are there again, if all drafts agree and bind the same parameters. *)
LEMMA AllThere ==
  ASSUME NEW ds, NEW es, AgreeBut({}, ds, es), SameParams(ds, es),
         NEW p, NEW q, NEW c \in inventory(ds, p).components
  PROVE  \E x \in inventory(es, q).components : Counterpart(c, x)
<1>1. PICK C, X : C = {finish(k, ds[k]) : k \in DOMAIN ds} /\ X = {finish(k, es[k]) : k \in DOMAIN es}
  OBVIOUS
<1>2. inventory(ds, p).components = dropBoundAIConfig(C) /\ inventory(es, q).components = dropBoundAIConfig(X)
  BY <1>1 DEF inventory
<1>3. DOMAIN ds = DOMAIN es /\ \A k \in DOMAIN ds : Peers(ds[k], es[k])
  BY DEF AgreeBut, Outside
<1>4. \A k \in DOMAIN ds : finish(k, ds[k]).generationParams = finish(k, es[k]).generationParams
  BY <1>3, PeersFinished DEF SameParams
<1>5. PICK B : B = UNION {x.generationParams : x \in C}
  OBVIOUS
<1>6. B = UNION {x.generationParams : x \in X}
  <2>1. \A x \in C : \E y \in X : y.generationParams = x.generationParams
    BY <1>1, <1>3, <1>4
  <2>2. \A y \in X : \E x \in C : y.generationParams = x.generationParams
    BY <1>1, <1>3, <1>4
  <2> QED
    BY <1>5, <2>1, <2>2
<1>7. PICK k \in DOMAIN ds : c = finish(k, ds[k])
  BY Finished
<1>8. PICK x : x = finish(k, es[k]) /\ x \in X
  BY <1>1, <1>3, <1>7
<1>9. /\ x.id = c.id /\ x.kind = c.kind /\ x.testOnly = c.testOnly /\ x.name = c.name /\ x.occs = c.occs
  BY <1>3, <1>7, <1>8, PeersFinished
<1>10. x \in dropBoundAIConfig(X)
  <2>1. \/ c.kind # "ai-config" \/ c.occs = <<>>
        \/ \E o \in Range(c.occs) : ~\E b \in B : /\ b.name = c.name /\ b.path = o.path
                                                  /\ o.line \in b.line - window .. b.line + window
    BY <1>2, <1>5 DEF dropBoundAIConfig
  <2>2. \/ x.kind # "ai-config" \/ x.occs = <<>>
        \/ \E o \in Range(x.occs) : ~\E b \in B : /\ b.name = x.name /\ b.path = o.path
                                                  /\ o.line \in b.line - window .. b.line + window
    BY <1>9, <2>1
  <2> QED
    BY <1>6, <1>8, <2>2 DEF dropBoundAIConfig
<1> QED
  BY <1>2, <1>9, <1>10 DEF Counterpart

(* The drafts Build finishes agree whenever those it absorbed do. *)
LEMMA BuildAgrees ==
  ASSUME NEW M, NEW fs, NEW gs, AgreeBut(M, absorbAll(fs), absorbAll(gs))
  PROVE  /\ AgreeBut(M, promoteParams(Folded(fs)), promoteParams(Folded(gs)))
         /\ M = {} => SameParams(promoteParams(Folded(fs)), promoteParams(Folded(gs)))
<1>1. AgreeBut(M, Folded(fs), Folded(gs))
  BY FoldAgree, RootAgree DEF Folded, Homes
<1> QED
  BY <1>1, PromoteAgree

(* Build, as the inventory of those drafts. *)
LEMMA BuildIs ==
  ASSUME NEW fs
  PROVE  \E es : Build(fs) = inventory(promoteParams(Folded(fs)), es)
  BY DEF Build, Folded, Homes

(* Drafts that agree with others are agreed with. *)
LEMMA AgreeBack == ASSUME NEW M, NEW ds, NEW es, AgreeBut(M, ds, es) PROVE AgreeBut(M, es, ds)
  BY DEF AgreeBut, Peers

(* What a comparison is about, with tests and without. *)
WithTests(i) == considered(i, TRUE)
WithoutTests(i) == considered(i, FALSE)

(* Seen from one document, the components of the other. *)
Reappears(i, j, c) ==
  \A b \in i.components : b.name = c.name /\ b.kind = c.kind => \E x \in j.components : Counterpart(b, x)

(* What reappears is compared with what it was. *)
LEMMA NotBlamed ==
  ASSUME NEW i, NEW j, NEW w, NEW c, Assembled(i), Assembled(j), i.root = j.root, Reappears(i, j, c),
         NEW I, NEW J, I = Annotated(i, w), J = Annotated(j, w)
  PROVE  /\ c \in WithTests(I) => \E y \in WithTests(J) : y.id = c.id
         /\ c \in WithoutTests(I) => \E y \in WithoutTests(J) : y.id = c.id
<1>2. /\ I.root = i.root /\ J.root = j.root /\ \A x \in j.components : \E y \in J.components : Alike(x, y)
      /\ \A y \in I.components : \E b \in i.components : Alike(b, y)
  BY AnnotatedIs
<1>3. ASSUME c \in I.components
      PROVE  \E y \in J.components : y.id = c.id /\ y.kind = c.kind /\ y.testOnly = c.testOnly
  <2>1. PICK b \in i.components : Alike(b, c)
    BY <1>2, <1>3
  <2>2. b.id = c.id /\ b.name = c.name /\ b.kind = c.kind /\ b.testOnly = c.testOnly
    BY <2>1, AlikeSame
  <2>3. PICK x \in j.components : Counterpart(b, x)
    BY <2>2 DEF Reappears
  <2>4. PICK y \in J.components : Alike(x, y)
    BY <1>2
  <2> QED
    BY <2>2, <2>3, <2>4, AlikeSame DEF Counterpart
<1>4. c \in WithTests(I) => \E y \in WithTests(J) : y.id = c.id
  BY <1>2, <1>3 DEF considered, WithTests, WithoutTests
<1>5. c \in WithoutTests(I) => \E y \in WithoutTests(J) : y.id = c.id
  BY <1>2, <1>3 DEF considered, WithTests, WithoutTests
<1> QED
  BY <1>4, <1>5

(* What is reported as added or removed has no counterpart. *)
Unmatched(d, A, B) ==
  /\ \A c \in d.added : c \in B /\ ~\E y \in A : y.id = c.id
  /\ \A c \in d.removed : c \in A /\ ~\E y \in B : y.id = c.id

(* Compute, by the pairs of one identifier. *)
Unpaired(d, A, B, both) ==
  /\ both = {p \in A \X B : p[1].id = p[2].id}
  /\ d.added = {c \in B : \A p \in both : p[2] # c}
  /\ d.removed = {c \in A : \A p \in both : p[1] # c}

(* What has no pair has no counterpart. *)
LEMMA NoPair == ASSUME NEW d, NEW A, NEW B, NEW both, Unpaired(d, A, B, both) PROVE Unmatched(d, A, B)
<1>1. \A x \in A, y \in B : x.id = y.id => <<x, y>> \in both
  BY DEF Unpaired
<1>2. \A x, y : <<x, y>>[1] = x /\ <<x, y>>[2] = y
  OBVIOUS
<1>3. ASSUME NEW c \in d.added PROVE c \in B /\ ~\E y \in A : y.id = c.id
  <2>1. c \in B /\ \A p \in both : p[2] # c
    BY <1>3 DEF Unpaired
  <2>2. ASSUME NEW y \in A, y.id = c.id PROVE FALSE
    <3>1. <<y, c>> \in both
      BY <1>1, <2>1, <2>2
    <3> QED
      BY <1>2, <2>1, <3>1
  <2> QED
    BY <2>1, <2>2
<1>4. ASSUME NEW c \in d.removed PROVE c \in A /\ ~\E y \in B : y.id = c.id
  <2>1. c \in A /\ \A p \in both : p[1] # c
    BY <1>4 DEF Unpaired
  <2>2. ASSUME NEW y \in B, y.id = c.id PROVE FALSE
    <3>1. <<c, y>> \in both
      BY <1>1, <2>1, <2>2
    <3> QED
      BY <1>2, <2>1, <3>1
  <2> QED
    BY <2>1, <2>2
<1> QED
  BY <1>3, <1>4 DEF Unmatched

(* That is what Compute reports. *)
LEMMA NoneMatched ==
  ASSUME NEW I, NEW J
  PROVE  /\ Unmatched(Compute(I, J, TRUE), WithTests(I), WithTests(J))
         /\ Unmatched(Compute(I, J, FALSE), WithoutTests(I), WithoutTests(J))
<1>1. \E both : Unpaired(Compute(I, J, TRUE), WithTests(I), WithTests(J), both)
  BY DEF Compute, WithTests, Unpaired
<1>2. \E both : Unpaired(Compute(I, J, FALSE), WithoutTests(I), WithoutTests(J), both)
  BY DEF Compute, WithoutTests, Unpaired
<1> QED
  BY <1>1, <1>2, NoPair

(* A finding is a record of a claim and where it was seen. *)
LEMMA FindingFields ==
  \A f \in AllFindings : /\ {"claim", "occurrence"} \subseteq DOMAIN f
                         /\ {"kind", "name", "provider", "eco", "sha"} \subseteq DOMAIN f.claim
  BY AssembleAssumption DEF AllFindings

(* A bumped version is no part of an identity. *)
LEMMA BumpedSame ==
  ASSUME NEW f, {"claim", "occurrence"} \subseteq DOMAIN f,
         {"kind", "name", "provider", "eco", "sha"} \subseteq DOMAIN f.claim, NEW v
  PROVE  LET g == [f EXCEPT !.claim.version = v] IN
         normalizeKey(g.claim) = normalizeKey(f.claim) /\ g.claim.kind = f.claim.kind /\ g.occurrence = f.occurrence
<1>1. PICK g : g = [f EXCEPT !.claim.version = v]
  OBVIOUS
<1>2. PICK c, d : c = f.claim /\ d = [c EXCEPT !.version = v]
  OBVIOUS
<1>3. g.claim = d /\ g.occurrence = f.occurrence
  BY <1>1, <1>2
<1>4. d.kind = c.kind /\ d.name = c.name /\ d.provider = c.provider /\ d.eco = c.eco /\ d.sha = c.sha
  BY <1>2
<1>5. normalizeKey(d) = normalizeKey(c)
  BY <1>4 DEF normalizeKey
<1> QED
  BY <1>1, <1>2, <1>3, <1>4, <1>5

(* The findings after a bump are the same where it matters. *)
LEMMA BumpedAgree ==
  ASSUME NamesInv, NEW n \in DOMAIN absorbed
  PROVE  AgreeBut({}, absorbAll(absorbed), absorbAll(Bumped(n)))
<1>1. PICK S : S = AllFindings
  OBVIOUS
<1>2. absorbed \in Seq(S)
  BY <1>1 DEF NamesInv, ArrivalInv
<1>3. PICK N : N = Len(absorbed) /\ N \in Nat /\ DOMAIN absorbed = 1 .. N
  BY <1>2, LenProperties
<1>4. PICK gs : gs = Bumped(n)
  OBVIOUS
<1>5. PICK g : g = [absorbed[n] EXCEPT !.claim.version = "2.0"]
  OBVIOUS
<1>6. gs = [absorbed EXCEPT ![n] = g]
  BY <1>4, <1>5 DEF Bumped
<1>7. gs = [i \in 1 .. N |-> gs[i]] /\ \A i \in 1 .. N : gs[i] = IF i = n THEN g ELSE absorbed[i]
  BY <1>3, <1>6
<1>8. Len(gs) = N
  BY <1>3, <1>7, Functional
<1>9. /\ normalizeKey(g.claim) = normalizeKey(absorbed[n].claim) /\ g.claim.kind = absorbed[n].claim.kind
      /\ g.occurrence = absorbed[n].occurrence
  <2>1. PICK f : f = absorbed[n] /\ f \in AllFindings
    BY <1>1, <1>2
  <2> QED
    BY <1>5, <2>1, FindingFields, BumpedSame
<1>10. \A i \in 1 .. N : /\ normalizeKey(gs[i].claim) = normalizeKey(absorbed[i].claim)
                         /\ gs[i].claim.kind = absorbed[i].claim.kind /\ gs[i].occurrence = absorbed[i].occurrence
  BY <1>7, <1>9
<1>11. PICK fs : fs = absorbed
  OBVIOUS
<1> QED
  BY <1>3, <1>4, <1>8, <1>10, <1>11, AllAgree

(* The findings that are left when one goes. *)
LEMMA RemovedOne ==
  ASSUME NEW S, NEW fs \in Seq(S), NEW n \in 1 .. Len(fs)
  PROVE  /\ Len(RemoveAt(fs, n)) = Len(fs) - 1
         /\ \A i \in 1 .. Len(fs) : i < n => RemoveAt(fs, n)[i] = fs[i]
         /\ \A i \in 1 .. Len(fs) : i > n => RemoveAt(fs, n)[i - 1] = fs[i]
<1>1. PICK N : N = Len(fs) /\ N \in Nat
  BY LenProperties
<1>2. PICK s, t : s = SubSeq(fs, 1, n - 1) /\ t = SubSeq(fs, n + 1, N)
  OBVIOUS
<1>3. s \in Seq(S) /\ Len(s) = n - 1 /\ \A i \in 1 .. n - 1 : s[i] = fs[i]
  BY <1>1, <1>2
<1>4. t \in Seq(S) /\ Len(t) = N - n /\ \A i \in 1 .. N - n : t[i] = fs[n + i]
  BY <1>1, <1>2
<1>5. RemoveAt(fs, n) = s \o t
  BY <1>1, <1>2 DEF RemoveAt
<1>6. Len(s \o t) = Len(s) + Len(t) /\ \A i \in 1 .. Len(s) + Len(t) : (s \o t)[i] = IF i <= Len(s) THEN s[i] ELSE t[i - Len(s)]
  BY <1>3, <1>4, ConcatProperties
<1>7. Len(s \o t) = N - 1
  BY <1>1, <1>3, <1>4, <1>6
<1>8. ASSUME NEW i \in 1 .. N, i < n PROVE (s \o t)[i] = fs[i]
  BY <1>1, <1>3, <1>4, <1>6, <1>8
<1>9. ASSUME NEW i \in 1 .. N, i > n PROVE (s \o t)[i - 1] = fs[i]
  <2>1. PICK j : j = i - n /\ j \in 1 .. N - n /\ n + j = i
    BY <1>1, <1>9
  <2>2. i - 1 \in 1 .. Len(s) + Len(t) /\ ~(i - 1 <= Len(s)) /\ i - 1 - Len(s) = j
    BY <1>1, <1>3, <1>4, <1>9, <2>1
  <2>3. (s \o t)[i - 1] = t[j]
    BY <1>6, <2>2
  <2> QED
    BY <1>4, <2>1, <2>3
<1> QED
  BY <1>1, <1>5, <1>7, <1>8, <1>9

(* So what is gathered without a finding differs in its name only. *)
LEMMA RemovedAgree ==
  ASSUME NamesInv, NEW n \in DOMAIN absorbed
  PROVE  AgreeBut({Lookup(Canon, absorbed[n].claim.name)}, absorbAll(absorbed), absorbAll(RemoveAt(absorbed, n)))
<1>1. PICK S : S = AllFindings
  OBVIOUS
<1>2. PICK fs : fs = absorbed /\ fs \in Seq(S)
  BY <1>1 DEF NamesInv, ArrivalInv
<1>3. PICK N : N = Len(fs) /\ N \in Nat /\ DOMAIN fs = 1 .. N
  BY <1>2, LenProperties
<1>4. PICK gs : gs = RemoveAt(fs, n)
  OBVIOUS
<1>5. /\ Len(gs) = N - 1 /\ n \in 1 .. N
      /\ \A i \in 1 .. N : i < n => gs[i] = fs[i]
      /\ \A i \in 1 .. N : i > n => gs[i - 1] = fs[i]
  BY <1>2, <1>3, <1>4, RemovedOne
<1>6. normalizeKey(fs[n].claim).name = Lookup(Canon, fs[n].claim.name)
  BY DEF normalizeKey
<1>7. AgreeBut({normalizeKey(fs[n].claim).name}, absorbAll(fs), absorbAll(gs))
  BY <1>3, <1>5, OneLessAgree
<1> QED
  BY <1>2, <1>4, <1>6, <1>7

(* A version bump shows as a change. *)
LEMMA BumpOnlyChanges ==
  ASSUME NamesInv, GoneInv, BuiltInv, FlowInv, phase = "done", NEW n \in DOMAIN absorbed
  PROVE  LET d == Compute(Annotated(Build(Bumped(n)), world), doc, TRUE) IN d.added = {} /\ d.removed = {}
<1>1. stage = "done" /\ doc = Annotated(inv, world)
  BY DEF FlowInv
<1>2. PICK gs : gs = Bumped(n)
  OBVIOUS
<1>3. PICK p : Build(absorbed) = inventory(promoteParams(Folded(absorbed)), p)
  BY BuildIs
<1>4. PICK q : Build(gs) = inventory(promoteParams(Folded(gs)), q)
  BY BuildIs
<1>5. PICK ds, es : ds = promoteParams(Folded(absorbed)) /\ es = promoteParams(Folded(gs))
  OBVIOUS
<1>6. PICK i, j : i = Build(absorbed) /\ j = Build(gs)
  OBVIOUS
<1>7. i = inventory(ds, p) /\ j = inventory(es, q) /\ doc = Annotated(i, world)
  BY <1>1, <1>3, <1>4, <1>5, <1>6, InOneGo
<1>8. AgreeBut({}, ds, es) /\ SameParams(ds, es)
  <2>1. AgreeBut({}, absorbAll(absorbed), absorbAll(gs))
    BY <1>2, BumpedAgree
  <2>2. PICK fs : fs = absorbed
    OBVIOUS
  <2> QED
    BY <1>5, <2>1, <2>2, BuildAgrees
<1>9. AgreeBut({}, es, ds) /\ SameParams(es, ds)
  <2>1. DOMAIN es = DOMAIN ds
    BY <1>8 DEF AgreeBut, Outside
  <2> QED
    BY <1>8, <2>1, AgreeBack DEF SameParams
<1>10. Assembled(i) /\ Assembled(j) /\ i.root = j.root
  BY <1>7, AssembledInventory
<1>11. \A b \in i.components : \E x \in j.components : Counterpart(b, x)
  BY <1>7, <1>8, AllThere
<1>12. \A b \in j.components : \E x \in i.components : Counterpart(b, x)
  BY <1>7, <1>9, AllThere
<1>13. PICK I, J, w : w = world /\ I = Annotated(i, w) /\ J = Annotated(j, w)
  OBVIOUS
<1>14. \A c \in WithTests(I) : \E y \in WithTests(J) : y.id = c.id
  <2> TAKE c \in WithTests(I)
  <2>1. Reappears(i, j, c)
    BY <1>11 DEF Reappears
  <2> QED
    BY <1>10, <1>13, <2>1, NotBlamed
<1>15. \A c \in WithTests(J) : \E y \in WithTests(I) : y.id = c.id
  <2> TAKE c \in WithTests(J)
  <2>1. Reappears(j, i, c)
    BY <1>12 DEF Reappears
  <2> QED
    BY <1>10, <1>13, <2>1, NotBlamed
<1>16. Compute(J, I, TRUE).added = {} /\ Compute(J, I, TRUE).removed = {}
  <2>1. \A c \in Compute(J, I, TRUE).added : FALSE
    <3> TAKE c \in Compute(J, I, TRUE).added
    <3>1. c \in WithTests(I) /\ ~\E y \in WithTests(J) : y.id = c.id
      BY NoneMatched DEF Unmatched
    <3> QED
      BY <1>14, <3>1
  <2>2. \A c \in Compute(J, I, TRUE).removed : FALSE
    <3> TAKE c \in Compute(J, I, TRUE).removed
    <3>1. c \in WithTests(J) /\ ~\E y \in WithTests(I) : y.id = c.id
      BY NoneMatched DEF Unmatched
    <3> QED
      BY <1>15, <3>1
  <2> QED
    BY <2>1, <2>2
<1> QED
  BY <1>2, <1>6, <1>7, <1>13, <1>16

(* What comes or goes with a finding has its name, or is a parameter. *)
LEMMA LossIsNamed ==
  ASSUME NamesInv, GoneInv, BuiltInv, FlowInv, phase = "done", NEW n \in DOMAIN absorbed
  PROVE  LET d == Compute(Annotated(Build(RemoveAt(absorbed, n)), world), doc, FALSE) IN
         \A c \in d.added \cup d.removed : c.name = Lookup(Canon, absorbed[n].claim.name) \/ c.kind = "ai-config"
<1>1. stage = "done" /\ doc = Annotated(inv, world)
  BY DEF FlowInv
<1>2. PICK gs : gs = RemoveAt(absorbed, n)
  OBVIOUS
<1>3. PICK p : Build(absorbed) = inventory(promoteParams(Folded(absorbed)), p)
  BY BuildIs
<1>4. PICK q : Build(gs) = inventory(promoteParams(Folded(gs)), q)
  BY BuildIs
<1>5. PICK ds, es : ds = promoteParams(Folded(absorbed)) /\ es = promoteParams(Folded(gs))
  OBVIOUS
<1>6. PICK i, j : i = Build(absorbed) /\ j = Build(gs)
  OBVIOUS
<1>7. i = inventory(ds, p) /\ j = inventory(es, q) /\ doc = Annotated(i, world)
  BY <1>1, <1>3, <1>4, <1>5, <1>6, InOneGo
<1>8. PICK name, M : name = Lookup(Canon, absorbed[n].claim.name) /\ M = {name}
  OBVIOUS
<1>9. AgreeBut(M, ds, es) /\ AgreeBut(M, es, ds)
  <2>1. AgreeBut(M, absorbAll(absorbed), absorbAll(gs))
    BY <1>2, <1>8, RemovedAgree
  <2>2. PICK fs : fs = absorbed
    OBVIOUS
  <2>3. AgreeBut(M, ds, es)
    BY <1>5, <2>1, <2>2, BuildAgrees
  <2> QED
    BY <2>3, AgreeBack
<1>10. Assembled(i) /\ Assembled(j) /\ i.root = j.root
  BY <1>7, AssembledInventory
<1>11. \A b \in i.components : b.name = name \/ b.kind = "ai-config" \/ \E x \in j.components : Counterpart(b, x)
  BY <1>7, <1>8, <1>9, StillThere
<1>12. \A b \in j.components : b.name = name \/ b.kind = "ai-config" \/ \E x \in i.components : Counterpart(b, x)
  BY <1>7, <1>8, <1>9, StillThere
<1>13. PICK I, J, w : w = world /\ I = Annotated(i, w) /\ J = Annotated(j, w)
  OBVIOUS
<1>14. \A c \in WithoutTests(I) :
         c.name = name \/ c.kind = "ai-config" \/ \E y \in WithoutTests(J) : y.id = c.id
  <2> SUFFICES ASSUME NEW c \in WithoutTests(I), c.name # name, c.kind # "ai-config"
               PROVE  \E y \in WithoutTests(J) : y.id = c.id
    OBVIOUS
  <2>1. Reappears(i, j, c)
    BY <1>11 DEF Reappears
  <2> QED
    BY <1>10, <1>13, <2>1, NotBlamed
<1>15. \A c \in WithoutTests(J) :
         c.name = name \/ c.kind = "ai-config" \/ \E y \in WithoutTests(I) : y.id = c.id
  <2> SUFFICES ASSUME NEW c \in WithoutTests(J), c.name # name, c.kind # "ai-config"
               PROVE  \E y \in WithoutTests(I) : y.id = c.id
    OBVIOUS
  <2>1. Reappears(j, i, c)
    BY <1>12 DEF Reappears
  <2> QED
    BY <1>10, <1>13, <2>1, NotBlamed
<1>16. ASSUME NEW c \in Compute(J, I, FALSE).added \cup Compute(J, I, FALSE).removed
       PROVE  c.name = name \/ c.kind = "ai-config"
  <2>1. CASE c \in Compute(J, I, FALSE).added
    <3>1. c \in WithoutTests(I) /\ ~\E y \in WithoutTests(J) : y.id = c.id
      BY <2>1, NoneMatched DEF Unmatched
    <3> QED
      BY <1>14, <3>1
  <2>2. CASE c \in Compute(J, I, FALSE).removed
    <3>1. c \in WithoutTests(J) /\ ~\E y \in WithoutTests(I) : y.id = c.id
      BY <2>2, NoneMatched DEF Unmatched
    <3> QED
      BY <1>15, <3>1
  <2> QED
    BY <1>16, <2>1, <2>2
<1> QED
  BY <1>2, <1>6, <1>7, <1>8, <1>13, <1>16

(* The assembly, step by step, is Build as one function of the findings in their order. *)
THEOREM BuiltInOneGo == ISpec => [](stage = "done" => inv = Build(absorbed))
<1>1. IInit => GoneInv /\ BuiltInv
  BY InitGone, InitRelations DEF IInit
<1> QED
  BY <1>1, Names, GoneStep, BuiltStep, InOneGo, PTL DEF ISpec

(* A comparison blames the finding that changed, bumped or gone, and nothing else. *)
THEOREM OnlyTheCodeBlamed == ISpec => []DiffBlamesTheCode
<1>1. IInit => GoneInv /\ BuiltInv
  BY InitGone, InitRelations DEF IInit
<1>2. NamesInv /\ GoneInv /\ BuiltInv /\ FlowInv => DiffBlamesTheCode
  <2> SUFFICES ASSUME NamesInv, GoneInv, BuiltInv, FlowInv PROVE DiffBlamesTheCode
    OBVIOUS
  <2> QED
    BY BumpOnlyChanges, LossIsNamed DEF DiffBlamesTheCode
<1> QED
  BY <1>1, <1>2, Names, Flow, GoneStep, BuiltStep, PTL DEF ISpec
=============================================================================
