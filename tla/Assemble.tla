------------------------------ MODULE Assemble ------------------------------
(* The assembler, internal/assemble/assemble.go: the findings of both phases *)
(* become drafts, one for each canonical identity; drafts of one asset are   *)
(* folded together; relations and call-site parameters are bound to what     *)
(* then exists; and every draft is finished into a component.                *)
(*                                                                           *)
(* A finding is a record; names, paths and versions are members of small     *)
(* sets.  Spellings (case, aliases, date suffixes, the publisher before a    *)
(* slash) are tables given as constants.  The pipeline sorts the findings    *)
(* before it hands them over; here they arrive in any order, because the     *)
(* code promises that the order is of no account.                            *)
EXTENDS Integers, FiniteSets, SequencesExt, Functions

CONSTANTS
  Canon,      \* raw name -> the name after trimming, lower case and nameAliases
  DateOf,     \* raw name -> its -YYYY-MM-DD suffix, for the names that have one
  Publisher,  \* canonical name -> org, for the names of the form org/name
  Vendor,     \* raw provider -> the provider after lower case and providerAliases
  Lexicon,    \* every text that is compared, in byte order
  TestPaths,  \* the paths under IsTestPath
  RootName,   \* last segment of the scan target
  Candidates  \* the sets of findings an assembly may be given

VARIABLES
  pending,    \* findings not absorbed yet
  absorbed,   \* findings absorbed, in order
  drafts,     \* assembly.byID: canonical key -> draft
  redirects,  \* assembly.redirects
  edges,      \* assembly.edges: <<from, type, to>> -> the relation claims it stands for
  warnings,   \* assembly.warnings
  inv,        \* the inventory, NoInv before it is built
  stage

vars == <<pending, absorbed, drafts, redirects, edges, warnings, inv, stage>>

ComponentKinds ==
  {"hosted-llm", "local-model-file", "embedding-model", "framework", "library", "vector-db", "prompt",
   "dataset", "ai-config", "infra", "service", "rag-pipeline", "application"}
RelationTypes ==
  {"uses", "depends-on", "served-by", "queries", "embeds-with", "prompted-by", "trained-on",
   "derived-from", "configures", "contains"}
ASSUME AssembleAssumption ==
  /\ Lexicon \in Seq(Range(Lexicon))
  /\ \A fs \in Candidates : IsFiniteSet(fs) /\ \A f \in fs :
       /\ {"claim", "occurrence"} \subseteq DOMAIN f
       /\ {"kind", "name", "provider", "eco", "sha"} \subseteq DOMAIN f.claim
       /\ f.claim.kind \in ComponentKinds
       /\ f.occurrence.confidence \in 0 .. 1000 /\ f.occurrence.line \in Nat
       /\ f.relations \in Seq(Range(f.relations)) /\ \A r \in Range(f.relations) : r.type \in RelationTypes

NoInv == [components |-> {}, relationships |-> {}, root |-> <<>>]
Lookup(entries, x) == IF x \in DOMAIN entries THEN entries[x] ELSE x
PlaceOf(text) == CHOOSE n \in DOMAIN Lexicon : Lexicon[n] = text
TextBefore(a, b) == PlaceOf(a) < PlaceOf(b)
LeastText(S) == CHOOSE a \in S : \A b \in S \ {a} : TextBefore(a, b)

-----------------------------------------------------------------------------
(* Canonical identity *)

classOf(kind) ==
  CASE kind \in {"hosted-llm", "embedding-model"} -> "hosted-model"
    [] kind = "local-model-file"                  -> "weights-file"
    [] kind \in {"framework", "library"}          -> "package"
    [] kind \in {"infra", "service"}              -> "infra"
    [] kind = "application"                       -> "app"
    [] OTHER                                      -> kind

kindPrecedence(kind) ==
  CASE kind = "embedding-model"                            -> 3
    [] kind \in {"framework", "service"}                   -> 2
    [] kind \in {"hosted-llm", "library", "infra"}         -> 1
    [] OTHER                                               -> 0

(* A mistake to catch: the version is part of the identity. *)
versionedKey(c) ==
  [class |-> classOf(c.kind), provider |-> Lookup(Vendor, c.provider), name |-> Lookup(Canon, c.name),
   disc |-> IF classOf(c.kind) = "package" THEN <<c.eco, c.version>> ELSE <<c.sha>>]
(* The identity of a claim.  A version is no part of it; for a weights file
   the bytes are, or the path when nobody hashed them. *)
normalizeKey(c) ==
  LET class == classOf(c.kind) IN
  [ class    |-> class,
    provider |-> Lookup(Vendor, c.provider),
    name     |-> Lookup(Canon, c.name),
    disc     |-> CASE class = "weights-file" -> IF c.sha # "" THEN <<"sha256", c.sha>>
                                                ELSE <<"path", Lookup(Canon, c.name)>>
                   [] class = "package"      -> <<c.eco>>
                   [] OTHER                  -> <<"">> ]
extraVersion(c) == IF classOf(c.kind) = "hosted-model" /\ c.name \in DOMAIN DateOf
                   THEN DateOf[c.name] ELSE ""
Discless(key) == key.disc = <<"">>

-----------------------------------------------------------------------------
(* Drafts *)

fresh(key, kind) ==
  [ kind |-> kind, group |-> "", versionClaims |-> <<>>, nameClaims |-> <<>>,
    constraintClaims |-> <<>>, licenses |-> {}, hashes |-> {},
    downloadLocation |-> "", format |-> "", eco |-> "", pkgName |-> "",
    risks |-> {}, occs |-> <<>>, generationParams |-> {} ]

(* A mistake to catch: the kind of whoever came first stays. *)
FirstKind(kind, than) == than
MoreSpecific(kind, than) == IF kindPrecedence(kind) > kindPrecedence(than) THEN kind ELSE than
FirstKnown(old, new) == IF old = "" THEN new ELSE old
LeastDeclared(old, new) == IF "" \in {old, new} THEN FirstKnown(old, new) ELSE LeastText({old, new})
ClaimIf(cond, value, o) ==
  IF cond THEN <<[value |-> value, confidence |-> o.confidence, method |-> o.method]>> ELSE <<>>

(* occLess, a total order over occurrences *)
occLess(a, b) ==
  \/ a.path # b.path /\ TextBefore(a.path, b.path)
  \/ a.path = b.path /\ \/ a.line < b.line
                        \/ a.line = b.line /\ \/ a.column < b.column
                                              \/ /\ a.column = b.column
                                                 /\ a.detector # b.detector
                                                 /\ TextBefore(a.detector, b.detector)
                                              \/ /\ a.column = b.column
                                                 /\ a.detector = b.detector
                                                 /\ a.method # b.method
                                                 /\ TextBefore(a.method, b.method)

(* One risk seen twice keeps the union of its details and its least sighting. *)
addRisk(risks, id, detail, o) ==
  LET old == {r \in risks : r.id = id}
      least(r) == IF occLess(o, r.occurrence) THEN o ELSE r.occurrence
  IN (risks \ old) \cup
     (IF old = {} THEN {[id |-> id, detail |-> detail, occurrence |-> o]}
      ELSE {[id |-> id, detail |-> r.detail \cup detail, occurrence |-> least(r)] : r \in old})

(* The risks of both, each seen again under its own identifier. *)
mergeRisks(risks, more) ==
  LET seen(r) == {x \in risks : x.id = r.id}
  IN (risks \ UNION {seen(r) : r \in more}) \cup
     UNION {addRisk(seen(r), r.id, r.detail, r.occurrence) : r \in more}

(* Known > Unknown > Absent; two known values that differ demote each other. *)
mergeOptString(old, claim) ==
  CASE claim \in {"", old}                             -> old
    [] claim \notin {"", old} /\ old \in {"", "unknown"} -> claim
    [] OTHER                                           -> "unknown"
ConflictsWith(old, claim) == claim # "" /\ old \notin {"", "unknown", claim}

(* What one finding adds to the draft of its identity. *)
absorbInto(d, key, f) ==
  LET c == f.claim  o == f.occurrence IN
  [ d EXCEPT
    !.kind = MoreSpecific(c.kind, @),
    !.group = FirstKnown(@, c.group),
    !.pkgName = IF c.eco # "" THEN LeastDeclared(@, c.name) ELSE @,
    !.occs = Append(@, o),
    !.nameClaims = @ \o ClaimIf(c.name # key.name, c.name, o),
    !.versionClaims = @ \o ClaimIf(c.version # "", c.version, o)
                        \o ClaimIf(extraVersion(c) # "", extraVersion(c), o),
    !.constraintClaims = @ \o ClaimIf(c.range # "", c.range, o),
    !.licenses = @ \cup c.licenses,
    !.hashes = @ \cup ({c.sha} \ {""}),
    !.downloadLocation = FirstKnown(@, c.download),
    !.risks = IF c.risk = {} THEN @ ELSE addRisk(@, "pickle-import", c.risk, o),
    !.format = mergeOptString(@, c.format),
    !.eco = FirstKnown(@, c.eco) ]

DraftOf(ds, key, kind) == IF key \in DOMAIN ds THEN ds[key] ELSE fresh(key, kind)
absorb(ds, f) ==
  LET key == normalizeKey(f.claim) IN
  [k \in DOMAIN ds \cup {key} |->
     IF k = key THEN absorbInto(DraftOf(ds, key, f.claim.kind), key, f) ELSE ds[k]]
(* All of them, in the order given. *)
absorbAll(fs) ==
  LET upTo[n \in 0 .. Len(fs)] == IF n = 0 THEN << >> ELSE absorb(upTo[n - 1], fs[n])
  IN upTo[Len(fs)]

(* A mistake to catch: what a folded draft was called is forgotten. *)
mergeNameless(dst, src) == [dst EXCEPT !.occs = @ \o src.occs, !.risks = @ \cup src.risks]
(* foldInto and mergeDraft: dst takes over what was gathered under src, which
   stops to exist.  The facets of src (its format among them) are not taken. *)
mergeDraft(dst, src) ==
  [ dst EXCEPT
    !.occs = @ \o src.occs,
    !.versionClaims = @ \o src.versionClaims,
    !.constraintClaims = @ \o src.constraintClaims,
    !.nameClaims = @ \o src.nameClaims,
    !.licenses = @ \cup src.licenses,
    !.hashes = @ \cup src.hashes,
    !.downloadLocation = FirstKnown(@, src.downloadLocation),
    !.group = FirstKnown(@, src.group),
    !.kind = MoreSpecific(src.kind, @),
    !.eco = FirstKnown(@, src.eco),
    !.pkgName = LeastDeclared(@, src.pkgName),
    !.risks = mergeRisks(@, src.risks) ]

mergeAll(d, srcs) ==
  LET upTo[n \in 0 .. Len(srcs)] == IF n = 0 THEN d ELSE mergeDraft(upTo[n - 1], srcs[n])
  IN upTo[Len(srcs)]
foldInto(ds, home) ==
  LET sources(k) == SetToSeq({x \in DOMAIN home : home[x] = k}) IN
  [k \in DOMAIN ds \ DOMAIN home |->
     mergeAll(ds[k], [n \in DOMAIN sources(k) |-> ds[sources(k)[n]]])]

(* A mistake to catch: any declared package of the name takes it. *)
foldAnyway(ds) ==
  LET declared(k) == {t \in DOMAIN ds : t.class = "package" /\ ~Discless(t) /\ t.name = k.name}
  IN [k \in {x \in DOMAIN ds : x.class = "package" /\ Discless(x) /\ declared(x) # {}} |->
        CHOOSE t \in declared(k) : TRUE]
(* A package without an ecosystem belongs to the one declared package of its
   name and provider, if there is exactly one. *)
foldPackages(ds) ==
  LET declared(k) == {t \in DOMAIN ds : /\ t.class = "package" /\ ~Discless(t)
                                        /\ t.name = k.name /\ t.provider = k.provider}
  IN [k \in {x \in DOMAIN ds : /\ x.class = "package" /\ Discless(x)
                               /\ Cardinality(declared(x)) = 1} |->
        CHOOSE t \in declared(k) : TRUE]

(* A hosted model without a provider belongs to the one of its name that has
   one; when several have one, its publisher's draft takes them all. *)
foldModels(ds) ==
  LET named(n)   == {k \in DOMAIN ds : k.class = "hosted-model" /\ k.name = n}
      targets(n) == {k \in named(n) : k.provider # ""}
      home(n)    == {k \in targets(n) : /\ Cardinality(targets(n)) > 1
                                        /\ n \in DOMAIN Publisher
                                        /\ k.provider = Publisher[n]}
      homeOf(n)  == IF Cardinality(targets(n)) = 1 THEN targets(n) ELSE home(n)
      moving     == {k \in DOMAIN ds : /\ k.class = "hosted-model"
                                       /\ homeOf(k.name) \notin {{}, {k}}
                                       /\ k \notin homeOf(k.name)}
  IN [k \in moving |-> CHOOSE t \in homeOf(k.name) : TRUE]

(* The redirects of both, which see disjoint drafts. *)
redirected(ds) ==
  LET packages == foldPackages(ds)  models == foldModels(ds) IN
  [k \in DOMAIN packages \cup DOMAIN models |->
     IF k \in DOMAIN packages THEN packages[k] ELSE models[k]]

(* A mistake to catch: redirects are not followed. *)
staleID(to, key) == key
canonicalID(to, key) == Lookup(to, key)
-----------------------------------------------------------------------------
(* Relations and call-site parameters *)

Named(ds, class, name) == {k \in DOMAIN ds : k.class = class /\ k.name = name}
lookupByName(ds, kind, raw) == Named(ds, classOf(kind), Lookup(Canon, raw))

(* The components a hint may mean.  Only one candidate resolves it: none is a
   warning, and several are never settled by a guess. *)
resolveHint(ds, to, fs, f, hint) ==
  CASE hint.form = "local" ->
         {canonicalID(to, normalizeKey(g.claim)) :
            g \in {h \in Range(fs) : /\ h.occurrence.path = f.occurrence.path
                                     /\ h.occurrence.detector = hint.arg}}
    [] hint.form = "field" -> IF f.occurrence.model = "" THEN {}
                              ELSE lookupByName(ds, hint.kind, f.occurrence.model)
    [] OTHER               -> lookupByName(ds, hint.kind, hint.arg)

(* Every relation claim of the absorbed findings, at its place among them, with
   the edge it becomes: from the finding's component, never from a folded
   draft. *)
Claimed(fs) ==
  UNION {{[at |-> <<i, j>>, finding |-> fs[i], hint |-> fs[i].relations[j]] : j \in DOMAIN fs[i].relations} :
           i \in DOMAIN fs}
Earlier(r, q) == r.at[1] < q.at[1] \/ (r.at[1] = q.at[1] /\ r.at[2] < q.at[2])
Candidate(ds, to, fs, r) == resolveHint(ds, to, fs, r.finding, r.hint)
EdgeOf(ds, to, fs, r) ==
  <<canonicalID(to, normalizeKey(r.finding.claim)), r.hint.type,
    CHOOSE k \in Candidate(ds, to, fs, r) : TRUE>>

Resolved(ds, to, fs) == {r \in Claimed(fs) : Cardinality(Candidate(ds, to, fs, r)) = 1}
resolveRelations(ds, to, fs) ==
  LET made == {r \in Resolved(ds, to, fs) : LET e == EdgeOf(ds, to, fs, r) IN e[1] # e[3]}
  IN [e \in {EdgeOf(ds, to, fs, r) : r \in made} |-> {r \in made : EdgeOf(ds, to, fs, r) = e}]
Unresolved(ds, to, fs) ==
  {[why |-> "relation", of |-> r.finding.claim.name, at |-> r.finding.occurrence.path,
    type |-> r.hint.type] :
     r \in {x \in Claimed(fs) : Cardinality(Candidate(ds, to, fs, x)) # 1}}

(* The parameters of a call go to the one hosted model the call names. *)
promoteParams(ds) ==
  LET bindings(k) ==
        {b \in UNION {o.params \X {o} : o \in UNION {Range(ds[j].occs) : j \in DOMAIN ds}} :
            b[2].model # "" /\ lookupByName(ds, "hosted-llm", b[2].model) = {k}}
      bound(k) == {[name |-> b[1].name, value |-> b[1].value,
                    path |-> b[2].path, line |-> b[2].line, column |-> b[2].column] :
                     b \in bindings(k)}
  IN [k \in DOMAIN ds |-> [ds[k] EXCEPT !.generationParams = bound(k)]]

-----------------------------------------------------------------------------
(* Finishing a draft *)

(* sort.SliceStable: each goes after those it is not less than. *)
inserted(s, o) == InsertAt(s, Cardinality({i \in DOMAIN s : ~occLess(o, s[i])}) + 1, o)
sortOccs(occs) ==
  LET upTo[n \in 0 .. Len(occs)] == IF n = 0 THEN <<>> ELSE inserted(upTo[n - 1], occs[n])
  IN upTo[Len(occs)]

(* Of neighbours at one path and line from one detector the first stays. *)
SameSighting(a, b) == a.path = b.path /\ a.line = b.line /\ a.detector = b.detector
keepNext(kept, s, n) == IF n > 1 /\ SameSighting(s[n - 1], s[n]) THEN kept ELSE Append(kept, s[n])
dedup(s) ==
  LET upTo[n \in 0 .. Len(s)] == IF n = 0 THEN <<>> ELSE keepNext(upTo[n - 1], s, n)
  IN upTo[Len(s)]
dedupOccs(occs) == dedup(sortOccs(occs))

(* Grouped noisy-OR, in thousandths: each detector's best sighting with a
   bonus for repetition, the best detector of each method, and the methods
   combined.  Only a hash or an attestation gets above 990. *)
MinOf(a, b) == IF a < b THEN a ELSE b
LargestOf(S) == CHOOSE x \in S : \A y \in S : y <= x
groupScore(occs, method, detector) ==
  LET is   == {i \in DOMAIN occs : occs[i].method = method /\ occs[i].detector = detector}
      best == LargestOf({occs[i].confidence : i \in is})
  IN best + ((1000 - best) * MinOf(Cardinality(is) - 1, 3)) \div 20
methodScore(occs, method) ==
  LargestOf({groupScore(occs, method, o.detector) : o \in {x \in Range(occs) : x.method = method}})
NoisyOr(a, b) == 1000 - ((1000 - a) * (1000 - b)) \div 1000
assembleConfidence(occs) ==
  LET methods == SetToSortSeq({o.method : o \in Range(occs)}, TextBefore)
      c == FoldLeft(LAMBDA acc, m : NoisyOr(acc, methodScore(occs, m)), 0, methods)
  IN IF {"hash", "attestation"} \cap Range(methods) = {} THEN MinOf(c, 990) ELSE c
edgeConfidence(claims) ==
  FoldLeft(LAMBDA acc, r : MinOf(NoisyOr(acc, r.finding.occurrence.confidence), 990), 0,
           SetToSortSeq(claims, Earlier))

(* sortClaims and dedupeClaims: of the claims of one value the surest stays,
   the first absorbed when they are equally sure; the surest value wins, the
   least of them on a tie. *)
dedupeClaims(field, claims) ==
  LET surest(i) == \A j \in DOMAIN claims : claims[j].value = claims[i].value =>
        \/ claims[j].confidence < claims[i].confidence
        \/ claims[j].confidence = claims[i].confidence /\ j >= i
  IN {[field |-> field, value |-> claims[i].value, confidence |-> claims[i].confidence,
       method |-> claims[i].method] : i \in {x \in DOMAIN claims : surest(x)}}
winner(claims) ==
  IF claims = <<>> THEN ""
  ELSE LET top == LargestOf({c.confidence : c \in Range(claims)})
       IN LeastText({c.value : c \in {x \in Range(claims) : x.confidence = top}})

(* A purl is an output of identity: the bytes of a weights file, or the
   declared name and the resolved version of a package. *)
purlOf(key, d) ==
  LET version == winner(d.versionClaims) IN
  CASE key.class = "weights-file" /\ d.hashes # {} -> <<"generic", key.name, d.hashes>>
    [] key.class = "package" /\ d.eco # "" /\ version # "" ->
         <<d.eco, d.group, FirstKnown(d.pkgName, key.name), version>>
    [] OTHER -> <<>>

finish(key, d) ==
  LET occs == dedupOccs(d.occs) IN
  [ id |-> key, kind |-> d.kind, name |-> key.name, group |-> d.group,
    provider |-> key.provider, licenses |-> d.licenses, hashes |-> d.hashes,
    downloadLocation |-> d.downloadLocation, format |-> d.format, eco |-> d.eco,
    version |-> winner(d.versionClaims),
    versionConstraint |-> IF d.versionClaims = <<>> THEN winner(d.constraintClaims) ELSE "",
    identity |-> dedupeClaims("version", d.versionClaims)
                 \cup dedupeClaims("versionConstraint", d.constraintClaims)
                 \cup dedupeClaims("name", d.nameClaims),
    confidence |-> assembleConfidence(occs), occs |-> occs,
    testOnly |-> occs # <<>> /\ \A o \in Range(occs) : o.path \in TestPaths,
    purl |-> purlOf(key, d), risks |-> d.risks, generationParams |-> d.generationParams ]

(* A configuration component goes when each of its sightings is a parameter
   some model already binds within twelve lines. *)
window == 12
dropBoundAIConfig(comps) ==
  LET bound == UNION {c.generationParams : c \in comps}
      covered(c, o) == \E b \in bound : /\ b.name = c.name /\ b.path = o.path
                                        /\ o.line \in b.line - window .. b.line + window
  IN {c \in comps : \/ c.kind # "ai-config" \/ c.occs = <<>>
                    \/ \E o \in Range(c.occs) : ~covered(c, o)}

RootKey == [class |-> "app", provider |-> "", name |-> RootName, disc |-> <<"">>]
mintRoot(ds) == [k \in DOMAIN ds \cup {RootKey} |-> DraftOf(ds, k, "application")]

(* What the pipeline gets back. *)
inventory(ds, es) ==
  [ root |-> RootKey,
    components |-> dropBoundAIConfig({finish(k, ds[k]) : k \in DOMAIN ds}),
    relationships |-> {[from |-> e[1], type |-> e[2], to |-> e[3],
                        confidence |-> edgeConfidence(es[e]),
                         sightings |-> {r.finding.occurrence : r \in es[e]}] :
                         e \in DOMAIN es} ]

-----------------------------------------------------------------------------
(* The assembly, step by step *)

Conflicts(ds, f) ==
  LET key == normalizeKey(f.claim) IN
  IF key \in DOMAIN ds /\ ConflictsWith(ds[key].format, f.claim.format)
  THEN {[why |-> "conflict", of |-> key.name, at |-> "", type |-> "model.format"]} ELSE {}

Init ==
  /\ pending \in Candidates
  /\ absorbed = <<>> /\ drafts = << >> /\ redirects = << >> /\ edges = << >>
  /\ warnings = {} /\ inv = NoInv /\ stage = "absorb"

Absorb(f) ==
  /\ stage = "absorb" /\ f \in pending
  /\ pending' = pending \ {f}
  /\ absorbed' = Append(absorbed, f)
  /\ drafts' = absorb(drafts, f)
  /\ warnings' = warnings \cup Conflicts(drafts, f)
  /\ UNCHANGED <<redirects, edges, inv, stage>>

(* foldPackages, foldModels and mintRoot. *)
Fold ==
  /\ stage = "absorb" /\ pending = {}
  /\ redirects' = redirected(drafts)
  /\ drafts' = mintRoot(foldInto(drafts, redirects'))
  /\ stage' = "relate"
  /\ UNCHANGED <<pending, absorbed, edges, warnings, inv>>

Relate ==
  /\ stage = "relate"
  /\ edges' = resolveRelations(drafts, redirects, absorbed)
  /\ warnings' = warnings \cup Unresolved(drafts, redirects, absorbed)
  /\ drafts' = promoteParams(drafts)
  /\ stage' = "finish"
  /\ UNCHANGED <<pending, absorbed, redirects, inv>>

Finish ==
  /\ stage = "finish"
  /\ inv' = inventory(drafts, edges)
  /\ stage' = "done"
  /\ UNCHANGED <<pending, absorbed, drafts, redirects, edges, warnings>>

Done == stage = "done" /\ UNCHANGED vars

Next == (\E f \in pending : Absorb(f)) \/ Fold \/ Relate \/ Finish \/ Done
Spec == Init /\ [][Next]_vars /\ WF_vars(Next)

(* Build as one function of the findings in the order given. *)
Build(fs) ==
  LET raw  == absorbAll(fs)
      to   == redirected(raw)
      ds   == mintRoot(foldInto(raw, to))
  IN inventory(promoteParams(ds), resolveRelations(ds, to, fs))

-----------------------------------------------------------------------------
(* Properties *)

(* What must not depend on the order the findings came in.  The rest does: the
   first group, ecosystem and download location to arrive stay, a third claim
   makes an optional fact known again, and of two equally sure claims the
   method of the first is kept. *)
OrderFreePart(i) ==
  [ root |-> i.root, relationships |-> i.relationships,
    components |->
      {[id |-> c.id, kind |-> c.kind, version |-> c.version, range |-> c.versionConstraint,
        identity |-> {<<l.field, l.value, l.confidence>> : l \in c.identity},
        confidence |-> c.confidence, licenses |-> c.licenses, hashes |-> c.hashes,
        risks |-> c.risks, occs |-> c.occs, testOnly |-> c.testOnly,
        purlName |-> IF c.purl = <<>> THEN "" ELSE c.purl[Len(c.purl) - 1],
        generationParams |-> c.generationParams] : c \in i.components} ]

(* Identity, merging and confidence are the same in whatever order the
   findings arrive (the comment of Build, TestOrderIndependence). *)
OrderFree == stage = "done" =>
  OrderFreePart(inv) = OrderFreePart(Build(SetToSeq(Range(absorbed))))

HoldsSighting(c, o) == \E x \in Range(c.occs) : SameSighting(x, o)
Home(f) == {c \in inv.components : c.id = canonicalID(redirects, normalizeKey(f.claim))}
BoundElsewhere(f) == \E c \in inv.components : \E b \in c.generationParams :
  b.name = Lookup(Canon, f.claim.name) /\ b.path = f.occurrence.path

(* Keep and relate: through folding, deduplication and the choice of a winner
   every finding stays a sighting of one component and every version, range
   and other name it claimed stays in that component's identity evidence; only
   a parameter a model already binds may go. *)
ClaimsKept == stage = "done" => \A f \in Range(absorbed) :
  \/ f.claim.kind = "ai-config" /\ BoundElsewhere(f)
  \/ \E c \in Home(f) :
       /\ Home(f) = {c} /\ HoldsSighting(c, f.occurrence)
       /\ \A v \in ({f.claim.version, extraVersion(f.claim)} \ {""}) :
            \E l \in c.identity : l.field = "version" /\ l.value = v
       /\ f.claim.range # "" =>
            \E l \in c.identity : l.field = "versionConstraint" /\ l.value = f.claim.range
       /\ f.claim.name # c.name =>
            \E l \in c.identity : l.field = "name" /\ l.value = f.claim.name

(* Refusal over guessing: one component never joins findings of two declared
   ecosystems of a package, nor of two vendors unless the model's name says who
   published it, and a claim that names neither joins one only if it is the
   only one of its name. *)
SameComponent(f, g) == Home(f) = Home(g) /\ Home(f) # {}
NeverGuessed == stage = "done" => \A f, g, h \in Range(absorbed) :
  LET kf == normalizeKey(f.claim)  kg == normalizeKey(g.claim)  kh == normalizeKey(h.claim) IN
  /\ SameComponent(f, g) /\ kf.class = "package" /\ ~Discless(kf) /\ ~Discless(kg)
       => kf.disc = kg.disc
  /\ SameComponent(f, g) /\ kf.class = "hosted-model" /\ kf.provider # kg.provider
       => \/ "" \in {kf.provider, kg.provider}
          \/ \E c \in Home(f) : c.name \in DOMAIN Publisher /\ c.provider = Publisher[c.name]
  /\ kf.class = "package" /\ Discless(kf) /\ ~Discless(kg) /\ ~Discless(kh) /\ kg.disc # kh.disc
     /\ {[k EXCEPT !.disc = <<"">>] : k \in {kg, kh}} = {kf}
       => ~SameComponent(f, g)

(* Relations survive folding: both ends of an edge are components; every
   relation becomes an edge to the one component it means, or a warning, or was
   about its own component; and an edge to a name is only ever claimed where a
   single component has that name. *)
RelationsAccounted == stage = "done" =>
  LET ids         == {c.id : c \in inv.components}
      meant(f, r) == resolveHint(drafts, redirects, absorbed, f, r)
      called(f, r) == {c.id : c \in {x \in inv.components :
                         /\ x.id.class = classOf(r.kind)
                         /\ x.name = Lookup(Canon, IF r.form = "field" THEN f.occurrence.model ELSE r.arg)}}
      from(f)     == {c.id : c \in Home(f)}
  IN /\ \A e \in inv.relationships : e.from \in ids /\ e.to \in ids /\ e.from # e.to
     /\ \A f \in Range(absorbed) : \A r \in Range(f.relations) :
          \/ meant(f, r) = from(f)
          \/ \E e \in inv.relationships : /\ e.type = r.type /\ {e.from} = from(f) /\ {e.to} = meant(f, r)
                                          /\ f.occurrence \in e.sightings
          \/ [why |-> "relation", of |-> f.claim.name, at |-> f.occurrence.path,
              type |-> r.type] \in warnings
     /\ \A e \in inv.relationships : \A o \in e.sightings :
          \E f \in Range(absorbed) : \E r \in Range(f.relations) :
            /\ f.occurrence = o /\ r.type = e.type /\ from(f) = {e.from}
            /\ r.form # "local" => called(f, r) = {e.to}

(* Two values of one fact that differ are never settled in silence: the fact
   is not reported, or a warning says so (docs/ARCHITECTURE.md 9.2).  No
   configuration checks it, the code does not have it: the warnings about a
   package's facts are collected and never reported. *)
ConflictsReported == stage = "done" => \A f, g \in Range(absorbed) :
  /\ Home(f) = Home(g) /\ "" \notin {f.claim.eco, g.claim.eco} /\ f.claim.eco # g.claim.eco
    => \E c \in Home(f) : c.eco \in {"", "unknown"} \/ \E w \in warnings : w.why = "conflict"
=============================================================================
