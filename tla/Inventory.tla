----------------------------- MODULE Inventory -----------------------------
(* From findings to documents: the assembler's inventory, the overlays that  *)
(* annotate it one after the other (internal/app/scan.go), the documents     *)
(* written from it and its comparison with another scan of the same project. *)
EXTENDS Assemble

CONSTANTS
  Slug,       \* display name -> identifier fragment
  VersionOf,  \* version text -> its numbers
  CVEs,       \* advisory ids of the CVE namespace
  Worlds,     \* what a scan finds outside the project: catalogs, bundle, replies, day
  Scans,      \* pairs of a set of findings and a world
  Frameworks, \* the controls of the requested frameworks
  Policies    \* --fail-on expressions

VARIABLES
  world,  \* the scan's world
  doc,    \* the inventory as far as it is annotated
  said,   \* warnings of the overlays
  phase

ovars == <<world, doc, said, phase>>

INSTANCE Documents WITH IsTestPath <- TestPaths, Before <- TextBefore
INSTANCE Overlays WITH DateTexts <- Range(DateOf)
INSTANCE InventoryDiff

(* A reply of OSV.dev is a list of records, scored or not; a day is a number. *)
ASSUME InventoryAssumption == \A w \in Worlds :
  /\ \A reply \in Range(w.osv) :
       /\ reply \in Seq(Range(reply))
       /\ \A r \in Range(reply) : r.v3 \in Nat \cup {NoScore} /\ r.text \in Nat /\ r.aliases \in Seq(Range(r.aliases))
  /\ w.day \in Nat
  /\ \A f \in w.eolFiles \cup w.bundle.eol :
       f.verified \in Nat \cup {Bad} /\ \A m \in f.models : {m.shutdown, m.verified} \subseteq Nat \cup {Bad}

bare(c) == [f \in DOMAIN c \cup {"vulns", "eol"} |->
              CASE f = "vulns" -> {} [] f = "eol" -> NoClaim [] OTHER -> c[f]]
Bare(i) ==
  [ root |-> i.root, relationships |-> i.relationships, controls |-> {},
    components |-> {bare(c) : c \in i.components},
    tool |-> [version |-> 1, rulesVersion |-> 1, rulesHash |-> 1, eolCatalog |-> ""] ]

CheckAdvisories(i, w) == [i EXCEPT !.components = enrichCVE(@, w).components]
MarkExploited(i, w) ==
  IF kevFor(w).catalog = Refused THEN i ELSE [i EXCEPT !.components = enrichKEV(@, kevFor(w).catalog)]
ClaimLifecycles(i, w) ==
  LET f == catalogFor(w) IN
  IF f.catalog = Refused THEN i
  ELSE [i EXCEPT !.components = {[c EXCEPT !.eol = enrichEOL(c, f.catalog, w.day)] : c \in @},
                 !.tool.eolCatalog = f.from]
Comply(i, w) == [i EXCEPT !.controls = {evalControl(k, i.components, w.includeTests) : k \in Frameworks}]
Annotated(i, w) == Comply(ClaimLifecycles(MarkExploited(CheckAdvisories(Bare(i), w), w), w), w)

IInit == Init /\ world \in Worlds /\ <<pending, world>> \in Scans
         /\ doc = NoInv /\ said = {} /\ phase = "assembly"
Overlay(from, to, next, warns) ==
  /\ phase = from /\ phase' = to
  /\ doc' = next /\ said' = said \cup warns
  /\ UNCHANGED <<vars, world>>

Assembly == Next /\ ~Done /\ UNCHANGED ovars
Osv == stage = "done" /\ Overlay("assembly", "kev", CheckAdvisories(Bare(inv), world),
                                 enrichCVE(Bare(inv).components, world).warnings)
Kev == Overlay("kev", "eol", MarkExploited(doc, world),
               LET f == kevFor(world) IN
               IF f.catalog = Refused THEN f.warn \cup {"kev unavailable"}
               ELSE f.warn \cup (IF staleKEV(f.catalog, world.day) THEN {"kev stale"} ELSE {}))
Eol == Overlay("eol", "comply", ClaimLifecycles(doc, world),
               LET f == catalogFor(world) IN
               IF f.catalog = Refused THEN f.warn \cup {"eol unavailable"}
               ELSE f.warn \cup {w[1] : w \in StalenessWarning(f.catalog, world.day)})
Map == Overlay("comply", "done", Comply(doc, world), {})
Written == phase = "done" /\ UNCHANGED <<vars, ovars>>

INext == Assembly \/ Osv \/ Kev \/ Eol \/ Map \/ Written
ISpec == IInit /\ [][INext]_<<vars, ovars>> /\ WF_<<vars, ovars>>(INext)

-----------------------------------------------------------------------------
(* Properties *)

(* Every reference in every document written from an annotated inventory,
   through folded drafts and dropped components, names one element of it. *)
DocumentsResolve == phase = "done" => ReferencesResolve(doc)

(* The documents of one scan never tell different stories. *)
DocumentsAgree == phase = "done" => OneStory(doc)

(* A version bump in one place reads as a change of one component, never as
   one that went and one that came (diff.go); and when a finding goes, what
   was added or removed has its name, or is a parameter some model now binds
   or no longer binds. *)
Bumped(n) == [absorbed EXCEPT ![n].claim.version = "2.0"]
DiffBlamesTheCode == phase = "done" => \A n \in DOMAIN absorbed :
  LET bump == Compute(Annotated(Build(Bumped(n)), world), doc, TRUE)
      lost == Compute(Annotated(Build(RemoveAt(absorbed, n)), world), doc, FALSE)
  IN /\ bump.added = {} /\ bump.removed = {}
     /\ \A c \in lost.added \cup lost.removed :
          c.name = Lookup(Canon, absorbed[n].claim.name) \/ c.kind = "ai-config"

(* The gate of a comparison misses nothing: a policy the new document fails
   and the old one passes is failed by what was added or changed, when it asks
   for what the comparison compares.  Exploitation, the severity of an advisory
   and a confidence within its band are not compared (InventoryDiff). *)
Fails(i, p) == PolicyMatches(p, i.components, {}, FALSE)
Compared(p) == \A clause \in p : \A t \in clause :
  t.on \notin {"confidence", "compliance"} /\ (t.on = "cve" => t.sel = "")
GateMissesNothing == phase = "done" => \A n \in DOMAIN absorbed : \A p \in {q \in Policies : Compared(q)} :
  LET old == Annotated(Build(RemoveAt(absorbed, n)), world) IN
  Fails(doc, p) /\ ~Fails(old, p) /\ ProvenanceDrift(old, doc) = {}
    => runDiff(old, doc, FALSE, p, 1) = 1

(* No advisory gets lost or milder on its way from the reply to the document:
   of every record there is exactly one finding, under one of its names and
   with all of them, no milder, marked as exploited if the list in force has
   any of its names; and a package that was not asked about, or whose question
   failed, has a warning behind its silence.  A package declared without
   version and range is passed over in silence.

   No milder: the score does not fall, and neither does the severity, which
   the gate reads, except for a record without a score whose name a scored
   record shares: there the score decides, whatever it says. *)
NoMilder(v, u) == /\ v.score >= u.score
                  /\ v.severity >= u.severity \/ (u.score = 0 /\ v.score > 0)
AdvisoriesKept == phase = "done" => \A c \in doc.components :
  /\ c \in jobsOf(doc.components, world.includeTests) /\ c.name \notin world.down =>
       \A r \in Range(Asked(world, c)) :
         LET names == {r.id} \cup Range(r.aliases)
             found == {v \in c.vulns : names \subseteq {v.id} \cup v.aliases /\ v.id \in names}
         IN \E v \in found :
              /\ NoMilder(v, severityOf(r))
              /\ kevFor(world).catalog # Refused /\ names \cap kevFor(world).catalog.ids # {} => v.kev
  /\ \A v, u \in c.vulns : v.id = u.id => v = u
  /\ queryablePurl(c) /\ (c.name \in world.down \/ (c.testOnly /\ ~world.includeTests))
       => {"cve unreachable", "cve tests skipped"} \cap said # {}
  /\ c.versionConstraint # "" /\ c.eco \in pkgEcosystems /\ c.vulns = {}
       => {"cve tests skipped", "cve range unresolved"} \cap said # {} \/ c.testOnly

(* dedupeByID: "keep the most severe".  It does not hold: moreSevere compares
   scores first, and a record that only states its severity in words has none. *)
KeepsTheMostSevere == phase = "done" => \A c \in doc.components :
  c \in jobsOf(doc.components, world.includeTests) /\ c.name \notin world.down =>
    \A r \in Range(Asked(world, c)) : \E v \in c.vulns :
      v.id \in {r.id} \cup Range(r.aliases) /\ v.severity >= severityOf(r).severity

(* A claim about a model's retirement is worth acting on: the one catalog
   that speaks for the provider is asked, and what it says of the model is in
   the document; the model is retired exactly when its day has come, as days
   pass it only gets worse, and if nobody verified it for ninety days, or the
   bundle's catalog was ignored, the document says so. *)
Usable == world.bundle # NoBundle /\ ~world.noCachedRules /\ "eol bundle ignored" \notin said
SpeaksFor(p) == {f \in IF Usable /\ p \in {b.provider : b \in world.bundle.eol} THEN world.bundle.eol
                       ELSE world.eolFiles : f.provider = p}
Entries(c) == {m \in UNION {f.models : f \in SpeaksFor(c.provider)} :
                 Range(modelIDs(c)) \cap NamesOf(m) # {}}
LifecycleHonest == phase = "done" => \A c \in doc.components :
  LET later(n) == enrichEOL(c, catalogFor(world).catalog, world.day + n) IN
  /\ c.kind \in {"hosted-llm", "embedding-model"} /\ Entries(c) # {} => c.eol.state # ""
  /\ c.eol.state # "" =>
       /\ c.eol.shutdown \in {m.shutdown : m \in Entries(c)}
       /\ c.eol.daysRemaining # {} => (c.eol.state = "retired" <=> \A n \in c.eol.daysRemaining : n <= 0)
       /\ \A n \in {1, 31, 400} : EOLStateRank(later(n).state) >= EOLStateRank(c.eol.state)
       /\ world.day - c.eol.verified > eolStaleAfter => "eol stale" \in said
  /\ world.bundle.eol # {} /\ ~world.noCachedRules =>
       "eol bundle ignored" \in said \/ doc.tool.eolCatalog = world.bundle.version

(* A risk found in shipped code raises an alert, whatever else was found with
   it: dropping a security finding would be the wrong way to be wrong
   (sarifw.go, productionRisks).  No configuration checks it, the code does
   not have it: of a risk one occurrence is kept, which may be one in a test. *)
ShippedRisksAlert == phase = "done" => \A f \in Range(absorbed) :
  f.claim.risk # {} /\ f.occurrence.path \notin TestPaths
    => \E r \in sarif(doc, FALSE).results : r.rule[1] = "risk" /\ {r.component} = {ref(c.id) : c \in Home(f)}

(* The warning about a stale lifecycle catalog names the lever that helps: an
   update of the rules only for a provider the bundle restates (eol.go,
   StalenessWarning).  No configuration checks it, the code does not have it:
   the lever is the update as soon as a bundle was merged into the catalog. *)
LeverHelps == phase = "done" /\ catalogFor(world).catalog # Refused =>
  LET cat == catalogFor(world).catalog IN
  \A w \in StalenessWarning(cat, world.day) : w[1] = "eol stale" /\ w[3] = "airom rules update" =>
    \E p \in DOMAIN cat.verifiedByProvider :
      cat.verifiedByProvider[p] = w[2] /\ p \in {f.provider : f \in world.bundle.eol}
=============================================================================
