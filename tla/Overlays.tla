------------------------------ MODULE Overlays ------------------------------
(* The overlays on a finished inventory: the advisories of OSV.dev           *)
(* (internal/osv), CISA's list of exploited ones (internal/kev), the         *)
(* providers' lifecycle pages (internal/eol) and the compliance frameworks   *)
(* (internal/compliance); and where their data come from: the catalogs built *)
(* into the program and those of the active rule bundle (internal/app).      *)
(*                                                                           *)
(* A date is a day number, NoDate when it is not given and Bad when it does  *)
(* not parse.  A model is <<line, snapshot date>>, with the date "" for the  *)
(* line itself.  CVSS arithmetic is left out: a record has the score its CVSS  *)
(* 3 vector comes to, in tenths, or NoScore when it has none (a CVSS 4 one   *)
(* is not read), and the severity it states in words, as a number.           *)
EXTENDS Integers, FiniteSets, SequencesExt, Functions

CONSTANTS
  VersionOf,   \* version text -> its numbers, for the texts parseVersion reads
  DateTexts,   \* the versions that are snapshot dates
  CVEs         \* the advisory ids of the CVE namespace

NoDate == 0
Bad == -1
Refused == [refused |-> TRUE]
pkgEcosystems == {"pypi", "npm", "golang", "cargo", "maven", "nuget"}

-----------------------------------------------------------------------------
(* Lifecycle catalogs (eol) *)

futureVerifiedTolerance == 30
eolStaleAfter == 90
EOLStateRank(s) == CASE s = "retired" -> 3 [] s = "deprecated" -> 2 [] s = "supported" -> 1 [] OTHER -> 0

NamesOf(m) == {m.id} \cup m.aliases
validModel(m) ==
  /\ m.state \in {"supported", "deprecated", "retired"}
  /\ Bad \notin {m.announced, m.shutdown, m.verified}
  /\ m.shutdown # NoDate => m.announced # NoDate /\ m.shutdown >= m.announced /\ m.state # "supported"
  /\ m.replacement \notin NamesOf(m) /\ m.id \notin m.aliases

(* addProvider's checks of one file, on the day the catalog is loaded. *)
validFile(pf, today) ==
  /\ pf.provider # "" /\ pf.source # "" /\ pf.models # {}
  /\ pf.verified \notin {NoDate, Bad} /\ pf.verified - today <= futureVerifiedTolerance
  /\ \A m \in pf.models : validModel(m)

(* No two entries of a provider share a name, in one file or in several. *)
distinctNames(files) ==
  LET entries == UNION {{f.provider} \X {f.source} \X f.models : f \in files} IN
  \A a, b \in entries : a[1] = b[1] /\ NamesOf(a[3]) \cap NamesOf(b[3]) # {} => a = b

verifiedOn(pf, m) == IF m.verified = NoDate THEN pf.verified ELSE m.verified
earliest(S) == CHOOSE d \in S : \A e \in S : d <= e

entryOf(f, m) ==
  [ provider |-> f.provider, names |-> NamesOf(m), state |-> m.state, announced |-> m.announced,
    shutdown |-> m.shutdown, replacement |-> m.replacement, verified |-> verifiedOn(f, m) ]

(* loadFS: a catalog is loaded whole or refused. *)
loadCatalog(files, today, from) ==
  IF ~(\A f \in files : validFile(f, today)) \/ ~distinctNames(files) THEN Refused
  ELSE LET recs == UNION {{entryOf(f, m) : m \in f.models} : f \in files}
       IN [ records |-> recs, source |-> from,
            verifiedByProvider |-> [p \in {r.provider : r \in recs} |->
                                      earliest({r.verified : r \in {x \in recs : x.provider = p}})] ]

(* A mistake to catch: the bundle's catalog replaces the built-in one. *)
replaceCatalog(base, over) == over
(* Overlay: a provider the bundle restates is the bundle's alone, and a
   provider it is silent about stays as built in. *)
overlayCatalog(base, over) ==
  LET kept == DOMAIN base.verifiedByProvider \ DOMAIN over.verifiedByProvider IN
  [ records |-> over.records \cup {r \in base.records : r.provider \in kept},
    source |-> over.source,
    verifiedByProvider |-> [p \in DOMAIN over.verifiedByProvider \cup kept |->
                              IF p \in kept THEN base.verifiedByProvider[p] ELSE over.verifiedByProvider[p]] ]

NoBundle == [version |-> "", eol |-> {}, kev |-> {}]
(* loadEOLCatalogFor: the catalog in force and what to say about the bundle's. *)
catalogFor(world) ==
  LET embedded == loadCatalog(world.eolFiles, world.today, "builtin")
      bundled  == loadCatalog(world.bundle.eol, world.today, "bundle")
      present  == world.bundle # NoBundle /\ ~world.noCachedRules /\ world.bundle.eol # {}
  IN IF embedded = Refused THEN [catalog |-> Refused, from |-> "", warn |-> {}]
     ELSE CASE ~present                     -> [catalog |-> embedded, from |-> "builtin", warn |-> {}]
            [] present /\ bundled = Refused -> [catalog |-> embedded, from |-> "builtin", warn |-> {"eol bundle ignored"}]
            [] OTHER -> [catalog |-> overlayCatalog(embedded, bundled), from |-> world.bundle.version, warn |-> {}]

(* The announced state as of the scan day: a date that has come retires. *)
DeriveEOLState(announced, shutdown, on) ==
  IF shutdown = NoDate THEN announced ELSE IF shutdown <= on THEN "retired" ELSE "deprecated"

NoClaim == [state |-> ""]
recordOf(cat, provider, model) == {r \in cat.records : r.provider = provider /\ model \in r.names}
LookupEOL(cat, provider, model, on) ==
  IF recordOf(cat, provider, model) = {} THEN NoClaim
  ELSE LET r == CHOOSE x \in recordOf(cat, provider, model) : TRUE
           next == recordOf(cat, provider, r.replacement)
       IN [ state |-> DeriveEOLState(r.state, r.shutdown, on), shutdown |-> r.shutdown,
            verified |-> r.verified, provider |-> provider, replacement |-> r.replacement,
            replacementState |-> {DeriveEOLState(n.state, n.shutdown, on) : n \in next},
            daysRemaining |-> IF r.shutdown = NoDate THEN {} ELSE {r.shutdown - on} ]

(* modelIDs: the snapshot first, then its line. *)
modelIDs(c) == IF c.version \in DateTexts THEN <<<<c.name, c.version>>, <<c.name, "">>>>
               ELSE <<<<c.name, "">>>>
enrichEOL(c, cat, on) ==
  LET ids == modelIDs(c)  found == {n \in DOMAIN ids : recordOf(cat, c.provider, ids[n]) # {}}
  IN IF c.kind \notin {"hosted-llm", "embedding-model"} \/ c.provider = "" \/ found = {} THEN NoClaim
     ELSE LookupEOL(cat, c.provider, ids[earliest(found)], on)

(* StalenessWarning: about the provider verified longest ago, with the lever
   that is said to help. *)
StalenessWarning(cat, on) ==
  IF cat.verifiedByProvider = << >> THEN {}
  ELSE LET worst == earliest(Range(cat.verifiedByProvider))
           lever == IF cat.source = "bundle" THEN "airom rules update" ELSE "upgrade airom"
       IN IF worst > on THEN {<<"eol verified after the scan", worst>>}
          ELSE IF on - worst > eolStaleAfter THEN {<<"eol stale", worst, lever>>} ELSE {}

-----------------------------------------------------------------------------
(* Advisories (osv) *)

queryablePurl(c) == c.purl # <<>> /\ c.purl[1] \in pkgEcosystems
skippedTests(c, includeTests) == queryablePurl(c) /\ c.testOnly /\ ~includeTests
jobsOf(cs, includeTests) == {c \in cs : queryablePurl(c) /\ ~skippedTests(c, includeTests)}
unresolvedRange(c, includeTests) ==
  /\ ~queryablePurl(c) /\ c.versionConstraint # "" /\ c.eco \in pkgEcosystems
  /\ includeTests \/ ~c.testOnly

(* compareVersions: number by number, the shorter one padded with zeros. *)
part(v, n) == IF n \in DOMAIN v THEN v[n] ELSE 0
Older(a, b) == \E n \in DOMAIN a \cup DOMAIN b :
  part(a, n) < part(b, n) /\ \A m \in 1 .. n - 1 : part(a, m) = part(b, m)
Parses(text) == text \in DOMAIN VersionOf

NoScore == -1
SeverityFromScore(score) ==
  CASE score >= 90 -> 4 [] score \in 70 .. 89 -> 3 [] score \in 40 .. 69 -> 2 [] score \in 1 .. 39 -> 1
    [] OTHER -> 0
(* severityOf: the words count only without a score, and then the score is 0. *)
severityOf(record) ==
  IF record.v3 = NoScore THEN [score |-> 0, severity |-> record.text]
  ELSE [score |-> record.v3, severity |-> SeverityFromScore(record.v3)]

(* firstFixed: the least listed version newer than the installed one, else the
   first listed, else a commit. *)
firstFixed(fixes, version) ==
  LET real == SelectSeq(fixes, LAMBDA f : ~f.git)
      newer == SelectSeq(real, LAMBDA f : /\ Parses(version) /\ Parses(f.version)
                                          /\ Older(VersionOf[version], VersionOf[f.version]))
      least(f) == \A g \in Range(newer) : ~Older(VersionOf[g.version], VersionOf[f.version])
  IN CASE fixes = <<>> -> ""
       [] fixes # <<>> /\ real = <<>> -> fixes[1].version
       [] real # <<>> /\ newer = <<>> -> real[1].version
       [] OTHER -> SelectSeq(newer, least)[1].version

preferCVE(id, aliases) ==
  LET all == <<id>> \o aliases  cves == {n \in DOMAIN all : all[n] \in CVEs}
      chosen == IF cves = {} THEN id ELSE all[earliest(cves)]
  IN [id |-> chosen, aliases |-> Range(all) \ {chosen}]
toVuln(record, version) ==
  LET named == preferCVE(record.id, record.aliases)
      rated == severityOf(record)
  IN
  [ id |-> named.id, aliases |-> named.aliases, score |-> rated.score, severity |-> rated.severity,
    kev |-> FALSE, fixed |-> firstFixed(record.fixes, version) ]

moreSevere(a, b) == a.score > b.score \/ (a.score = b.score /\ a.severity > b.severity)
versionShaped(text) == Parses(text)
(* A mistake to catch: the first record of an id stays as it is. *)
keepFirst(m, v) == m
(* dedupeByID: records that share an id become one. *)
mergeAdvisory(m, v) ==
  [ m EXCEPT !.score = IF moreSevere(v, m) THEN v.score ELSE @,
             !.severity = IF moreSevere(v, m) THEN v.severity ELSE @,
             !.fixed = IF @ = "" \/ (versionShaped(v.fixed) /\ ~versionShaped(@)) THEN v.fixed ELSE @,
             !.aliases = (@ \cup v.aliases) \ {m.id} ]
joined(found, v) ==
  [id \in DOMAIN found \cup {v.id} |->
     IF id # v.id THEN found[id] ELSE IF id \in DOMAIN found THEN mergeAdvisory(found[id], v) ELSE v]
dedupeByID(vulns) ==
  LET out[n \in 0 .. Len(vulns)] == IF n = 0 THEN << >> ELSE joined(out[n - 1], vulns[n])
  IN Range(out[Len(vulns)])

Asked(world, c) == IF c.name \in DOMAIN world.osv THEN world.osv[c.name] ELSE <<>>
query(world, c) == dedupeByID([n \in DOMAIN Asked(world, c) |-> toVuln(Asked(world, c)[n], c.version)])

(* osv.Enrich.  Replies come in any order, each to its own component. *)
enrichCVE(cs, world) ==
  LET jobs   == jobsOf(cs, world.includeTests)
      failed == {c \in jobs : c.name \in world.down}
      says(text, S) == IF S = {} THEN {} ELSE {text}
  IN [ components |-> {[c EXCEPT !.vulns = IF c \in jobs \ failed THEN query(world, c) ELSE {}] : c \in cs},
       warnings |-> says("cve tests skipped", {c \in cs : skippedTests(c, world.includeTests)})
                    \cup says("cve range unresolved", {c \in cs : unresolvedRange(c, world.includeTests)})
                    \cup says("cve unreachable", failed) ]

-----------------------------------------------------------------------------
(* Known-exploited vulnerabilities (kev) *)

kevStaleAfter == 30
validKEV(f) ==
  /\ f.vulns # {} /\ f.count \in {0, Cardinality(f.vulns)}
  /\ Bad \notin {f.released, f.generated} /\ \A v \in f.vulns : v.added \notin {NoDate, Bad}
loadKEV(files) ==
  IF files = {} \/ ~(\A f \in files : validKEV(f)) THEN Refused
  ELSE [ids |-> {v.id : v \in UNION {f.vulns : f \in files}}, generated |-> earliest({f.generated : f \in files})]
(* loadKEVCatalogFor: a bundle's list replaces the built-in one. *)
kevFor(world) ==
  LET embedded == loadKEV(world.kevFiles)  bundled == loadKEV(world.bundle.kev)
      present  == world.bundle # NoBundle /\ ~world.noCachedRules /\ world.bundle.kev # {}
  IN IF embedded = Refused THEN [catalog |-> Refused, warn |-> {}]
     ELSE CASE ~present                     -> [catalog |-> embedded, warn |-> {}]
            [] present /\ bundled = Refused -> [catalog |-> embedded, warn |-> {"kev bundle ignored"}]
            [] OTHER                        -> [catalog |-> bundled, warn |-> {}]
staleKEV(cat, on) == cat.generated # NoDate /\ on - cat.generated > kevStaleAfter
lookupAny(cat, v) == ({v.id} \cup v.aliases) \cap cat.ids # {}
enrichKEV(cs, cat) ==
  {[c EXCEPT !.vulns = {[v EXCEPT !.kev = lookupAny(cat, v)] : v \in @}] : c \in cs}

-----------------------------------------------------------------------------
(* Compliance: a control has one directive, an expression in disjunctive form
   whose matches are evidence, one whose matches are a gap, or neither. *)

riskSeverity(id) == IF id \in {"pickle-import", "keras-lambda"} THEN "high" ELSE "medium"
hasRisk(c, sel) == \E r \in c.risks : sel \in {"", riskSeverity(r.id), r.id}
termHolds(t, c) ==
  CASE t.on = "any" -> TRUE [] t.on = "kind" -> c.kind = t.arg [] t.on = "risk" -> hasRisk(c, t.arg)
matchesComponent(expr, c) == \E clause \in expr : clause # {} /\ \A t \in clause : termHolds(t, c)
matching(expr, cs, includeTests) ==
  {c.id : c \in {x \in cs : /\ x.kind # "application" /\ (includeTests \/ ~x.testOnly)
                            /\ matchesComponent(expr, x)}}
evalControl(k, cs, includeTests) ==
  LET found == matching(k.expr, cs, includeTests) IN
  [ id |-> k.id,
    state |-> CASE k.directive = "manual" -> "manual"
                [] k.directive = "evidence" -> IF found = {} THEN "gap" ELSE "met"
                [] k.directive = "gap"      -> IF found = {} THEN "met" ELSE "gap",
    evidence |-> IF k.directive = "evidence" THEN found ELSE {},
    counter |-> IF k.directive = "gap" THEN found ELSE {} ]
=============================================================================
