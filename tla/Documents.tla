----------------------------- MODULE Documents -----------------------------
(* What the writers make of one inventory, internal/writer: CycloneDX, SPDX, *)
(* SARIF, OpenVEX and the table.  Layout and wording are left out; what is   *)
(* kept is which elements a document mints, under which identifiers, what    *)
(* refers to them, and which facts of the inventory it states.               *)
(*                                                                           *)
(* A component carries, besides what the assembler gave it, the advisories   *)
(* (vulns) and the lifecycle claim (eol) of the overlays; a control of a     *)
(* compliance framework names the components that are evidence for or        *)
(* against it.                                                               *)
EXTENDS Integers, FiniteSets, SequencesExt, Functions

CONSTANTS
  Slug,        \* display name -> identifier-safe fragment, where it differs
  IsTestPath,  \* the paths that are test scaffolding
  Before(_, _) \* byte order of paths

slug(name) == IF name \in DOMAIN Slug THEN Slug[name] ELSE name

MLKinds == {"hosted-llm", "embedding-model", "local-model-file"}
ref(id) == <<"component", id>>
FirstOf(a, b) == IF a # "" THEN a ELSE b
SumOf(counts) ==
  LET s == SetToSeq(counts)
      upTo[n \in 0 .. Len(s)] == IF n = 0 THEN 0 ELSE upTo[n - 1] + s[n][2]
  IN upTo[Len(s)]
ComponentOf(i, id) == CHOOSE c \in i.components : c.id = id
Root(i) == {c \in i.components : c.id = i.root}
Others(i) == i.components \ Root(i)
RelsOfType(i, type) == {r \in i.relationships : r.type = type}

-----------------------------------------------------------------------------
(* CycloneDX (cdx) *)

(* newBuilder: trained-on goes to the model card, depends-on to the dependency
   graph, everything else becomes a property of its source. *)
modelCardDatasets(i, c) ==
  IF c.kind \in MLKinds THEN {ref(r.to) : r \in {x \in RelsOfType(i, "trained-on") : x.from = c.id}}
  ELSE {}
relProps(i, c) == {<<r.type, ref(r.to)>> : r \in {x \in i.relationships :
                     x.from = c.id /\ x.type \notin {"depends-on", "trained-on"}}}
buildDependencies(i) ==
  LET deps == RelsOfType(i, "depends-on")
  IN {[ref |-> ref(f), dependsOn |-> {ref(r.to) : r \in {x \in deps : x.from = f}}] : f \in {r.from : r \in deps}}

(* Only the fields of CycloneDX's closed list are identity evidence; declared
   ranges travel as properties. *)
cdxIdentityFields == {"group", "name", "version", "purl", "cpe", "omniborId", "swhid", "swid", "hash"}
evidence(c) == {l \in c.identity : l.field \in cdxIdentityFields}
constraintProps(c) == {l.value : l \in {x \in c.identity : x.field = "versionConstraint"}}

properties(c) == [lifecycle |-> c.eol, format |-> c.format, provider |-> c.provider,
                  params |-> {<<p.name, p.value>> : p \in c.generationParams}]
distribution(c) == {c.downloadLocation} \ {""}
cdxComponent(i, c) ==
  [ bomRef |-> ref(c.id), version |-> c.version, constraint |-> c.versionConstraint,
    purl |-> c.purl, licenses |-> c.licenses, hashes |-> c.hashes, externalRefs |-> distribution(c),
    excluded |-> c.testOnly, datasets |-> modelCardDatasets(i, c), rels |-> relProps(i, c),
    identity |-> evidence(c), ranges |-> constraintProps(c), occurrences |-> Len(c.occs),
    properties |-> properties(c) ]

(* One entry for each pair of a component and a risk or an advisory. *)
buildVulnerabilities(i) ==
  UNION {{[id |-> r.id, affects |-> ref(c.id), own |-> TRUE, fixed |-> ""] : r \in c.risks}
         \cup {[id |-> v.id, affects |-> ref(c.id), own |-> FALSE, fixed |-> v.fixed] : v \in c.vulns} :
           c \in i.components}

controlEvidence(k) == IF k.evidence # {} THEN k.evidence ELSE k.counter
(* buildDeclarations: a control that needs a human carries no score. *)
claimFor(i, k) ==
  [ ref |-> <<"claim", k.id>>, target |-> ref(i.root), requirement |-> <<"req", k.id>>,
    score |-> CASE k.state = "met" -> {1} [] k.state = "gap" -> {0} [] OTHER -> {},
    evidence |-> IF controlEvidence(k) = {} THEN {} ELSE {<<"ev", k.id>>} ]
cdx(i) ==
  [ component    |-> {cdxComponent(i, c) : c \in Root(i)},
    components   |-> {cdxComponent(i, c) : c \in Others(i)},
    dependencies |-> buildDependencies(i),
    vulnerabilities |-> buildVulnerabilities(i),
    requirements |-> {<<"req", k.id>> : k \in i.controls},
    claims       |-> {claimFor(i, k) : k \in i.controls},
    evidence     |-> {<<"ev", k.id>> : k \in {x \in i.controls : controlEvidence(x) # {}}} ]

cdxMinted(d) == {c.bomRef : c \in d.component \cup d.components} \cup d.requirements
                \cup {c.ref : c \in d.claims} \cup d.evidence
cdxReferenced(d) ==
  (UNION {c.datasets \cup {r[2] : r \in c.rels} : c \in d.component \cup d.components})
  \cup (UNION {{x.ref} \cup x.dependsOn : x \in d.dependencies})
  \cup {v.affects : v \in d.vulnerabilities}
  \cup (UNION {{c.target, c.requirement} \cup c.evidence : c \in d.claims})

-----------------------------------------------------------------------------
(* SPDX (spdxw) *)

NoAssertion == "NOASSERTION"
(* classOf: the profile of a model or a dataset requires what other packages may
   leave out. *)
required(c) == c.kind \in MLKinds \cup {"dataset"}
suppliedBy(c) == IF c.provider # "" THEN <<"Agent", slug(c.provider)>>
                 ELSE IF required(c) THEN <<NoAssertion>> ELSE <<>>
asserted(c, text) == IF text = "" /\ required(c) THEN NoAssertion ELSE text
identity(c) ==
  [ spdxId |-> ref(c.id), packageVersion |-> asserted(c, c.version), constraint |-> c.versionConstraint,
    purl |-> c.purl, verifiedUsing |-> c.hashes ]
provenance(c) ==
  [suppliedBy |-> suppliedBy(c), downloadLocation |-> asserted(c, c.downloadLocation), testOnly |-> c.testOnly]
(* Of the lifecycle only a shutdown date has a place. *)
aiFields(c) ==
  IF c.kind \notin MLKinds THEN [validUntil |-> {}, params |-> {}]
  ELSE [ validUntil |-> IF c.eol.state # "" THEN {c.eol.shutdown} \ {0} ELSE {},
         params |-> {<<p.name, p.value>> : p \in c.generationParams} ]
(* Sightings have no place either: they are counted. *)
overflow(c) == [occurrences |-> Len(c.occs)]
pkg(c) == [identity |-> identity(c), provenance |-> provenance(c), ai |-> aiFields(c), overflow |-> overflow(c)]
licenseID(l) == <<"License", slug(l)>>

(* findings: the advisories and risks of all packages, numbered through. *)
vulnRefs(i) ==
  SetToSeq(UNION {{[pkg |-> ref(c.id), id |-> v.id, vex |-> TRUE, fixedIn |-> v.fixed] : v \in c.vulns}
                  \cup {[pkg |-> ref(c.id), id |-> r.id, vex |-> FALSE, fixedIn |-> ""] : r \in c.risks} :
                    c \in i.components})
vulnElement(n, v) == <<"Vulnerability", n, slug(v.id)>>

(* vulnRels: an advisory is assessed as affecting the package; a risk is only
   associated with it, the other way round. *)
vulnRels(i) ==
  {LET v == vulnRefs(i)[n] IN
   IF v.vex THEN <<vulnElement(n, v), "vex-affected", v.pkg>>
   ELSE <<v.pkg, "hasAssociatedVulnerability", vulnElement(n, v)>> : n \in DOMAIN vulnRefs(i)}
(* declaredLicenses: one edge for each package and license element. *)
licenseEdges(i) == UNION {{<<ref(c.id), "hasDeclaredLicense", licenseID(l)>> : l \in c.licenses} : c \in i.components}
relationships(i) ==
  {<<ref(r.from), r.type, ref(r.to)>> : r \in i.relationships} \cup licenseEdges(i) \cup vulnRels(i)

spdx(i) ==
  [ elements |-> {<<<<"Agent", "airom">>, "tool">>, <<<<"SBOM">>, "sbom">>}
                 \cup {<<ref(c.id), "package">> : c \in i.components}
                 \cup {<<suppliedBy(c), c.provider>> : c \in {x \in i.components : x.provider # ""}}
                 \cup (UNION {{<<licenseID(l), l>> : l \in c.licenses} : c \in i.components})
                 \cup {<<vulnElement(n, vulnRefs(i)[n]), "vulnerability">> : n \in DOMAIN vulnRefs(i)},
    rootElement |-> ref(i.root),
    suppliers |-> {suppliedBy(c) : c \in {x \in i.components : x.provider # ""}},
    packages |-> {pkg(c) : c \in i.components},
    rels |-> relationships(i),
    about |-> {<<v.id, v.pkg, v.fixedIn>> : v \in Range(vulnRefs(i))} ]

-----------------------------------------------------------------------------
(* SARIF (sarifw) *)

Shipped(kept, o) == IF o.path \in IsTestPath THEN kept ELSE Append(kept, o)
ProductionOccurrences(occs) ==
  LET upTo[n \in 0 .. Len(occs)] == IF n = 0 THEN <<>> ELSE Shipped(upTo[n - 1], occs[n])
  IN upTo[Len(occs)]
(* A mistake to catch: risks of test files raise alerts. *)
allRisks(risks) == risks
productionRisks(risks) == {r \in risks : r.occurrence.path \notin IsTestPath}
pruned(c) == [c EXCEPT !.occs = ProductionOccurrences(@), !.risks = productionRisks(@)]
scannedComponents(i, includeTests) ==
  LET kept == {c \in Others(i) : c.kind # "application" /\ (includeTests \/ ~c.testOnly)}
  IN IF includeTests THEN kept ELSE {pruned(c) : c \in kept}

eolReportable(c) == c.eol.state \in {"retired", "deprecated"}
eolRuleID(c) == <<"eol", IF c.provider = "" THEN "unknown-provider" ELSE c.provider, c.name>>

(* Four tables of rules, laid end to end; a result names its rule and the
   place of the rule in the whole. *)
detectorRules(cs) == SetToSeq({<<"detector", o.detector>> : o \in UNION {Range(c.occs) : c \in cs}})
riskRules(cs) == SetToSeq({<<"risk", r.id>> : r \in UNION {c.risks : c \in cs}})
cveRules(cs) == SetToSeq({<<"cve", v.id>> : v \in UNION {c.vulns : c \in cs}})
eolRules(cs) == SetToSeq({eolRuleID(c) : c \in {x \in cs : eolReportable(x)}})
(* A mistake to catch: the table's place in the whole is forgotten. *)
indexAlone(rules, offset) == [r \in Range(rules) |-> (CHOOSE n \in DOMAIN rules : rules[n] = r)]
indexFrom(rules, offset) == [r \in Range(rules) |-> offset + CHOOSE n \in DOMAIN rules : rules[n] = r]

primaryLocations(c) ==
  {c.occs[n] : n \in {k \in DOMAIN c.occs : \A m \in DOMAIN c.occs \ {k} :
     \/ Before(c.occs[k].path, c.occs[m].path)
     \/ c.occs[k].path = c.occs[m].path
        /\ (c.occs[k].line < c.occs[m].line \/ (c.occs[k].line = c.occs[m].line /\ k < m))}}

(* A result names its rule, and where to look: every sighting of what a detector
   saw and of a model that goes away, the sighting of a risk, and the first one
   of a package with an advisory. *)
result(rule, ix, c, at) == [rule |-> rule, index |-> ix[rule], component |-> ref(c.id), at |-> at]
detectorResults(cs, ix) ==
  UNION {{result(<<"detector", o.detector>>, ix, c, {o}) : o \in Range(c.occs)} : c \in cs}
riskResults(cs, ix) == UNION {{result(<<"risk", r.id>>, ix, c, {r.occurrence}) : r \in c.risks} : c \in cs}
cveResults(cs, ix) == UNION {{result(<<"cve", v.id>>, ix, c, primaryLocations(c)) : v \in c.vulns} : c \in cs}
eolResults(cs, ix) == {result(eolRuleID(c), ix, c, Range(c.occs)) : c \in {x \in cs : eolReportable(x)}}

sarif(i, includeTests) ==
  LET cs == scannedComponents(i, includeTests)
      d == detectorRules(cs)  r == riskRules(cs)  v == cveRules(cs)  e == eolRules(cs)
  IN [ rules   |-> d \o r \o v \o e,
       results |-> detectorResults(cs, indexFrom(d, 0))
                   \cup riskResults(cs, indexFrom(r, Len(d)))
                   \cup cveResults(cs, indexFrom(v, Len(d) + Len(r)))
                   \cup eolResults(cs, indexFrom(e, Len(d) + Len(r) + Len(v))) ]

-----------------------------------------------------------------------------
(* OpenVEX (vexw) and the table (tablew) *)

(* A statement is always "affected", and its action is the version to move to;
   what has no purl is no product anybody could match. *)
vexStatements(i) ==
  UNION {{[product |-> c.purl, vulnerability |-> v.id, status |-> "affected", upgradeTo |-> v.fixed] : v \in c.vulns} :
           c \in {x \in i.components : x.purl # <<>>}}

tableComponents(i, includeTests) ==
  {IF includeTests THEN c ELSE [c EXCEPT !.occs = ProductionOccurrences(@)] :
     c \in {x \in i.components : x.kind # "application" /\ (includeTests \/ ~x.testOnly)}}
visibleRelationships(i, cs) ==
  Cardinality({r \in i.relationships : {r.from, r.to} \subseteq {i.root} \cup {c.id : c \in cs}})
tableRow(c) ==
  [ id |-> c.id, version |-> FirstOf(c.version, c.versionConstraint), vulns |-> Cardinality(c.vulns),
    at |-> primaryLocations(c), evidence |-> Len(c.occs) ]
vulnRows(cs) ==
  UNION {{[library |-> ref(c.id), id |-> v.id, exploited |-> v.kev, fixed |-> v.fixed] : v \in c.vulns} : c \in cs}
eolRows(cs) ==
  {[model |-> ref(c.id), state |-> c.eol.state, shutdown |-> c.eol.shutdown, days |-> c.eol.daysRemaining,
    replacement |-> <<c.eol.replacement, c.eol.replacementState>>] : c \in {x \in cs : eolReportable(x)}}
(* writeSummary: the totals above the table. *)
summary(i, cs) ==
  [ components |-> Cardinality(cs), relationships |-> visibleRelationships(i, cs),
    vulnerabilities |-> SumOf({<<c.id, Cardinality(c.vulns)>> : c \in cs}),
    lifecycle |-> Cardinality({c \in cs : eolReportable(c)}) ]
table(i, includeTests) ==
  LET cs == tableComponents(i, includeTests) IN
  [ rows |-> {tableRow(c) : c \in cs}, vulnRows |-> vulnRows(cs), eolRows |-> eolRows(cs),
    summary |-> summary(i, cs),
    hiddenTests |-> Cardinality({c \in i.components : c.kind # "application"}) - Cardinality(cs) ]

-----------------------------------------------------------------------------
(* What the documents owe the inventory *)

(* Every reference in a document names exactly one element of it: bom-refs and
   spdxIds are unique, and a SARIF result's ruleIndex is its rule. *)
ReferencesResolve(i) ==
  /\ cdxReferenced(cdx(i)) \subseteq cdxMinted(cdx(i))
  /\ LET d == spdx(i)  ids == {e[1] : e \in d.elements}
     IN /\ \A e, f \in d.elements : e[1] = f[1] => e = f
        /\ {d.rootElement} \cup d.suppliers \cup (UNION {{r[1], r[3]} : r \in d.rels}) \subseteq ids
  /\ \A t \in BOOLEAN : \A r \in sarif(i, t).results : sarif(i, t).rules[r.index] = r.rule

(* What CycloneDX and SPDX state of a component, in the words of one of them. *)
Told(text) == IF text = NoAssertion THEN "" ELSE text
InCycloneDX(d) ==
  {[ref |-> c.bomRef, version |-> c.version, constraint |-> c.constraint, purl |-> c.purl, hashes |-> c.hashes,
    from |-> c.externalRefs, testOnly |-> c.excluded, licenses |-> {licenseID(l) : l \in c.licenses},
    occurrences |-> c.occurrences] : c \in d.component \cup d.components}
InSPDX(d) ==
  {[ref |-> p.identity.spdxId, version |-> Told(p.identity.packageVersion), constraint |-> p.identity.constraint,
    purl |-> p.identity.purl, hashes |-> p.identity.verifiedUsing,
    from |-> {Told(p.provenance.downloadLocation)} \ {""}, testOnly |-> p.provenance.testOnly,
    licenses |-> {r[3] : r \in {x \in d.rels : x[1] = p.identity.spdxId /\ x[2] = "hasDeclaredLicense"}},
    occurrences |-> p.overflow.occurrences] : p \in d.packages}

(* The formats tell one story: CycloneDX, SPDX and, where there is a purl,
   OpenVEX state the same advisories of the same components with the same
   upgrade, and CycloneDX and SPDX the same facts about every component; SARIF
   and the table state those of the components that are not only tested, each
   of their alerts and rows points at a line of shipped code, and the totals
   above the table are those of its rows. *)
OneStory(i) ==
  LET bom    == cdx(i)
      stated == {<<v.id, v.affects, v.fixed>> : v \in bom.vulnerabilities}
      cve    == {v \in bom.vulnerabilities : ~v.own}
      log    == sarif(i, FALSE)
      shown  == table(i, FALSE)
      shipped(r) == ~ComponentOf(i, r[2]).testOnly
      alerts(family) == {r \in log.results : r.rule[1] = family}
  IN /\ stated = spdx(i).about
     /\ InCycloneDX(bom) = InSPDX(spdx(i))
     /\ {<<r.rule[2], r.component>> : r \in alerts("cve")} = {<<v.id, v.affects>> : v \in {x \in cve : shipped(x.affects)}}
     /\ {<<r.id, r.library, r.fixed>> : r \in shown.vulnRows}
          = {<<v.id, v.affects, v.fixed>> : v \in {x \in cve : shipped(x.affects)}}
     /\ {r.component : r \in alerts("eol")} = {r.model : r \in shown.eolRows}
     /\ {r.model : r \in shown.eolRows}
          = {c.bomRef : c \in {x \in bom.components : /\ x.properties.lifecycle.state \in {"deprecated", "retired"}
                                                      /\ shipped(x.bomRef)}}
     /\ \A v \in cve : ComponentOf(i, v.affects[2]).purl # <<>> =>
          [product |-> ComponentOf(i, v.affects[2]).purl, vulnerability |-> v.id, status |-> "affected",
           upgradeTo |-> v.fixed] \in vexStatements(i)
     /\ \A r \in log.results : r.at # {} /\ \A o \in r.at : o.path \notin IsTestPath
     /\ \A r \in shown.rows : r.evidence > 0
     /\ shown.summary.components = Cardinality(shown.rows)
     /\ shown.summary.vulnerabilities = Cardinality(shown.vulnRows)
     /\ shown.summary.lifecycle = Cardinality(shown.eolRows)
     /\ \A c \in bom.components : \A l \in ComponentOf(i, c.bomRef[2]).identity :
          l \in c.identity \/ l.value \in c.ranges
=============================================================================
