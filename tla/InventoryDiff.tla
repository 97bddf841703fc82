--------------------------- MODULE InventoryDiff ---------------------------
(* airom diff: two inventories compared component by component, and a gate   *)
(* over what was added or changed (internal/diff, internal/cli/diff.go).     *)
EXTENDS Policy

Band(confidence) == IF confidence >= 900 THEN "high" ELSE IF confidence >= 600 THEN "medium" ELSE "low"

(* The tooling that produced a document; a difference in it confounds every
   other one. *)
ProvenanceDrift(old, new) ==
  {f \in {"version", "rulesVersion", "rulesHash", "eolCatalog"} : old.tool[f] # new.tool[f]}

(* The compared surface of a component: evidence is not part of it, confidence
   only by its band, and the claimed version is. *)
surface(c) ==
  [ kind |-> c.kind, name |-> c.name, group |-> c.group, version |-> c.version,
    versionConstraint |-> c.versionConstraint, provider |-> c.provider, purl |-> c.purl,
    licenses |-> c.licenses, confidence |-> Band(c.confidence),
    risks |-> {r.id : r \in c.risks}, vulns |-> {v.id : v \in c.vulns},
    eol |-> IF c.eol.state = "" THEN <<>> ELSE <<c.eol.state, c.eol.shutdown>>, testOnly |-> c.testOnly ]

considered(i, includeTests) ==
  {c \in i.components : /\ c.id # i.root /\ c.kind # "application"
                        /\ includeTests \/ ~c.testOnly}

Compute(old, new, includeTests) ==
  LET was == considered(old, includeTests)
      is  == considered(new, includeTests)
      both == {p \in was \X is : p[1].id = p[2].id}
  IN [ added     |-> {c \in is : \A p \in both : p[2] # c},
       removed   |-> {c \in was : \A p \in both : p[1] # c},
       changed   |-> {p[2] : p \in {q \in both : surface(q[1]) # surface(q[2])}},
       unchanged |-> Cardinality({p \in both : surface(p[1]) = surface(p[2])}),
       testOnlySkipped |-> IF includeTests THEN 0
                           ELSE Cardinality({c \in old.components \cup new.components :
                                               c.testOnly /\ c.kind # "application"}),
       drift     |-> ProvenanceDrift(old, new) ]

(* A mistake to catch: what changed is not gated. *)
GateAdded(d) == d.added
GateComponents(d) == d.added \cup d.changed

(* runDiff: the report first; then a gate, which refuses to answer over two
   documents of different tooling, and knows no compliance selector. *)
NoPolicy == {}
runDiff(old, new, includeTests, policy, exitCode) ==
  LET d == Compute(old, new, includeTests) IN
  CASE policy = NoPolicy                                           -> 0
    [] \E clause \in policy : Mentions(clause, "compliance")       -> 2
    [] policy # NoPolicy /\ d.drift # {}                           -> 2
    [] OTHER -> IF PolicyMatches(policy, GateComponents(d), {}, TRUE) THEN exitCode ELSE 0
=============================================================================
