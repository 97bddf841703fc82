------------------------------- MODULE Policy -------------------------------
(* --fail-on expressions, internal/app/policy.go: a policy is a set of       *)
(* clauses, a clause a set of terms; a policy fires when some clause holds   *)
(* of one component, or when its compliance selector finds a gap.            *)
EXTENDS Integers, FiniteSets

Rank(sev) == CASE sev = "critical" -> 4 [] sev = "high" -> 3 [] sev = "medium" -> 2 [] sev = "low" -> 1 [] OTHER -> 0
EOLRank(s) == CASE s = "retired" -> 3 [] s = "deprecated" -> 2 [] s = "supported" -> 1 [] OTHER -> 0

(* parseTerm: the selectors a term may carry. *)
validTerm(t, kinds) ==
  CASE t.on = "confidence" -> t.bound \in 0 .. 1000
    [] t.on = "cve"        -> t.sel \in {"", "kev", "low", "medium", "high", "critical"}
    [] t.on = "eol"        -> t.sel \in {"", "deprecated", "retired", "before"}
    [] t.on \in {"risk", "compliance", "pickle-risk"} -> TRUE
    [] OTHER               -> t.on \in kinds \ {"application"}
Mentions(clause, family) == \E t \in clause : t.on = family
(* ParsePolicy: a compliance selector stands alone, and no component is both a
   hosted model and a versioned package. *)
ParsePolicy(p, kinds) ==
  /\ p # {} /\ \A clause \in p : /\ clause # {} /\ \A t \in clause : validTerm(t, kinds)
                                 /\ Mentions(clause, "compliance") => Cardinality(clause) = 1
                                 /\ ~(Mentions(clause, "eol") /\ Mentions(clause, "cve"))

compareConfidence(v, t) ==
  CASE t.op = ">=" -> v >= t.bound [] t.op = "<=" -> v <= t.bound [] t.op = ">" -> v > t.bound
    [] t.op = "<" -> v < t.bound [] t.op = "=" -> v = t.bound
eolTermMatches(t, c) ==
  /\ c.eol.state # ""
  /\ IF t.sel = "before"
     THEN IF c.eol.shutdown = 0 THEN c.eol.state = "retired" ELSE c.eol.shutdown <= t.date
     ELSE EOLRank(c.eol.state) >= EOLRank(IF t.sel = "" THEN "deprecated" ELSE t.sel)
cveTermMatches(t, c) ==
  IF t.sel = "kev" THEN \E v \in c.vulns : v.kev ELSE \E v \in c.vulns : v.severity >= Rank(t.sel)
Severity(id) == IF id \in {"pickle-import", "keras-lambda"} THEN "high" ELSE "medium"
riskTermMatches(t, c) == \E r \in c.risks : t.sel \in {"", Severity(r.id), r.id}
termMatches(t, c) ==
  CASE t.on = "confidence"  -> compareConfidence(c.confidence, t)
    [] t.on = "risk"        -> riskTermMatches(t, c)
    [] t.on = "cve"         -> cveTermMatches(t, c)
    [] t.on = "eol"         -> eolTermMatches(t, c)
    [] t.on = "pickle-risk" -> \E r \in c.risks : r.id = "pickle-import"
    [] OTHER                -> t.on = c.kind

complianceMatches(t, controls) == \E k \in controls : t.sel \in {"", k.id} /\ k.state = "gap"
Gated(cs, includeTests) == {c \in cs : c.kind # "application" /\ (includeTests \/ ~c.testOnly)}
PolicyMatches(p, cs, controls, includeTests) ==
  \E clause \in p :
    IF Mentions(clause, "compliance") THEN \E t \in clause : complianceMatches(t, controls)
    ELSE \E c \in Gated(cs, includeTests) : \A t \in clause : termMatches(t, c)
=============================================================================
