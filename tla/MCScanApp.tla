---- MODULE MCScanApp ----
EXTENDS ScanApp

Part(purl, test, high, vuln, eol, control) ==
    [purl |-> purl, test |-> test, high |-> high, vuln |-> vuln, eol |-> eol,
     control |-> control]

\* What frameworks A and B make of a component.
Says(a, b) == [A |-> a, B |-> b]
MCFrameworks == {"A", "B"}

\* A package with an exploited advisory, one with a plain advisory the
\* confidence filter hides, one seen in tests only, a retired hosted model, a
\* retired model a test fixture names, a model file below the confidence bound
\* that speaks against a control.
Exploited == Part(TRUE,  FALSE, TRUE,  "kev",   FALSE, Says("evidence", "none"))
Doubtful  == Part(TRUE,  FALSE, FALSE, "plain", FALSE, Says("none", "evidence"))
Scaffold  == Part(TRUE,  TRUE,  TRUE,  "plain", FALSE, Says("counter", "none"))
Retired   == Part(FALSE, FALSE, TRUE,  "none",  TRUE,  Says("evidence", "evidence"))
Fixture   == Part(FALSE, TRUE,  TRUE,  "none",  TRUE,  Says("counter", "counter"))
Weights   == Part(FALSE, FALSE, FALSE, "none",  FALSE, Says("counter", "none"))
MCComps == {Exploited, Doubtful, Scaffold, Retired, Fixture, Weights}

Contents == {{}, {Exploited, Doubtful}, {Doubtful, Weights}, {Scaffold, Retired},
             {Fixture, Doubtful}, {Exploited, Doubtful, Scaffold}}
MCWorlds == {<<>>} \cup {<<a>> : a \in Contents}
            \cup {<<a, b>> : a, b \in {{}, {Exploited}, {Retired, Weights}}}

Policies == {{}, {{}}, {{"cve"}}, {{"kev"}}, {{"cve", "high"}},
             {{"eol"}, {"kev"}}, {{"gap"}}, {{"B"}}}

\* One output, or two and the fixer behind them; compliance off, both
\* frameworks, or one of them, which a policy on the other does not cover.
MCConfigs ==
    {c \in [source : {"fs", "k8s"}, cve : BOOLEAN, eol : BOOLEAN,
            comply : {{}, {"A"}, {"A", "B"}, {"A", "bogus"}}, policy : Policies,
            code : {0, 1}, filter : BOOLEAN, tests : BOOLEAN,
            outputs : {<<"full">>, <<"table">>, <<"alerts">>, <<"table", "full">>,
                       <<"alerts", "report">>}, fix : BOOLEAN] :
        /\ c.comply = {"A", "bogus"} => c.policy = {} /\ ~c.filter
        /\ Len(c.outputs) = 2 => c.fix
        /\ c.outputs \in {<<"table">>, <<"alerts">>} => c.policy = {}
        /\ c.tests => ~c.filter
        /\ c.code = 0 => c.policy \in {{{}}, {{"kev"}}}}
====
