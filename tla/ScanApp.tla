------------------------------ MODULE ScanApp ------------------------------
(***************************************************************************)
(* One command from its flags to its exit code: Run and runScanPipeline    *)
(* (internal/app/run.go, scan.go), the CVE overlay's concurrent queries    *)
(* (internal/osv/osv.go), the known-exploited and lifecycle overlays, the  *)
(* compliance mapping, emit (output.go), the gate (policy.go) and the      *)
(* exit-code mapping (internal/cli/cli.go).                                *)
(*                                                                         *)
(* A component is a record of what is true of it: whether OSV can be asked *)
(* about it (purl), whether it is test scaffolding, whether its confidence *)
(* reaches --min-confidence (high), the advisory OSV holds for it (vuln:   *)
(* "none", "plain" or "kev", the last one listed as exploited), whether    *)
(* its provider announced its retirement (eol), and what each compliance   *)
(* framework makes of it ("evidence" for one control, "counter" to         *)
(* another).  What the overlays LEARNED is state, so a verdict can be      *)
(* compared with what is true.                                             *)
(*                                                                         *)
(* A fs, repo or image command has one target; a k8s command has one per   *)
(* workload image.                                                         *)
(***************************************************************************)
EXTENDS Naturals, FiniteSets, Sequences

CONSTANTS
    Comps,        \* the components a target may hold
    Worlds,       \* what the targets hold: sequences of SUBSET Comps
    Configs,      \* the flag combinations
    Frameworks,   \* the compliance frameworks airom embeds
    Concurrency   \* osv: queries in flight at a time

\* The output formats, told apart by what they carry: native JSON, YAML and
\* CycloneDX; the table; SARIF, SPDX and OpenVEX; the compliance report.
Formats == {"full", "table", "alerts", "report"}
Carries(format) ==
    CASE format = "full"   -> {"vulns", "unchecked", "gaps"}
      [] format = "table"  -> {"vulns", "unchecked"}
      [] format = "alerts" -> {"vulns"}
      [] format = "report" -> {"gaps"}

\* A clause about the compliance overlay: "compliance" asks about any framework,
\* "compliance:<framework>" about that one (or one control of it).
IsGap(clause) == \E f \in Frameworks \cup {"gap"} : clause = {f}

ASSUME ScanAppAssumption ==
    /\ Concurrency \in Nat \ {0}
    /\ \A w \in Worlds : w \in Seq(SUBSET Comps)
    /\ \A c \in Configs :
          /\ c.outputs \in Seq(Formats)
          /\ \A clause \in c.policy :
                IsGap(clause) \/ clause \subseteq {"cve", "kev", "eol", "high"}
    /\ Frameworks \cap {"gap", "cve", "kev", "eol", "high"} = {}

VARIABLES
    world,      \* the truth: the components each target holds
    cfg,        \* the resolved configuration
    cancelled,  \* the signal context is done
    pc,         \* where the command is
    target,     \* the target it works on
    inv,        \* the inventory of that target, and what the overlays attached
    waiting,    \* osv: components whose query has not been launched
    flying,     \* osv: queries in flight
    docs,       \* per output: the document it holds
    nextOut,    \* the output emit writes next
    skipped,    \* k8s: images given up on (scanErrs)
    gateErr,    \* k8s: the gate matched some image
    edited,     \* manifests of the scanned tree were rewritten
    exit        \* "none" while running, then "ok", "policy" or "fatal"

vars == <<world, cfg, cancelled, pc, target, inv, waiting, flying, docs,
          nextOut, skipped, gateErr, edited, exit>>

fixedVars == <<world, cfg>>
osvVars   == <<waiting, flying>>
outVars   == <<docs, nextOut>>
tailVars  == <<skipped, gateErr, edited>>

LastTarget == Cardinality(DOMAIN world)
Blank == [target |-> 0]

(***************************************************************************)
(* The policy: an OR of clauses, each a set of terms that one component    *)
(* has to satisfy together, or one compliance selector.                    *)
(***************************************************************************)
References(term) == \E clause \in cfg.policy : term \in clause
ReferencesCVE == References("cve") \/ References("kev")
ReferencesCompliance == \E clause \in cfg.policy : IsGap(clause)

\* compliance.Evaluate over frameworks of two controls: one is met by evidence
\* and a gap without, the other is a gap where a component speaks against it.
GapIn(f, components) ==
    LET counted == {c \in components : cfg.tests \/ ~c.test}
    IN \/ \A c \in counted : c.control[f] # "evidence"
       \/ \E c \in counted : c.control[f] = "counter"

Evaluate(components) == {f \in cfg.comply : GapIn(f, components)}

\* conjunctionMatches, given which components carry which finding
TermHolds(term, c, facts) ==
    CASE term = "cve"  -> c \in facts.vulns
      [] term = "kev"  -> c \in facts.kev
      [] term = "eol"  -> c \in facts.eol
      [] term = "high" -> c.high

\* complianceMatches looks among the frameworks that were evaluated.
GapMatches(clause, facts) ==
    \E f \in facts.gaps \cap cfg.comply : clause \in {{"gap"}, {f}}

Holds_countsTests(clause, facts) ==
    IF IsGap(clause) THEN GapMatches(clause, facts)
    ELSE \E c \in facts.comps : \A term \in clause : TermHolds(term, c, facts)

Holds(clause, facts) ==
    IF IsGap(clause) THEN GapMatches(clause, facts)
    ELSE \E c \in facts.comps :
            /\ cfg.tests \/ ~c.test
            /\ \A term \in clause : TermHolds(term, c, facts)

Matches_countsTests(facts) == \E clause \in cfg.policy : Holds_countsTests(clause, facts)

Matches(facts) == \E clause \in cfg.policy : Holds(clause, facts)

\* Config.Validate: a gate on findings no overlay was asked to produce, and
\* fixes where there is no tree to fix, are usage errors.  Of the compliance
\* frameworks it only asks that some were given.
Valid ==
    /\ ReferencesCompliance => cfg.comply # {}
    /\ ReferencesCVE => cfg.cve
    /\ References("eol") => cfg.eol
    /\ cfg.fix => cfg.cve /\ cfg.source = "fs"

NoInventory == [comps |-> {}, vulns |-> {}, kev |-> {}, eol |-> {},
                gaps |-> {}, unchecked |-> 0]

Init ==
    /\ cfg \in Configs
    /\ world \in Worlds
    /\ cfg.source # "k8s" => LastTarget = 1
    /\ cancelled = FALSE
    /\ pc = "start"
    /\ target = 1
    /\ inv = NoInventory
    /\ waiting = {} /\ flying = {}
    /\ docs = [o \in DOMAIN cfg.outputs |-> Blank]
    /\ nextOut = 1
    /\ skipped = {} /\ gateErr = FALSE /\ edited = FALSE
    /\ exit = "none"

\* Ctrl-C
Cancel ==
    /\ pc # "done" /\ ~cancelled
    /\ cancelled' = TRUE
    /\ UNCHANGED <<fixedVars, pc, target, inv, osvVars, outVars, tailVars, exit>>

(***************************************************************************)
(* Leaving the pipeline.                                                   *)
(***************************************************************************)
Leave(code) ==
    /\ pc' = "done" /\ exit' = code
    /\ UNCHANGED target

\* On to the next image, or out with what the loop collected.
Advance(tripped) ==
    IF target < LastTarget
    THEN /\ pc' = "acquire" /\ target' = target + 1
         /\ UNCHANGED exit
    ELSE Leave(IF tripped THEN "policy" ELSE "ok")

\* runScanPipeline returns an error.  It ends the command, except that the k8s
\* loop notes it for the log and goes on.
PipelineFails ==
    /\ IF cfg.source = "k8s"
       THEN /\ skipped' = skipped \cup {target}
            /\ Advance(gateErr)
       ELSE /\ Leave("fatal")
            /\ UNCHANGED skipped
    /\ UNCHANGED <<fixedVars, cancelled, inv, osvVars, outVars, gateErr, edited>>

Proceed(to) ==
    /\ pc' = to
    /\ UNCHANGED <<fixedVars, cancelled, target, outVars, tailVars, exit>>

(***************************************************************************)
(* The stages.                                                             *)
(***************************************************************************)
\* A context already done, an invalid configuration, a manifest directory that
\* cannot be read.
Refuse ==
    /\ pc = "start"
    /\ cancelled \/ ~Valid \/ cfg.source = "k8s"
    /\ Leave("fatal")
    /\ UNCHANGED <<fixedVars, cancelled, inv, osvVars, outVars, tailVars>>

Start ==
    /\ pc = "start"
    /\ ~cancelled /\ Valid
    /\ IF LastTarget = 0 THEN Leave("ok")
                         ELSE pc' = "acquire" /\ UNCHANGED <<target, exit>>
    /\ UNCHANGED <<fixedVars, cancelled, inv, osvVars, outVars, tailVars>>

\* No such source, an unusable rule set or selection, a failed phase 1 or 2.
ScanFails ==
    /\ pc = "acquire"
    /\ PipelineFails

\* Both phases succeeded and the assembler built the inventory.
Scan ==
    /\ pc = "acquire"
    /\ inv' = [NoInventory EXCEPT !.comps = world[target]]
    /\ waiting' = IF cfg.cve THEN {c \in world[target] : c.purl /\ (cfg.tests \/ ~c.test)}
                             ELSE {}
    /\ UNCHANGED flying
    /\ Proceed(IF cfg.cve THEN "osv" ELSE "eol")

\* sem <- struct{}{}; go func
Launch(c) ==
    /\ pc = "osv" /\ c \in waiting
    /\ Cardinality(flying) < Concurrency
    /\ waiting' = waiting \ {c}
    /\ flying' = flying \cup {c}
    /\ UNCHANGED inv
    /\ Proceed(pc)

Answer(c) ==
    /\ pc = "osv" /\ c \in flying
    /\ flying' = flying \ {c}
    /\ inv' = [inv EXCEPT !.vulns = IF c.vuln = "none" THEN @ ELSE @ \cup {c}]
    /\ UNCHANGED waiting
    /\ Proceed(pc)

\* The request failed, timed out, or the context is done: the component is
\* counted, under the mutex.
QueryFails_uncounted(c) ==
    /\ pc = "osv" /\ c \in flying
    /\ flying' = flying \ {c}
    /\ UNCHANGED <<inv, waiting>>
    /\ Proceed(pc)

QueryFails(c) ==
    /\ pc = "osv" /\ c \in flying
    /\ flying' = flying \ {c}
    /\ inv' = [inv EXCEPT !.unchecked = @ + 1]
    /\ UNCHANGED waiting
    /\ Proceed(pc)

\* wg.Wait() returned, and a CVE gate fails closed on an unanswered query.
OsvEnd_open ==
    /\ pc = "osv" /\ waiting = {} /\ flying = {}
    /\ Proceed("kev") /\ UNCHANGED <<inv, osvVars>>

OsvEnd ==
    /\ pc = "osv" /\ waiting = {} /\ flying = {}
    /\ IF inv.unchecked > 0 /\ ReferencesCVE
       THEN PipelineFails
       ELSE Proceed("kev") /\ UNCHANGED <<inv, osvVars>>

KevLoads ==
    /\ pc = "kev"
    /\ inv' = [inv EXCEPT !.kev = {c \in inv.vulns : c.vuln = "kev"}]
    /\ Proceed("eol") /\ UNCHANGED osvVars

\* The catalog does not load: fatal to a gate on it, else a warning.
KevFails ==
    /\ pc = "kev"
    /\ IF References("kev") THEN PipelineFails
       ELSE Proceed("eol") /\ UNCHANGED <<inv, osvVars>>

EolOff ==
    /\ pc = "eol" /\ ~cfg.eol
    /\ Proceed("comply") /\ UNCHANGED <<inv, osvVars>>

EolLoads ==
    /\ pc = "eol" /\ cfg.eol
    /\ inv' = [inv EXCEPT !.eol = {c \in inv.comps : c.eol}]
    /\ Proceed("comply") /\ UNCHANGED osvVars

EolFails ==
    /\ pc = "eol" /\ cfg.eol
    /\ IF References("eol") THEN PipelineFails
       ELSE Proceed("comply") /\ UNCHANGED <<inv, osvVars>>

\* An unknown framework among those asked for fails them all.
Comply ==
    /\ pc = "comply"
    /\ IF cfg.comply \subseteq Frameworks
       THEN /\ inv' = [inv EXCEPT !.gaps = Evaluate(inv.comps)]
            /\ Proceed("emit") /\ UNCHANGED osvVars
       ELSE PipelineFails

\* presentationFilter: drop what is below --min-confidence, and map compliance
\* again over what is left.
Shown_staleOverlay ==
    IF cfg.filter THEN [inv EXCEPT !.comps = {c \in @ : c.high}] ELSE inv

Shown ==
    IF cfg.filter
    THEN LET kept == {c \in inv.comps : c.high}
         IN [inv EXCEPT !.comps = kept, !.gaps = Evaluate(kept)]
    ELSE inv

\* What a document of this format says of the inventory.
Rendered(format) ==
    [Shown EXCEPT !.vulns     = IF "vulns" \in Carries(format) THEN @ ELSE {},
                  !.gaps      = IF "gaps" \in Carries(format) THEN @ ELSE {},
                  !.unchecked = IF "unchecked" \in Carries(format) THEN @ ELSE 0]

\* Fanout, one output after the other.
Emit ==
    /\ pc = "emit" /\ nextOut \in DOMAIN docs
    /\ docs' = [docs EXCEPT ![nextOut] =
                    [target |-> target, shows |-> Rendered(cfg.outputs[nextOut])]]
    /\ nextOut' = nextOut + 1
    /\ UNCHANGED <<fixedVars, cancelled, pc, target, inv, osvVars, tailVars, exit>>

\* An output that cannot be created or written ends every command, k8s too.
EmitFails ==
    /\ pc = "emit" /\ nextOut \in DOMAIN docs
    /\ Leave("fatal")
    /\ UNCHANGED <<fixedVars, cancelled, inv, osvVars, outVars, tailVars>>

EmitEnd ==
    /\ pc = "emit" /\ nextOut \notin DOMAIN docs
    /\ nextOut' = 1
    /\ pc' = IF cfg.fix THEN "fix" ELSE "gate"
    /\ UNCHANGED <<fixedVars, cancelled, target, inv, osvVars, docs, tailVars, exit>>

\* runFixes: pins in the working tree move, the inventory does not (FixSession
\* has the steps).  Only what the emitted document shows is offered.
Fix ==
    /\ pc = "fix"
    /\ edited' \in {edited, Shown.vulns \cap Shown.comps # {}}
    /\ pc' = "gate"
    /\ UNCHANGED <<fixedVars, cancelled, target, inv, osvVars, outVars, skipped,
                   gateErr, exit>>

\* The interactive table fails.
FixFails ==
    /\ pc = "fix"
    /\ Leave("fatal")
    /\ UNCHANGED <<fixedVars, cancelled, inv, osvVars, outVars, tailVars>>

\* gate: a policy match carries --exit-code, and the explicit code 0 is success.
Gate_countsTests ==
    LET tripped == Matches_countsTests(inv) /\ cfg.code > 0
    IN /\ pc = "gate"
       /\ gateErr' = (gateErr \/ tripped)
       /\ IF cfg.source = "k8s" THEN Advance(gateErr')
          ELSE Leave(IF tripped THEN "policy" ELSE "ok")
       /\ UNCHANGED <<fixedVars, cancelled, inv, osvVars, outVars, skipped, edited>>

Gate ==
    LET tripped == Matches(inv) /\ cfg.code > 0
    IN /\ pc = "gate"
       /\ gateErr' = (gateErr \/ tripped)
       /\ IF cfg.source = "k8s" THEN Advance(gateErr')
          ELSE Leave(IF tripped THEN "policy" ELSE "ok")
       /\ UNCHANGED <<fixedVars, cancelled, inv, osvVars, outVars, skipped, edited>>

Finished == pc = "done" /\ UNCHANGED vars

Step ==
    \/ Refuse \/ Start \/ ScanFails \/ Scan
    \/ \E c \in Comps : Launch(c) \/ Answer(c) \/ QueryFails(c)
    \/ OsvEnd \/ KevLoads \/ KevFails \/ EolOff \/ EolLoads \/ EolFails \/ Comply
    \/ Emit \/ EmitFails \/ EmitEnd \/ Fix \/ FixFails \/ Gate

Next == Cancel \/ Step \/ Finished

Spec == Init /\ [][Next]_vars

(***************************************************************************)
(* Properties.                                                             *)
(***************************************************************************)
\* The range of every variable, with the semaphore's bound.
TypeOK ==
    /\ cfg \in Configs /\ world \in Worlds /\ cancelled \in BOOLEAN
    /\ pc \in {"start", "acquire", "osv", "kev", "eol", "comply", "emit", "fix",
               "gate", "done"}
    /\ target \in Nat \ {0}
    /\ inv \in [comps : SUBSET Comps, vulns : SUBSET Comps, kev : SUBSET Comps,
                eol : SUBSET Comps, gaps : SUBSET Frameworks, unchecked : Nat]
    /\ waiting \subseteq Comps /\ flying \subseteq Comps
    /\ Cardinality(flying) <= Concurrency
    /\ nextOut \in 1..Len(cfg.outputs) + 1
    /\ skipped \subseteq DOMAIN world
    /\ gateErr \in BOOLEAN /\ edited \in BOOLEAN
    /\ exit \in {"none", "ok", "policy", "fatal"}

\* What a perfect scan of target t would know.
Truth(t) ==
    LET asked == {c \in world[t] : c.purl /\ (cfg.tests \/ ~c.test)}
    IN [comps |-> world[t],
        vulns |-> {c \in asked : c.vuln # "none"},
        kev   |-> {c \in asked : c.vuln = "kev"},
        eol   |-> {c \in world[t] : c.eol},
        gaps  |-> {f \in Frameworks : GapIn(f, world[t])}]

\* The scan produces what the clause is about: a clause on one framework is
\* covered when that framework was evaluated.
Covered(clause) == IsGap(clause) => clause = {"gap"} \/ clause \subseteq cfg.comply

\* scan.go: "a green build is the one outcome that must never be a lie".  With
\* a gate that may fail the build, exit code 0 means no target holds anything
\* the policy describes, in a clause the scan covers, whatever overlay failed
\* and however the output was filtered.  It holds for one target only: the
\* loop of the k8s command over its images logs an image's error and goes on.
GreenIsHonest ==
    exit = "ok" /\ cfg.code > 0 =>
        \A t \in DOMAIN world : \A clause \in cfg.policy :
            Covered(clause) => ~Holds(clause, Truth(t))

\* The same for the commands with a single target, where every failure of the
\* pipeline reaches the exit code.
GreenIsHonestForOneTarget == cfg.source # "k8s" => GreenIsHonest

\* config.go:314, of a gate on what was never evaluated: "the gate would
\* silently never fire".  A command that scans has no such clause.  It does not
\* hold: Validate accepts a clause on one framework when another one was asked
\* for.
NoGateIsTheater ==
    pc \notin {"start", "done"} => \A clause \in cfg.policy : Covered(clause)

\* cli.md: the policy's code is "never returned unless you asked for it": some
\* target holds a match, outside test scaffolding.
RedIsEarned ==
    exit = "policy" => \E t \in DOMAIN world \ skipped : Matches(Truth(t))

\* output.go: the emitted compliance overlay describes the components emitted
\* with it, not those the confidence filter dropped; and fix.go: manifests are
\* rewritten only once every output holds the document of the tree as it was.
DocumentAgreesWithItself ==
    /\ \A o \in DOMAIN docs :
           docs[o] # Blank /\ "gaps" \in Carries(cfg.outputs[o]) =>
               docs[o].shows.gaps = Evaluate(docs[o].shows.comps)
    /\ edited => \A o \in DOMAIN docs : docs[o].target = target

\* The document is silent on an advisory of a component it lists, and says
\* nothing of a component left unchecked.
Silent(o) ==
    LET d == docs[o].shows
    IN ~(Truth(docs[o].target).vulns \cap d.comps \subseteq d.vulns) /\ d.unchecked = 0

\* scan.go: "no CVEs" and "no CVE check" must never look alike.  In a run with
\* the CVE overlay, a document of a format that counts the unchecked components
\* is not silent on an advisory without a count.
SilenceIsExplained ==
    cfg.cve => \A o \in DOMAIN docs :
        docs[o] # Blank /\ {"vulns", "unchecked"} \subseteq Carries(cfg.outputs[o]) => ~Silent(o)

\* The same for every format that lists advisories.  It does not hold: SARIF,
\* SPDX and OpenVEX have no place for the count.
NeverSilent ==
    cfg.cve => \A o \in DOMAIN docs :
        docs[o] # Blank /\ "vulns" \in Carries(cfg.outputs[o]) => ~Silent(o)

=============================================================================
