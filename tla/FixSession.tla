----------------------------- MODULE FixSession -----------------------------
(***************************************************************************)
(* One remediation session: runFixes, applyAll, verifyFixes, offerRevert   *)
(* (internal/app/fix.go) over Plan, Apply, Revert, Verify and Attribute    *)
(* (internal/fix).  --fix-all applies every fixable pin once; --fix lets   *)
(* the user pick rows, and retry the ones that failed, until he quits.     *)
(*                                                                         *)
(* A manifest is a sequence of lines, a line a sequence of pins (a PEP 621 *)
(* array or a minified package.json holds several), a pin a package and    *)
(* the version token written next to it.  The version the scan resolved    *)
(* may come from a lockfile and differ from that token.  While the session *)
(* runs, somebody else may edit the tree, also between the moment an edit  *)
(* reads a manifest and the moment it renames the new one into place.      *)
(*                                                                         *)
(* The resolver (pip, npm, go) is outside the program: a manifest resolves *)
(* unless its pins include a clash, and a run may fail for other reasons.  *)
(***************************************************************************)
EXTENDS Naturals, Sequences, FiniteSets, SequencesExt

CONSTANTS
    Worlds,    \* the trees a session may meet, see WorldShape
    MaxEdits   \* bound: foreign edits during the session

\* A pin: a package and the version token written next to it.
PinShape == [pkg : STRING, ver : Nat]

\* tree: file -> lines of pins; resolved: package -> version the scan resolved;
\* fixed: vulnerable package -> version that clears it; clashes: sets of pins no
\* resolver accepts together.
WorldShape(w) ==
    /\ w.tree \in [DOMAIN w.tree -> Seq(Seq(PinShape) \ {<<>>})]
    /\ w.resolved \in [DOMAIN w.resolved -> Nat] /\ w.fixed \in [DOMAIN w.fixed -> Nat]
    /\ DOMAIN w.fixed \subseteq DOMAIN w.resolved
    /\ \A p \in DOMAIN w.fixed : w.fixed[p] > w.resolved[p]

ASSUME FixSessionAssumption == MaxEdits \in Nat /\ \A w \in Worlds : WorldShape(w)

VARIABLES
    world,      \* what the session meets
    flags,      \* all: --fix-all; verify: --fix-verify; tty: a terminal to ask on
    cancelled,
    pc,
    tree,       \* the manifests now
    base,       \* history: the manifests as the foreign edits alone would leave
                \* them, without those that a rename has overwritten
    edits,      \* foreign edits so far
    held,       \* the edit under way, <<>> if none: its arguments, the lines it
                \* read, and the history of the manifest at that moment
    targets,    \* Plan's rows: package -> its site, [file, line]
    todo,       \* packages still to apply
    before,     \* baseline verdict per manifest
    after,      \* verdict per manifest after the fixes
    odd,        \* history: manifests whose run after the fixes failed with words
                \* of no list, neither accepted nor refused
    applied,    \* the results, in the order they were made
    undone,     \* how many of them the revert went through, 0 until it runs
    stuck       \* which of those could not be reverted, and were reported

vars == <<world, flags, cancelled, pc, tree, base, edits, held, targets, todo,
          before, after, odd, applied, undone, stuck>>

given    == <<world, flags>>
treeVars == <<tree, base, edits>>
planVars == <<targets, todo>>
runVars  == <<before, after, odd>>
doneVars == <<applied, undone, stuck>>

Files == DOMAIN world.tree
Verdicts == {"ok", "conflict", "skipped", "errored"}

PinsIn(lines) == UNION {Range(lines[l]) : l \in DOMAIN lines}
Declares(line, p) == \E i \in DOMAIN line : line[i].pkg = p
Resolves(lines) == \A clash \in world.clashes : ~(clash \subseteq PinsIn(lines))

(***************************************************************************)
(* edit: the one rewrite behind Apply and Revert.  It reads the manifest,  *)
(* checks and rewrites the line in memory, and replaces the manifest by    *)
(* the new text.                                                           *)
(***************************************************************************)
Token_anyName(line, p, from) ==
    LET tokens == {i \in DOMAIN line : line[i].ver = from}
    IN {i \in tokens : \A j \in tokens : i <= j}

\* packageAt anchors at the package's own name, and replaceVersion takes the
\* first token equal to `from` at or to the right of it.
Token(line, p, from) ==
    LET names  == {i \in DOMAIN line : line[i].pkg = p}
        at     == CHOOSE i \in names : \A j \in names : i <= j
        tokens == {i \in DOMAIN line : i >= at /\ line[i].ver = from}
    IN IF names = {} THEN {}
       ELSE {i \in tokens : \A j \in tokens : i <= j}

\* The new text: none when a check refuses.
Edited(lines, line, p, from, to) ==
    IF line \notin DOMAIN lines \/ from = to THEN {}
    ELSE {[lines EXCEPT ![line][i].ver = to] : i \in Token(lines[line], p, from)}

\* os.ReadFile
Reads(args) ==
    /\ held = <<>>
    /\ held' = <<[args |-> args, lines |-> tree[args.file], theirs |-> base[args.file]]>>
    /\ UNCHANGED treeVars

\* os.Rename: whatever the manifest says by now, it reads what the edit made of
\* the lines it had read.
Writes ==
    /\ held # <<>>
    /\ LET h == held[1]
           a == h.args
       IN /\ \E lines \in Edited(h.lines, a.line, a.pkg, a.from, a.to) :
                tree' = [tree EXCEPT ![a.file] = lines]
          /\ base' = [base EXCEPT ![a.file] = h.theirs]
    /\ held' = <<>>
    /\ UNCHANGED edits

\* A manifest that cannot be read, a refused edit, a temporary file that cannot
\* be written or renamed: the manifest is left as it is.
GivesUp == held' = <<>> /\ UNCHANGED treeVars

(***************************************************************************)
(* Plan.                                                                   *)
(***************************************************************************)
\* declaresVersion looks for the token anywhere in the line's snippet.
Pinned(f, l, p) ==
    /\ Declares(world.tree[f][l], p)
    /\ \E i \in DOMAIN world.tree[f][l] : world.tree[f][l][i].ver = world.resolved[p]

SitesOf(p) ==
    UNION {{[file |-> f, line |-> l] : l \in {k \in DOMAIN world.tree[f] : Pinned(f, k, p)}} :
           f \in Files}

Fixable == {p \in DOMAIN world.fixed : SitesOf(p) # {}}
Manifests == {targets[p].file : p \in DOMAIN targets}
Touched == {applied[i].file : i \in DOMAIN applied}

Init ==
    /\ world \in Worlds
    /\ flags \in [all : BOOLEAN, verify : BOOLEAN, tty : BOOLEAN]
    /\ flags.all \/ flags.tty
    /\ cancelled = FALSE
    /\ pc = "plan"
    /\ tree = world.tree /\ base = world.tree /\ edits = 0
    /\ targets = <<>> /\ todo = {}
    /\ held = <<>>
    /\ before = <<>> /\ after = <<>> /\ odd = {}
    /\ applied = <<>> /\ undone = 0 /\ stuck = {}

\* Ctrl-C: only the resolver runs look at the context.
Cancel ==
    /\ pc # "done" /\ ~cancelled
    /\ cancelled' = TRUE
    /\ UNCHANGED <<given, pc, treeVars, held, planVars, runVars, doneVars>>

(***************************************************************************)
(* Somebody else.                                                          *)
(***************************************************************************)
\* A pin is moved by hand, in the tree and in what it would be without us.
Bumped(lines, p, v) ==
    [l \in DOMAIN lines |->
        [i \in DOMAIN lines[l] |->
            IF lines[l][i].pkg = p THEN [lines[l][i] EXCEPT !.ver = v] ELSE lines[l][i]]]

ForeignBump(f, p, v) ==
    /\ edits < MaxEdits /\ pc # "done"
    /\ \E pin \in PinsIn(tree[f]) : pin.pkg = p /\ pin.ver # v
    /\ tree' = [tree EXCEPT ![f] = Bumped(@, p, v)]
    /\ base' = [base EXCEPT ![f] = Bumped(@, p, v)]
    /\ edits' = edits + 1
    /\ UNCHANGED <<given, cancelled, pc, held, planVars, runVars, doneVars>>

\* A line moves, so that the recorded line numbers drift.
ForeignMove(f) ==
    LET moved(lines) == Append(Tail(lines), Head(lines))
    IN /\ edits < MaxEdits /\ pc # "done"
       /\ Len(tree[f]) > 1
       /\ tree' = [tree EXCEPT ![f] = moved(@)]
       /\ base' = [base EXCEPT ![f] = moved(@)]
       /\ edits' = edits + 1
       /\ UNCHANGED <<given, cancelled, pc, held, planVars, runVars, doneVars>>

(***************************************************************************)
(* The session.                                                            *)
(***************************************************************************)
Goto(to) == pc' = to /\ UNCHANGED <<given, cancelled>>

Plan ==
    /\ pc = "plan"
    /\ \E site \in [Fixable -> UNION {SitesOf(p) : p \in Fixable}] :
        /\ \A p \in Fixable : site[p] \in SitesOf(p)
        /\ targets' = site
    /\ todo' = Fixable
    /\ Goto(IF flags.verify THEN "baseline" ELSE "fix")
    /\ UNCHANGED <<treeVars, held, runVars, doneVars>>

\* What one run of the resolver can come to.  "unable" is a tool that is missing,
\* or a failure in words that verifyOne lists as the tool's own; "odd" one in
\* other words, such as pip without a network.
Runs(f) ==
    IF cancelled THEN {"unable", "halted"}
    ELSE {"unable", "halted", "odd", IF Resolves(tree[f]) THEN "accepts" ELSE "refuses"}

\* verifyOne: a run the context ended is no verdict, and neither is a tool that
\* could not do it; any other failure is a conflict.
Verdict_haltedIsConflict(run) ==
    CASE run = "accepts" -> "ok"
      [] run = "unable"  -> "skipped"
      [] run \in {"halted", "refuses", "odd"} -> "conflict"

Verdict(run) ==
    CASE run = "accepts" -> "ok"
      [] run = "unable"  -> "skipped"
      [] run = "halted"  -> "errored"
      [] run \in {"refuses", "odd"} -> "conflict"

Baseline(f) ==
    /\ pc = "baseline" /\ f \in Manifests \ DOMAIN before
    /\ \E run \in Runs(f) :
        before' = [g \in DOMAIN before \cup {f} |-> IF g = f THEN Verdict(run) ELSE before[g]]
    /\ Goto(pc)
    /\ UNCHANGED <<treeVars, held, planVars, after, odd, doneVars>>

BaselineEnd ==
    /\ pc = "baseline" /\ Manifests \subseteq DOMAIN before
    /\ Goto("fix")
    /\ UNCHANGED <<treeVars, held, planVars, runVars, doneVars>>

ResultOf(p) == [pkg |-> p, file |-> targets[p].file, line |-> targets[p].line,
                from |-> world.resolved[p], to |-> world.fixed[p]]

ApplyReads(p) ==
    /\ pc = "fix" /\ p \in todo
    /\ Reads(ResultOf(p))
    /\ Goto(pc)
    /\ UNCHANGED <<planVars, runVars, doneVars>>

Apply_keepsLast ==
    /\ pc = "fix" /\ Writes
    /\ applied' = <<held[1].args>>
    /\ todo' = todo \ {held[1].args.pkg}
    /\ Goto(pc)
    /\ UNCHANGED <<targets, runVars, undone, stuck>>

Apply ==
    /\ pc = "fix" /\ Writes
    /\ applied' = Append(applied, held[1].args)
    /\ todo' = todo \ {held[1].args.pkg}
    /\ Goto(pc)
    /\ UNCHANGED <<targets, runVars, undone, stuck>>

\* The table keeps the row for another try.
ApplyFails_retries(p) ==
    /\ pc = "fix" /\ p \in todo
    /\ held # <<>> => held[1].args.pkg = p
    /\ GivesUp
    /\ Goto(pc)
    /\ UNCHANGED <<planVars, runVars, doneVars>>

ApplyFails(p) ==
    /\ pc = "fix" /\ p \in todo
    /\ held # <<>> => held[1].args.pkg = p
    /\ GivesUp
    /\ todo' = IF flags.all THEN todo \ {p} ELSE todo
    /\ Goto(pc)
    /\ UNCHANGED <<targets, runVars, doneVars>>

\* --fix-all ran through its targets; the user closed the table.
FixEnd ==
    /\ pc = "fix" /\ held = <<>> /\ (flags.all => todo = {})
    /\ Goto(IF flags.verify /\ applied # <<>> THEN "verify" ELSE "done")
    /\ UNCHANGED <<treeVars, held, planVars, runVars, doneVars>>

Verify(f) ==
    /\ pc = "verify" /\ f \in Touched \ DOMAIN after
    /\ \E run \in Runs(f) :
        /\ after' = [g \in DOMAIN after \cup {f} |-> IF g = f THEN Verdict(run) ELSE after[g]]
        /\ odd' = IF run = "odd" THEN odd \cup {f} ELSE odd
    /\ Goto(pc)
    /\ UNCHANGED <<treeVars, held, planVars, before, doneVars>>

\* Attribute: only a conflict where the baseline said ok is the fix's doing.
Introduced(f) == after[f] = "conflict" /\ f \in DOMAIN before /\ before[f] = "ok"

\* offerRevert is reached for an introduced conflict only; without a terminal
\* the pins stay.
VerifyEnd ==
    /\ pc = "verify" /\ Touched \subseteq DOMAIN after
    /\ Goto(IF \E f \in DOMAIN after : Introduced(f) THEN "offer" ELSE "done")
    /\ UNCHANGED <<treeVars, held, planVars, runVars, doneVars>>

Keep ==
    /\ pc = "offer"
    /\ Goto("done")
    /\ UNCHANGED <<treeVars, held, planVars, runVars, doneVars>>

AnswerYes ==
    /\ pc = "offer" /\ flags.tty
    /\ Goto("revert")
    /\ UNCHANGED <<treeVars, held, planVars, runVars, doneVars>>

\* Revert, one result after the other, whatever became of the one before: it is
\* the edit with the versions swapped.
Reversed(r) == [r EXCEPT !.from = r.to, !.to = r.from]

RevertReads ==
    /\ pc = "revert" /\ undone < Len(applied)
    /\ Reads(Reversed(applied[undone + 1]))
    /\ Goto(pc)
    /\ UNCHANGED <<planVars, runVars, doneVars>>

Revert ==
    /\ pc = "revert" /\ Writes
    /\ undone' = undone + 1
    /\ Goto(pc)
    /\ UNCHANGED <<planVars, runVars, applied, stuck>>

RevertFails ==
    /\ pc = "revert" /\ undone < Len(applied)
    /\ GivesUp
    /\ undone' = undone + 1 /\ stuck' = stuck \cup {undone + 1}
    /\ Goto(pc)
    /\ UNCHANGED <<planVars, runVars, applied>>

RevertEnd ==
    /\ pc = "revert" /\ undone = Len(applied)
    /\ Goto("done")
    /\ UNCHANGED <<treeVars, held, planVars, runVars, doneVars>>

Finished == pc = "done" /\ UNCHANGED vars

Session ==
    \/ Plan \/ BaselineEnd \/ FixEnd \/ VerifyEnd \/ Keep \/ AnswerYes
    \/ Apply \/ RevertReads \/ Revert \/ RevertFails \/ RevertEnd
    \/ \E f \in Files : Baseline(f) \/ Verify(f)
    \/ \E p \in DOMAIN world.fixed : ApplyReads(p) \/ ApplyFails(p)

Foreign ==
    \E f \in Files :
        \/ ForeignMove(f)
        \/ \E p \in DOMAIN world.resolved, v \in Range(world.resolved) \cup Range(world.fixed) :
              ForeignBump(f, p, v)

Next == Cancel \/ Foreign \/ Session \/ Finished

Spec == Init /\ [][Next]_vars

\* The session is one goroutine and a resolver run has a deadline.
FairSpec == Spec /\ WF_vars(Session)

(***************************************************************************)
(* Properties.                                                             *)
(***************************************************************************)
\* The range of every variable: in particular at most one result per row of
\* the plan, so no pin is fixed twice.
TypeOK ==
    /\ world \in Worlds /\ cancelled \in BOOLEAN
    /\ pc \in {"plan", "baseline", "fix", "verify", "offer", "revert", "done"}
    /\ DOMAIN tree = Files /\ DOMAIN base = Files
    /\ edits \in 0..MaxEdits
    /\ todo \subseteq DOMAIN targets /\ DOMAIN targets \subseteq DOMAIN world.fixed
    /\ DOMAIN before \subseteq Manifests /\ Range(before) \subseteq Verdicts
    /\ DOMAIN after \subseteq Touched /\ Range(after) \subseteq Verdicts
    /\ odd \subseteq DOMAIN after /\ Len(held) <= 1
    /\ Len(applied) <= Cardinality(DOMAIN targets)
    /\ undone \in 0..Len(applied) /\ stuck \subseteq 1..undone

\* A fix moves the pin of the package it reports and no other: what is in the
\* tree is what was there without us, except where a result says otherwise, and
\* that result names the package and the version it replaced.  Somebody else's
\* edits survive the fixes and the revert, with one exception: an edit between
\* the read and the rename of the same manifest is lost with the rename, and
\* `base` forgets it.
FixesOnlyItsPackage ==
    \A f \in Files : \A l \in DOMAIN tree[f] : \A i \in DOMAIN tree[f][l] :
        LET now == tree[f][l][i]
            was == base[f][l][i]
        IN now = was \/ \E n \in DOMAIN applied :
                            LET r == applied[n]
                            IN /\ r.file = f /\ r.pkg = now.pkg /\ r.pkg = was.pkg
                               /\ was.ver = r.from /\ now.ver = r.to

\* apply.go, of Revert: "if the line no longer reads what the fix wrote,
\* something else has changed it since, and restoring the old version would
\* discard that change".  No edit discards somebody else's.  It does not hold:
\* nothing is checked between the read and the rename.
NoEditIsLost == [][base' # base => edits' > edits]_vars

\* The revert is offered only where one of the manifests resolved before the
\* fixes, and the resolver, left to finish, failed on it after them: it does
\* not resolve now, or the failure is one verifyOne has no words for.  An
\* interrupted run, a missing tool and a clash the project carried all along
\* never lead there.
BlameHasGrounds ==
    pc = "offer" /\ edits = 0 =>
        \E f \in Touched : Resolves(world.tree[f]) /\ (Resolves(tree[f]) => f \in odd)

\* fix.go: "Only a conflict the fixes CAUSED is worth undoing".  It does not
\* hold: a run that fails in words of no list is taken for a conflict.
BlameIsProved ==
    pc = "offer" /\ edits = 0 =>
        \E f \in Touched : Resolves(world.tree[f]) /\ ~Resolves(tree[f])

\* Going through with the revert puts every manifest back as it was scanned,
\* but for the pins it reported as not reverted.
RevertRestores ==
    pc = "done" /\ undone > 0 /\ edits = 0 =>
        \A f \in Files : DOMAIN tree[f] = DOMAIN world.tree[f] /\ \A l \in DOMAIN tree[f] :
            LET now == tree[f][l]
                was == world.tree[f][l]
            IN /\ DOMAIN now = DOMAIN was
               /\ \A i \in DOMAIN now :
                    \/ now[i] = was[i]
                    \/ \E n \in stuck : LET r == applied[n]
                                        IN r.file = f /\ r.line = l /\ r.pkg = was[i].pkg

\* An unattended session ends: nothing is asked, nothing is tried for ever.
UnattendedEnds == flags.all /\ ~flags.tty => <>(pc = "done")
=============================================================================
