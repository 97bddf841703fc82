----------------------------- MODULE Fix_proofs -----------------------------
(***************************************************************************)
(* Proofs about the fixer: the session (FixSession), for any trees,        *)
(* packages and clash sets, and the interactive table in front of it       *)
(* (FixTable), for any plan and any set of terminal sizes.                 *)
(*  - The revert is offered only where a manifest resolved before the      *)
(*    fixes, and a resolver left to finish failed on it after them (Blame).*)
(*  - Where every package a line declares carries its own resolved version *)
(*    there, the fixes change no other pin and the revert puts every       *)
(*    manifest back but for what it reports (OnlyItsPackage, Restored).    *)
(*    The hypothesis, OwnPins, is what the shared-line finding breaks.     *)
(*  - Where every line holds one pin, the first holds even when somebody   *)
(*    else moves a line or a pin once (OnlyItsPackageShared).              *)
(*  - What is fixed is what the screen showed where the click landed, or   *)
(*    as selected (WhatYouSee).                                            *)
(*  - A frame fits the terminal it was painted for, with the selected row  *)
(*    on it (Fits).                                                        *)
(***************************************************************************)
EXTENDS FixSession, FixTable, SequenceTheorems, WellFoundedInduction, TLAPS

(* The inductive invariant.                                                *)

\* Until the first fix, the tree is the one that was scanned, and there is no
\* second verdict before the fixes are over.
StageInv ==
    /\ edits \in Nat
    /\ pc \in {"plan", "baseline"} /\ edits = 0 => tree = world.tree
    /\ pc \in {"plan", "baseline", "fix"} => DOMAIN after = {}
    /\ DOMAIN after \subseteq Touched

\* A verdict is about the tree it was given on: "ok" on the scanned one,
\* "conflict", unless the run failed oddly, on the one with the fixes in it.
BaselineInv ==
    edits = 0 => \A f \in DOMAIN before : before[f] = "ok" => Resolves(world.tree[f])
VerdictInv ==
    pc \in {"verify", "offer"} /\ edits = 0 =>
        \A f \in DOMAIN after : after[f] = "conflict" => (Resolves(tree[f]) => f \in odd)
OfferInv == pc = "offer" => \E f \in DOMAIN after : Introduced(f)

IInv == StageInv /\ BaselineInv /\ VerdictInv /\ OfferInv

-----------------------------------------------------------------------------
\* The world stays as it is, and with it what a resolver accepts.
LEMMA Fixed == [Next]_vars => UNCHANGED <<world, flags>>
  BY DEF Next, vars, given, Goto, Cancel, Foreign, Session, Finished, ForeignBump, ForeignMove, Plan,
         Baseline, BaselineEnd, ApplyReads, Apply, ApplyFails, FixEnd, Verify, VerifyEnd, Keep, AnswerYes,
         RevertReads, Revert, RevertFails, RevertEnd

(* What a resolver says of a state does not change from step to step. *)
LEMMA FixedResolves ==
    ASSUME UNCHANGED world, NEW lines
    PROVE  Resolves(lines)' <=> Resolves(lines)
  BY DEF Resolves

\* "ok" and "conflict" are the resolver's word, where its words are known.
LEMMA VerdictMeans ==
    ASSUME NEW f, NEW run \in Runs(f)
    PROVE  /\ Verdict(run) = "ok" => Resolves(tree[f])
           /\ Verdict(run) = "conflict" => (Resolves(tree[f]) => run = "odd")
  BY DEF Runs, Verdict

-----------------------------------------------------------------------------
\* Every step keeps the stages apart.
LEMMA StageStep == StageInv /\ [Next]_vars => StageInv'
<1> SUFFICES ASSUME StageInv, [Next]_vars PROVE StageInv'
  OBVIOUS
<1>0. UNCHANGED world
  BY Fixed
<1> USE <1>0 DEF StageInv, treeVars, planVars, given, Goto
<1>1. CASE Foreign
  BY <1>1 DEF Foreign, ForeignBump, ForeignMove, Touched, runVars, doneVars
<1>2. CASE Apply
  BY <1>2 DEF Apply, Writes, runVars
<1>3. ASSUME NEW f, Verify(f) PROVE StageInv'
  BY <1>3 DEF Verify, Touched, doneVars
<1>4. CASE Cancel \/ Finished \/ UNCHANGED vars
  BY <1>4 DEF Cancel, Finished, vars, Touched, runVars, doneVars
<1>5. ASSUME NEW f, Baseline(f) PROVE StageInv'
  BY <1>5 DEF Baseline, Touched, doneVars
<1>6. ASSUME NEW p, ApplyReads(p) \/ ApplyFails(p) PROVE StageInv'
  BY <1>6 DEF ApplyReads, ApplyFails, Reads, GivesUp, Touched, runVars, doneVars
<1>7. CASE Plan \/ BaselineEnd \/ FixEnd \/ VerifyEnd \/ Keep \/ AnswerYes \/ RevertEnd
  BY <1>7 DEF Plan, BaselineEnd, FixEnd, VerifyEnd, Keep, AnswerYes, RevertEnd, Touched, runVars, doneVars
<1>8. CASE RevertReads \/ Revert \/ RevertFails
  BY <1>8 DEF RevertReads, Revert, RevertFails, Reads, Writes, GivesUp, Touched, runVars, doneVars
<1> QED
  BY <1>1, <1>2, <1>3, <1>4, <1>5, <1>6, <1>7, <1>8 DEF Next, Session

\* Every step keeps the verdicts true.
LEMMA VerdictStep ==
    StageInv /\ BaselineInv /\ VerdictInv /\ [Next]_vars => BaselineInv' /\ VerdictInv'
<1> SUFFICES ASSUME StageInv, BaselineInv, VerdictInv, [Next]_vars
             PROVE  BaselineInv' /\ VerdictInv'
  OBVIOUS
<1>0. UNCHANGED world /\ \A lines : Resolves(lines)' <=> Resolves(lines)
  BY Fixed, FixedResolves
<1> USE <1>0 DEF treeVars, planVars, runVars, doneVars, given, Goto
<1>1. CASE Foreign
  BY <1>1 DEF Foreign, ForeignBump, ForeignMove, StageInv, BaselineInv, VerdictInv
<1>2. ASSUME UNCHANGED <<runVars, tree, edits>>,
             pc' \in {"verify", "offer"} => pc \in {"verify", "offer"} \/ DOMAIN after = {}
      PROVE  BaselineInv' /\ VerdictInv'
  BY <1>2 DEF BaselineInv, VerdictInv
<1>3. ASSUME NEW f, Baseline(f) PROVE BaselineInv' /\ VerdictInv'
  <2>1. PICK run \in Runs(f) :
          before' = [g \in DOMAIN before \cup {f} |-> IF g = f THEN Verdict(run) ELSE before[g]]
    BY <1>3 DEF Baseline
  <2>2. pc = "baseline" /\ pc' = pc /\ UNCHANGED <<tree, edits, after>>
    BY <1>3 DEF Baseline
  <2>3. edits = 0 => (Verdict(run) = "ok" => Resolves(world.tree[f]))
    BY <2>1, <2>2, VerdictMeans DEF StageInv
  <2> QED
    BY <2>1, <2>2, <2>3 DEF BaselineInv, VerdictInv
<1>4. ASSUME NEW f, Verify(f) PROVE BaselineInv' /\ VerdictInv'
  <2>1. PICK run \in Runs(f) :
          /\ after' = [g \in DOMAIN after \cup {f} |-> IF g = f THEN Verdict(run) ELSE after[g]]
          /\ odd' = IF run = "odd" THEN odd \cup {f} ELSE odd
    BY <1>4 DEF Verify
  <2>2. pc = "verify" /\ pc' = pc /\ UNCHANGED <<tree, edits, before>>
    BY <1>4 DEF Verify
  <2>3. Verdict(run) = "conflict" => (Resolves(tree[f]) => f \in odd')
    BY <2>1, VerdictMeans
  <2>4. odd \subseteq odd'
    BY <2>1
  <2> QED
    BY <2>1, <2>2, <2>3, <2>4 DEF BaselineInv, VerdictInv
<1>5. CASE Apply
  BY <1>5 DEF Apply, Writes, BaselineInv, VerdictInv
<1>6. CASE Revert
  BY <1>6 DEF Revert, Writes, BaselineInv, VerdictInv
<1>7. CASE Plan
  BY <1>7 DEF Plan, BaselineInv, VerdictInv
<1>8. CASE \/ Cancel \/ Finished \/ BaselineEnd \/ FixEnd \/ VerifyEnd \/ Keep \/ AnswerYes
           \/ RevertEnd \/ UNCHANGED vars
  BY <1>2, <1>8 DEF Cancel, Finished, BaselineEnd, FixEnd, VerifyEnd, Keep, AnswerYes, RevertEnd,
                    vars, StageInv
<1>9. CASE RevertReads \/ RevertFails \/ (\E p : ApplyReads(p) \/ ApplyFails(p))
  BY <1>2, <1>9 DEF RevertReads, RevertFails, ApplyReads, ApplyFails, Reads, GivesUp
<1> QED
  BY <1>1, <1>3, <1>4, <1>5, <1>6, <1>7, <1>8, <1>9 DEF Next, Session

\* Every step keeps the reason of an offer.
LEMMA OfferStep == OfferInv /\ [Next]_vars => OfferInv'
<1> SUFFICES ASSUME OfferInv, [Next]_vars, pc' = "offer" PROVE OfferInv'
  BY DEF OfferInv
<1>1. CASE VerifyEnd
  BY <1>1 DEF VerifyEnd, Goto, runVars, OfferInv, Introduced
<1>2. CASE ~VerifyEnd
  <2>1. pc = "offer" /\ UNCHANGED <<before, after>>
    BY <1>2 DEF Next, vars, given, Goto, planVars, treeVars, runVars, Cancel, Foreign, Session, Finished,
           ForeignBump, ForeignMove, Plan, Baseline, BaselineEnd, ApplyReads, Apply, ApplyFails, FixEnd,
           Verify, Keep, AnswerYes, RevertReads, Revert, RevertFails, RevertEnd
  <2> QED
    BY <2>1 DEF OfferInv, Introduced
<1> QED
  BY <1>1, <1>2

-----------------------------------------------------------------------------
\* FixSession keeps its inductive invariant.
THEOREM Invariance == Spec => []IInv
<1>1. Init => IInv
  BY DEF Init, IInv, StageInv, BaselineInv, VerdictInv, OfferInv
<1>2. IInv /\ [Next]_vars => IInv'
  BY StageStep, VerdictStep, OfferStep DEF IInv
<1> QED
  BY <1>1, <1>2, PTL DEF Spec

\* Where the revert is offered, a manifest the fixes touched resolved before
\* them, and after them the resolver, not halted, did not accept it.
THEOREM Blame == Spec => []BlameHasGrounds
<1>1. IInv => BlameHasGrounds
  BY DEF IInv, StageInv, BaselineInv, VerdictInv, OfferInv, Introduced, BlameHasGrounds
<1> QED
  BY <1>1, Invariance, PTL

-----------------------------------------------------------------------------
(* The tree against the results.                                           *)

\* The lines of a manifest.
Lines == Seq(Seq(PinShape) \ {<<>>})

\* The first pin of a package on a line: where packageAt anchors.
FirstPin(line, p) ==
    {i \in DOMAIN line : line[i].pkg = p /\ \A j \in DOMAIN line : line[j].pkg = p => i <= j}

\* Worlds in which a package that a line declares, and whose resolved version
\* stands there, carries that version itself, where it is first named.
OwnPins(w) ==
    \A f \in DOMAIN w.tree : \A l \in DOMAIN w.tree[f] : \A p \in DOMAIN w.fixed :
        (\E i \in DOMAIN w.tree[f][l] : w.tree[f][l][i].ver = w.resolved[p]) =>
            \A i \in FirstPin(w.tree[f][l], p) : w.tree[f][l][i].ver = w.resolved[p]

\* Manifests of one pin a line, no package on two lines of one.
OnePerLine(w) ==
    \A f \in DOMAIN w.tree : \A l \in DOMAIN w.tree[f] :
        /\ Len(w.tree[f][l]) = 1
        /\ \A m \in DOMAIN w.tree[f] : w.tree[f][m][1].pkg = w.tree[f][l][1].pkg => m = l

\* What a result may say.
Results == [pkg : DOMAIN world.fixed, file : Files, line : Nat, from : Nat, to : Nat]

\* The results are of distinct rows of the plan, none of them still to do, and
\* the revert runs over all of them or none; an edit under way is of one of them.
AppliedInv ==
    /\ world \in Worlds
    /\ todo \subseteq DOMAIN targets
    /\ pc = "plan" => DOMAIN targets = {}
    /\ \A p \in DOMAIN targets : p \in DOMAIN world.fixed /\ targets[p] \in SitesOf(p)
    /\ applied \in Seq(Results)
    /\ \A n \in DOMAIN applied :
         /\ applied[n].pkg \in DOMAIN targets \ todo
         /\ applied[n] = ResultOf(applied[n].pkg) /\ applied[n].from # applied[n].to
         /\ \A m \in DOMAIN applied : applied[m].pkg = applied[n].pkg => m = n
    /\ undone \in 0..Len(applied) /\ stuck \subseteq 1..undone
    /\ held # <<>> =>
         LET a == held[1].args
         IN \/ pc = "fix" /\ a.pkg \in todo /\ a = ResultOf(a.pkg)
            \/ pc = "revert" /\ undone < Len(applied) /\ a = Reversed(applied[undone + 1])
    /\ pc \notin {"revert", "done"} => undone = 0
    /\ pc = "done" => undone \in {0, Len(applied)}

\* What a result made of a pin, and the revert has not undone.
Standing(f, l, i) ==
    \E n \in DOMAIN applied :
        /\ n > undone \/ n \in stuck
        /\ applied[n].file = f /\ applied[n].line = l
        /\ i \in FirstPin(world.tree[f][l], applied[n].pkg)

\* A pin of the scanned tree with the standing results written into it.
Expected(f, l, i) ==
    LET was == world.tree[f][l][i]
    IN [pkg |-> was.pkg, ver |-> IF Standing(f, l, i) THEN world.fixed[was.pkg] ELSE was.ver]

\* With nobody else in the tree, it is the scanned one but for those results.
TreeInv ==
    edits = 0 =>
      /\ base = world.tree
      /\ tree \in [Files -> Lines]
      /\ \A f \in Files : DOMAIN tree[f] = DOMAIN world.tree[f] /\ \A l \in DOMAIN tree[f] :
           /\ DOMAIN tree[f][l] = DOMAIN world.tree[f][l]
           /\ \A i \in DOMAIN tree[f][l] : tree[f][l][i] = Expected(f, l, i)

\* And what an edit under way has read is still what is there.
HeldInv ==
    edits = 0 /\ held # <<>> =>
        LET h == held[1]
        IN h.lines = tree[h.args.file] /\ h.theirs = base[h.args.file]

-----------------------------------------------------------------------------
\* The order on the naturals, as a relation, is well-founded.
Below == {p \in Nat \X Nat : p[1] < p[2]}

(* Below has no endless descent. *)
LEMMA BelowWellFounded == IsWellFoundedOn(Below, Nat)
<1>1. OpToRel(<, Nat) = Below
  BY DEF OpToRel, Below
<1> QED
  BY <1>1, NatLessThanWellFounded

\* A nonempty set of naturals has a least member.
LEMMA LeastNumber ==
    ASSUME NEW S \in SUBSET Nat, S # {}
    PROVE  \E x \in S : \A y \in S : x <= y
<1>2. PICK x \in S : \A y \in S : <<y, x>> \notin Below
  BY BelowWellFounded, WFMin
<1>3. ASSUME NEW y \in S PROVE x <= y
  <2>1. <<y, x>> \in Nat \X Nat /\ <<y, x>>[1] = y /\ <<y, x>>[2] = x
    OBVIOUS
  <2> QED
    BY <1>2, <2>1 DEF Below
<1> QED
  BY <1>3

\* A line that declares a package names it somewhere first, and once.
LEMMA FirstIsThere ==
    ASSUME NEW line \in Seq(PinShape), NEW p, Declares(line, p)
    PROVE  FirstPin(line, p) # {}
<1> DEFINE names == {i \in DOMAIN line : line[i].pkg = p}
<1>1. names # {} /\ names \in SUBSET Nat
  BY DEF Declares
<1>2. PICK i \in names : \A j \in names : i <= j
  BY <1>1, LeastNumber
<1> QED
  BY <1>2 DEF FirstPin

\* Where a package's own first pin carries the version, that is the token.
LEMMA OwnToken ==
    ASSUME NEW line \in Seq(PinShape), NEW p, NEW from, NEW i \in FirstPin(line, p),
           line[i].ver = from
    PROVE  Token(line, p, from) = {i}
<1> DEFINE names  == {j \in DOMAIN line : line[j].pkg = p}
           at     == CHOOSE j \in names : \A k \in names : j <= k
           tokens == {j \in DOMAIN line : j >= at /\ line[j].ver = from}
<1>1. i \in names /\ \A k \in names : i <= k
  BY DEF FirstPin
<1>2. at \in names /\ \A k \in names : at <= k
  BY <1>1
<1>3. at = i
  BY <1>1, <1>2
<1>4. {j \in tokens : \A k \in tokens : j <= k} = {i}
  BY <1>1, <1>3
<1> HIDE DEF tokens, at
<1> QED
  BY <1>1, <1>4 DEF Token, tokens, at

\* A pin is its package and its version.
LEMMA PinIs ==
    ASSUME NEW line \in Seq(PinShape), NEW i \in DOMAIN line
    PROVE  line[i] = [pkg |-> line[i].pkg, ver |-> line[i].ver]
<1>1. line[i] \in PinShape
  OBVIOUS
<1> QED
  BY <1>1 DEF PinShape

\* The rewrite itself.
Put(t, f, l, i, v) == [t EXCEPT ![f][l][i].ver = v]

\* A rewrite keeps the shape of the tree and changes one version.
LEMMA Rewritten ==
    ASSUME NEW F, NEW t \in [F -> Lines], NEW f \in F, NEW l \in DOMAIN t[f],
           NEW i \in DOMAIN t[f][l], NEW v \in Nat
    PROVE  LET u == Put(t, f, l, i, v) IN
           /\ u \in [F -> Lines]
           /\ \A g \in F : DOMAIN u[g] = DOMAIN t[g] /\ \A k \in DOMAIN t[g] :
                /\ DOMAIN u[g][k] = DOMAIN t[g][k]
                /\ \A j \in DOMAIN t[g][k] :
                     u[g][k][j] = [pkg |-> t[g][k][j].pkg,
                                   ver |-> IF g = f /\ k = l /\ j = i THEN v ELSE t[g][k][j].ver]
<1>0. \A g \in F : \A k \in DOMAIN t[g] : \A j \in DOMAIN t[g][k] :
        t[g][k][j] = [pkg |-> t[g][k][j].pkg, ver |-> t[g][k][j].ver]
  <2>1. \A g \in F : \A k \in DOMAIN t[g] : t[g][k] \in Seq(PinShape)
    BY DEF Lines
  <2> QED
    BY <2>1, PinIs
<1>1. t[f] \in Lines /\ t[f][l] \in Seq(PinShape) \ {<<>>} /\ t[f][l][i] \in PinShape
  BY DEF Lines
<1> DEFINE pin == [t[f][l][i] EXCEPT !.ver = v]
           line == [t[f][l] EXCEPT ![i] = pin]
           lines == [t[f] EXCEPT ![l] = line]
<1>2. pin \in PinShape /\ pin = [pkg |-> t[f][l][i].pkg, ver |-> v]
  BY <1>1 DEF PinShape
<1>3. line \in Seq(PinShape) \ {<<>>} /\ DOMAIN line = DOMAIN t[f][l]
  BY <1>1, <1>2, ExceptSeq
<1>4. lines \in Lines /\ DOMAIN lines = DOMAIN t[f]
  BY <1>1, <1>3, ExceptSeq DEF Lines
<1>5. Put(t, f, l, i, v) = [t EXCEPT ![f] = lines]
  BY DEF Put
<1> QED
  BY <1>0, <1>1, <1>2, <1>3, <1>4, <1>5

\* What a world is made of.
LEMMA WorldTyped ==
    ASSUME world \in Worlds
    PROVE  /\ world.tree \in [Files -> Lines]
           /\ DOMAIN world.fixed \subseteq DOMAIN world.resolved
           /\ \A p \in DOMAIN world.fixed : world.fixed[p] \in Nat /\ world.resolved[p] \in Nat
  BY FixSessionAssumption DEF WorldShape, Files, Lines

\* A site of a package is a line that declares it and holds its version.
LEMMA SiteMeans ==
    ASSUME NEW p, NEW s \in SitesOf(p)
    PROVE  /\ s.file \in Files /\ s.line \in DOMAIN world.tree[s.file]
           /\ Pinned(s.file, s.line, p)
  BY DEF SitesOf

\* Every step keeps the account of the results in order.
LEMMA AppliedStep == AppliedInv /\ [Next]_vars => AppliedInv'
<1> SUFFICES ASSUME AppliedInv, [Next]_vars PROVE AppliedInv'
  OBVIOUS
<1>0. UNCHANGED world /\ Files' = Files /\ \A p : SitesOf(p)' = SitesOf(p)
  BY Fixed DEF Files, SitesOf, Pinned
<1>a. Results' = Results
  BY <1>0 DEF Results
<1> USE <1>0, <1>a DEF treeVars, planVars, given, Goto
<1>1. CASE Plan
  <2>1. DOMAIN targets' = Fixable /\ todo' = Fixable /\ \A p \in Fixable : targets'[p] \in SitesOf(p)
    BY <1>1 DEF Plan
  <2>2. applied = <<>>
    <3>1. DOMAIN targets = {}
      BY <1>1 DEF Plan, AppliedInv
    <3>2. 1 \notin DOMAIN applied /\ applied \in Seq(Results)
      BY <3>1 DEF AppliedInv
    <3> QED
      BY <3>2, EmptySeq
  <2>3. applied' = <<>> /\ undone' = 0 /\ pc' \notin {"plan", "done"} /\ held' = <<>> /\ stuck' \subseteq 1..undone'
    BY <1>1, <2>2 DEF Plan, AppliedInv, doneVars
  <2>4. applied' \in Seq(Results)' /\ DOMAIN applied' = {} /\ Len(applied') = 0
    BY <2>3
  <2>5. \A p \in DOMAIN targets' : p \in DOMAIN world.fixed /\ targets'[p] \in SitesOf(p)
    BY <2>1 DEF Fixable
  <2> QED
    BY <2>1, <2>3, <2>4, <2>5 DEF AppliedInv
<1>2. CASE Apply
  <2>p. PICK p : p = held[1].args.pkg
    OBVIOUS
  <2> DEFINE r == ResultOf(p)
  <2>0. held # <<>> /\ pc = "fix" /\ p \in todo /\ held[1].args = r
    BY <1>2, <2>p DEF Apply, Writes, AppliedInv
  <2>1. /\ pc = "fix" /\ p \in todo /\ r.from # r.to /\ applied' = Append(applied, r)
        /\ todo' = todo \ {p} /\ held' = <<>> /\ UNCHANGED <<targets, undone, stuck, pc>>
    BY <1>2, <2>0, <2>p DEF Apply, Writes, Edited
  <2>2. p \in DOMAIN targets /\ p \in DOMAIN world.fixed /\ targets[p] \in SitesOf(p)
    BY <2>1 DEF AppliedInv
  <2>3. r \in Results
    <3>1. world \in Worlds /\ targets[p].file \in Files
          /\ targets[p].line \in DOMAIN world.tree[targets[p].file]
      BY <2>2, SiteMeans DEF AppliedInv
    <3>2. targets[p].line \in Nat
      BY <3>1, WorldTyped DEF Lines
    <3> QED
      BY <2>2, <3>1, <3>2, WorldTyped DEF ResultOf, Results
  <2>4. \A q : ResultOf(q)' = ResultOf(q)
    BY <2>1 DEF ResultOf
  <2>5. r.pkg = p
    BY DEF ResultOf
  <2>6. \A n \in DOMAIN applied : applied[n].pkg # p
    BY <2>1 DEF AppliedInv
  <2>7. /\ applied' \in Seq(Results)
        /\ Len(applied') = Len(applied) + 1
        /\ \A n \in DOMAIN applied' : IF n \in DOMAIN applied THEN applied'[n] = applied[n]
                                       ELSE n = Len(applied') /\ applied'[n] = r
    BY <2>1, <2>3 DEF AppliedInv
  <2> HIDE DEF r
  <2>8. ASSUME NEW n \in DOMAIN applied'
        PROVE  /\ applied'[n].pkg \in DOMAIN targets \ todo'
               /\ applied'[n] = ResultOf(applied'[n].pkg) /\ applied'[n].from # applied'[n].to
               /\ \A m \in DOMAIN applied' : applied'[m].pkg = applied'[n].pkg => m = n
    BY <2>1, <2>2, <2>5, <2>6, <2>7 DEF AppliedInv, r
  <2>9. undone \in 0..Len(applied') /\ world \in Worlds /\ undone = 0 /\ stuck \subseteq 1..undone
    BY <2>1, <2>7 DEF AppliedInv
  <2> QED
    BY <2>1, <2>4, <2>7, <2>8, <2>9 DEF AppliedInv
<1>3. CASE Revert \/ RevertFails
  <2>1. /\ undone < Len(applied) /\ undone' = undone + 1 /\ stuck' \subseteq stuck \cup {undone + 1}
        /\ held' = <<>> /\ pc = "revert" /\ UNCHANGED <<targets, todo, applied, pc>>
    BY <1>3 DEF Revert, RevertFails, Writes, GivesUp, AppliedInv
  <2>2. undone' \in 0..Len(applied) /\ stuck' \subseteq 1..undone'
    BY <2>1 DEF AppliedInv
  <2> QED
    BY <2>1, <2>2 DEF AppliedInv, ResultOf
<1>4. CASE RevertEnd
  BY <1>4 DEF RevertEnd, AppliedInv, ResultOf, doneVars
<1>5. ASSUME NEW p, ApplyFails(p) PROVE AppliedInv'
  BY <1>5 DEF ApplyFails, GivesUp, AppliedInv, ResultOf, doneVars
<1>6. ASSUME UNCHANGED <<targets, todo, applied, undone, stuck, held>>,
             \/ pc' = pc
             \/ held = <<>> /\ pc # "plan" /\ pc' \in {"fix", "verify", "offer", "done"} /\ undone = 0
             \/ held = <<>> /\ pc' = "revert"
      PROVE  AppliedInv'
  BY <1>6 DEF AppliedInv, ResultOf
<1>7. CASE Foreign \/ Cancel \/ Finished \/ UNCHANGED vars \/ \E f \in Files : Baseline(f) \/ Verify(f)
  BY <1>6, <1>7 DEF Foreign, ForeignBump, ForeignMove, Cancel, Finished, vars, Baseline, Verify, doneVars
<1>8. CASE BaselineEnd \/ FixEnd \/ VerifyEnd \/ Keep \/ AnswerYes
  BY <1>6, <1>8 DEF BaselineEnd, FixEnd, VerifyEnd, Keep, AnswerYes, AppliedInv, doneVars
<1>9. ASSUME UNCHANGED <<targets, todo, applied, undone, stuck, pc>>, NEW h, held' = <<h>>,
             \/ pc = "fix" /\ h.args.pkg \in todo /\ h.args = ResultOf(h.args.pkg)
             \/ pc = "revert" /\ undone < Len(applied) /\ h.args = Reversed(applied[undone + 1])
      PROVE  AppliedInv'
  <2>1. held'[1] = h
    BY <1>9
  <2> QED
    BY <1>9, <2>1 DEF AppliedInv, ResultOf, Reversed
<1>10. ASSUME NEW p, ApplyReads(p) PROVE AppliedInv'
  <2>1. PICK h : h = [args |-> ResultOf(p), lines |-> tree[ResultOf(p).file], theirs |-> base[ResultOf(p).file]]
    OBVIOUS
  <2>2. h.args = ResultOf(p) /\ ResultOf(p).pkg = p
    BY <2>1 DEF ResultOf
  <2>3. held' = <<h>> /\ pc = "fix" /\ p \in todo /\ UNCHANGED <<targets, todo, applied, undone, stuck, pc>>
    BY <1>10, <2>1 DEF ApplyReads, Reads, doneVars
  <2> QED
    BY <1>9, <2>2, <2>3
<1>11. CASE RevertReads
  <2>1. PICK a, h : a = Reversed(applied[undone + 1])
                    /\ h = [args |-> a, lines |-> tree[a.file], theirs |-> base[a.file]]
    OBVIOUS
  <2>2. held' = <<h>> /\ pc = "revert" /\ undone < Len(applied)
        /\ UNCHANGED <<targets, todo, applied, undone, stuck, pc>>
    BY <1>11, <2>1 DEF RevertReads, Reads, doneVars
  <2>3. h.args = Reversed(applied[undone + 1])
    BY <2>1
  <2> QED
    BY <1>9, <2>2, <2>3
<1> QED
  BY <1>1, <1>2, <1>3, <1>4, <1>5, <1>7, <1>8, <1>10, <1>11 DEF Next, Session

\* Every step keeps what is held up to date, while nobody else edits.
LEMMA HeldStep == edits \in Nat /\ HeldInv /\ [Next]_vars => HeldInv'
<1> SUFFICES ASSUME edits \in Nat, HeldInv, [Next]_vars, edits' = 0, held' # <<>> PROVE HeldInv'
  BY DEF HeldInv
<1>1. CASE Foreign
  <2>1. edits' = edits + 1
    BY <1>1 DEF Foreign, ForeignBump, ForeignMove
  <2> QED
    BY <2>1
<1>2. ASSUME NEW a, Reads(a) PROVE HeldInv'
  <2>1. held'[1] = [args |-> a, lines |-> tree[a.file], theirs |-> base[a.file]] /\ UNCHANGED <<tree, base>>
    BY <1>2 DEF Reads, treeVars
  <2> QED
    BY <2>1 DEF HeldInv
<1>3. CASE RevertReads \/ \E p : ApplyReads(p)
  BY <1>2, <1>3 DEF RevertReads, ApplyReads
<1>4. CASE Apply \/ Revert \/ RevertFails \/ \E p : ApplyFails(p)
  BY <1>4 DEF Apply, Revert, RevertFails, ApplyFails, Writes, GivesUp
<1>5. ASSUME UNCHANGED <<treeVars, held>> PROVE HeldInv'
  BY <1>5 DEF treeVars, HeldInv
<1>6. CASE \/ Cancel \/ Finished \/ UNCHANGED vars \/ Plan \/ BaselineEnd \/ FixEnd \/ VerifyEnd \/ Keep
           \/ AnswerYes \/ RevertEnd \/ (\E f : Baseline(f) \/ Verify(f))
  BY <1>5, <1>6 DEF Cancel, Finished, vars, treeVars, Plan, BaselineEnd, FixEnd, VerifyEnd, Keep, AnswerYes,
                    RevertEnd, Baseline, Verify
<1> QED
  BY <1>1, <1>3, <1>4, <1>6 DEF Next, Session

\* The tree and its history as an edit under way will have them, but for its own
\* pin.
TreeOf(h) == [tree EXCEPT ![h.args.file] = h.lines]
BaseOf(h) == [base EXCEPT ![h.args.file] = h.theirs]

\* What is written is one token of what was read.
LEMMA Written ==
    ASSUME Writes, held[1].args.file \in DOMAIN tree
    PROVE  LET a == held[1].args
               t == TreeOf(held[1])
           IN /\ a.line \in DOMAIN t[a.file]
              /\ \E i \in Token(t[a.file][a.line], a.pkg, a.from) : tree' = Put(t, a.file, a.line, i, a.to)
              /\ base' = BaseOf(held[1]) /\ UNCHANGED edits
<1>1. PICK h, a, f, t : h = held[1] /\ a = h.args /\ f = a.file /\ t = [tree EXCEPT ![f] = h.lines]
  OBVIOUS
<1>2. t[f] = h.lines /\ \A lines : [t EXCEPT ![f] = lines] = [tree EXCEPT ![f] = lines]
  BY <1>1
<1>3. PICK lines \in Edited(h.lines, a.line, a.pkg, a.from, a.to) : tree' = [t EXCEPT ![f] = lines]
  BY <1>1, <1>2 DEF Writes
<1>4. PICK i \in Token(h.lines[a.line], a.pkg, a.from) : lines = [h.lines EXCEPT ![a.line][i].ver = a.to]
  BY <1>3 DEF Edited
<1>5. tree' = Put(t, f, a.line, i, a.to)
  BY <1>2, <1>3, <1>4 DEF Put
<1>6. a.line \in DOMAIN h.lines
  BY <1>3 DEF Edited
<1>7. base' = [base EXCEPT ![f] = h.theirs] /\ UNCHANGED edits
  BY <1>1 DEF Writes
<1> QED
  BY <1>1, <1>2, <1>4, <1>5, <1>6, <1>7 DEF TreeOf, BaseOf

\* Alone in the tree, what is written is one token of what is there.
LEMMA WrittenAlone ==
    ASSUME Writes, HeldInv, edits = 0, held[1].args.file \in DOMAIN tree, DOMAIN tree = Files,
           tree \in [Files -> Lines], base \in [Files -> Lines]
    PROVE  LET a == held[1].args
           IN /\ \E i \in Token(tree[a.file][a.line], a.pkg, a.from) : tree' = Put(tree, a.file, a.line, i, a.to)
              /\ UNCHANGED <<base, edits>>
<1>1. held # <<>>
  BY DEF Writes
<1>2. TreeOf(held[1]) = tree /\ BaseOf(held[1]) = base
  BY <1>1 DEF HeldInv, TreeOf, BaseOf
<1> QED
  BY <1>2, Written

\* The first pin of a package is one pin, and is the package's.
LEMMA FirstMeans ==
    ASSUME NEW line \in Seq(PinShape), NEW p, NEW i \in FirstPin(line, p)
    PROVE  i \in DOMAIN line /\ line[i].pkg = p /\ \A j \in FirstPin(line, p) : j = i
  BY DEF FirstPin

\* Versions do not matter to where a package is first named.
LEMMA SameFirst ==
    ASSUME NEW a \in Seq(PinShape), NEW b \in Seq(PinShape), DOMAIN a = DOMAIN b,
           \A i \in DOMAIN a : a[i].pkg = b[i].pkg, NEW p
    PROVE  FirstPin(a, p) = FirstPin(b, p)
  BY DEF FirstPin

\* With nobody else in the tree, a row of the plan still stands for the first
\* pin of its package, and the tree holds there what the results say.
LEMMA RowPin ==
    ASSUME OwnPins(world), AppliedInv, TreeInv, edits = 0, NEW p \in DOMAIN targets
    PROVE  \E f, l, k :
             /\ f = targets[p].file /\ l = targets[p].line
             /\ f \in Files /\ l \in DOMAIN tree[f] /\ k \in DOMAIN tree[f][l]
             /\ world.tree[f][l] \in Seq(PinShape) /\ tree[f][l] \in Seq(PinShape)
             /\ k \in FirstPin(world.tree[f][l], p) /\ k \in FirstPin(tree[f][l], p)
             /\ world.tree[f][l][k].ver = world.resolved[p] /\ world.tree[f][l][k].pkg = p
             /\ tree[f][l][k] = Expected(f, l, k)
<1> DEFINE f == targets[p].file
           l == targets[p].line
           line == world.tree[f][l]
<1>1. world \in Worlds /\ p \in DOMAIN world.fixed /\ targets[p] \in SitesOf(p)
  BY DEF AppliedInv
<1>2. f \in Files /\ l \in DOMAIN world.tree[f] /\ Pinned(f, l, p)
  BY <1>1, SiteMeans
<1>3. world.tree \in [Files -> Lines] /\ line \in Seq(PinShape)
  BY <1>1, <1>2, WorldTyped DEF Lines
<1>4. Declares(line, p) /\ \E i \in DOMAIN line : line[i].ver = world.resolved[p]
  BY <1>2 DEF Pinned
<1>5. PICK k : k \in FirstPin(line, p)
  BY <1>3, <1>4, FirstIsThere
<1>6. line[k].ver = world.resolved[p]
  BY <1>1, <1>2, <1>4, <1>5 DEF OwnPins, Files
<1>7. k \in DOMAIN line /\ line[k].pkg = p
  BY <1>3, <1>5, FirstMeans
<1>8. /\ l \in DOMAIN tree[f] /\ DOMAIN tree[f][l] = DOMAIN line
      /\ tree[f][l] \in Seq(PinShape)
      /\ \A i \in DOMAIN line : tree[f][l][i] = Expected(f, l, i)
  <2>1. tree \in [Files -> Lines] /\ DOMAIN tree[f] = DOMAIN world.tree[f]
    BY <1>2 DEF TreeInv
  <2>2. DOMAIN tree[f][l] = DOMAIN line /\ \A i \in DOMAIN line : tree[f][l][i] = Expected(f, l, i)
    BY <1>2, <2>1 DEF TreeInv
  <2>3. tree[f][l] \in Seq(PinShape)
    BY <1>2, <2>1 DEF Lines
  <2> QED
    BY <1>2, <2>1, <2>2, <2>3
<1>a. \A i \in DOMAIN line : line[i].pkg = tree[f][l][i].pkg
  <2> SUFFICES ASSUME NEW i \in DOMAIN line PROVE line[i].pkg = tree[f][l][i].pkg
    OBVIOUS
  <2> HIDE DEF line, f, l
  <2>1. Expected(f, l, i).pkg = world.tree[f][l][i].pkg
    BY DEF Expected
  <2> QED
    BY <2>1, <1>8 DEF line
<1>9. k \in FirstPin(tree[f][l], p)
  BY <1>3, <1>5, <1>8, <1>a, SameFirst
<1>b. k \in DOMAIN tree[f][l] /\ tree[f][l][k] = Expected(f, l, k)
  BY <1>7, <1>8
<1>c. line \in Seq(PinShape) /\ tree[f][l] \in Seq(PinShape)
  BY <1>3, <1>8
<1> WITNESS f, l, k
<1> QED
  BY <1>2, <1>5, <1>6, <1>7, <1>8, <1>9, <1>b, <1>c

\* One pin rewritten, and the results' account of it changed at that pin only:
\* the tree still holds what the results say.
LEMMA TreeRewritten ==
    ASSUME UNCHANGED <<world, base, edits>>, TreeInv, edits = 0, world \in Worlds,
           NEW f \in Files, NEW l \in DOMAIN tree[f], NEW k \in DOMAIN tree[f][l], NEW v \in Nat,
           tree' = Put(tree, f, l, k, v),
           v = Expected(f, l, k)'.ver,
           \A g \in Files : \A m \in DOMAIN tree[g] : \A j \in DOMAIN tree[g][m] :
               g # f \/ m # l \/ j # k => (Standing(g, m, j)' <=> Standing(g, m, j))
    PROVE  TreeInv'
<1>0. Files' = Files /\ Lines' = Lines
  BY DEF Files, Lines, PinShape
<1>1. tree \in [Files -> Lines] /\ base = world.tree
  BY DEF TreeInv
<1>2. tree' \in [Files -> Lines]
  BY <1>1, Rewritten
<1>3. ASSUME NEW g \in Files, NEW m \in DOMAIN tree[g], NEW j \in DOMAIN tree[g][m]
      PROVE  tree'[g][m][j] = Expected(g, m, j)'
  <2>1. tree[g][m][j] = Expected(g, m, j)
    BY DEF TreeInv
  <2>2. tree'[g][m][j] = [pkg |-> tree[g][m][j].pkg,
                          ver |-> IF g = f /\ m = l /\ j = k THEN v ELSE tree[g][m][j].ver]
    BY <1>1, Rewritten
  <2>3. Expected(g, m, j).pkg = world.tree[g][m][j].pkg /\ Expected(g, m, j)'.pkg = world.tree[g][m][j].pkg
        /\ Expected(g, m, j)' = [pkg |-> Expected(g, m, j)'.pkg, ver |-> Expected(g, m, j)'.ver]
    BY DEF Expected
  <2>4. g # f \/ m # l \/ j # k => Expected(g, m, j)' = Expected(g, m, j)
    BY DEF Expected
  <2>5. g = f /\ m = l /\ j = k => Expected(g, m, j)'.ver = v
    OBVIOUS
  <2> QED
    BY <2>1, <2>2, <2>3, <2>4, <2>5
<1>4. \A g \in Files : DOMAIN tree'[g] = DOMAIN tree[g] /\ \A m \in DOMAIN tree[g] : DOMAIN tree'[g][m] = DOMAIN tree[g][m]
  BY <1>1, Rewritten
<1> QED
  BY <1>0, <1>1, <1>2, <1>3, <1>4 DEF TreeInv

\* A fix rewrites the first pin of its package, and answers for that.
LEMMA TreeApply ==
    ASSUME OwnPins(world), AppliedInv, TreeInv, HeldInv, UNCHANGED world, edits = 0, Apply
    PROVE  TreeInv'
<1>0. PICK p : p = held[1].args.pkg
  OBVIOUS
<1>1. p \in todo /\ pc = "fix" /\ held[1].args = ResultOf(p) /\ UNCHANGED <<undone, stuck>> /\ Writes
  BY <1>0 DEF Apply, Writes, AppliedInv
<1>2. /\ p \in DOMAIN targets /\ world \in Worlds /\ p \in DOMAIN world.fixed /\ undone = 0
      /\ applied \in Seq(Results) /\ \A n \in DOMAIN applied : applied[n].pkg # p
  BY <1>1 DEF AppliedInv
<1>3. PICK f, l, k :
         /\ f = targets[p].file /\ l = targets[p].line
         /\ f \in Files /\ l \in DOMAIN tree[f] /\ k \in DOMAIN tree[f][l]
         /\ world.tree[f][l] \in Seq(PinShape) /\ tree[f][l] \in Seq(PinShape)
         /\ k \in FirstPin(world.tree[f][l], p) /\ k \in FirstPin(tree[f][l], p)
         /\ world.tree[f][l][k].ver = world.resolved[p] /\ world.tree[f][l][k].pkg = p
         /\ tree[f][l][k] = Expected(f, l, k)
  BY <1>2, RowPin
<1>4. PICK r : r = ResultOf(p)
  OBVIOUS
<1>a. r = [pkg |-> p, file |-> f, line |-> l, from |-> world.resolved[p], to |-> world.fixed[p]]
  BY <1>3, <1>4 DEF ResultOf
<1>5. /\ applied' = Append(applied, r) /\ UNCHANGED <<base, edits>>
      /\ \E i \in Token(tree[f][l], p, world.resolved[p]) : tree' = Put(tree, f, l, i, world.fixed[p])
  <2>0. DOMAIN tree = Files /\ tree \in [Files -> Lines] /\ base \in [Files -> Lines]
    BY <1>2, WorldTyped DEF TreeInv
  <2>1. r = held[1].args /\ r.file \in DOMAIN tree
    BY <1>1, <1>3, <1>4, <1>a, <2>0
  <2>2. /\ \E i \in Token(tree[r.file][r.line], r.pkg, r.from) : tree' = Put(tree, r.file, r.line, i, r.to)
        /\ UNCHANGED <<base, edits>>
    BY <1>1, <2>0, <2>1, WrittenAlone
  <2>3. applied' = Append(applied, r)
    BY <2>1 DEF Apply
  <2> QED
    BY <1>a, <2>2, <2>3
<1>6. ~Standing(f, l, k)
  <2> SUFFICES ASSUME NEW n \in DOMAIN applied, k \in FirstPin(world.tree[f][l], applied[n].pkg) PROVE FALSE
    BY DEF Standing
  <2>1. world.tree[f][l][k].pkg = applied[n].pkg
    BY SMTT(30), <1>3, FirstMeans
  <2> QED
    BY <2>1, <1>2, <1>3
<1>7. tree[f][l][k].ver = world.resolved[p]
  BY SMTT(30), <1>3, <1>6 DEF Expected
<1>8. Token(tree[f][l], p, world.resolved[p]) = {k}
  <2>1. tree[f][l] \in Seq(PinShape) /\ k \in FirstPin(tree[f][l], p) /\ tree[f][l][k].ver = world.resolved[p]
    BY <1>3, <1>7
  <2> QED
    BY <2>1, OwnToken
<1>9. tree' = Put(tree, f, l, k, world.fixed[p])
  BY <1>5, <1>8
<1>10. /\ Len(applied) + 1 \in DOMAIN applied' /\ applied'[Len(applied) + 1] = r
       /\ DOMAIN applied' = DOMAIN applied \cup {Len(applied) + 1} /\ Len(applied) + 1 > 0
       /\ \A n \in DOMAIN applied : applied'[n] = applied[n]
  <2>1. r \in Results
    <3>1. l \in Nat
      <4>1. tree[f] \in Lines
        BY <1>3 DEF TreeInv
      <4> QED
        BY <1>3, <4>1 DEF Lines
    <3> QED
      BY <1>2, <1>3, <1>a, <3>1, WorldTyped DEF Results
  <2> QED
    BY <1>2, <1>5, <2>1
<1>11. \A g, m, j : Standing(g, m, j)' <=> Standing(g, m, j) \/ (g = f /\ m = l /\ j \in FirstPin(world.tree[f][l], p))
  <2>1. undone' = 0 /\ stuck' = stuck /\ undone = 0
    BY <1>1, <1>2
  <2> QED
    BY <1>2, <1>a, <1>10, <2>1 DEF Standing
<1>12. \A j \in FirstPin(world.tree[f][l], p) : j = k
  BY <1>3, FirstMeans
<1>13. world.fixed[p] = Expected(f, l, k)'.ver
  <2>1. Standing(f, l, k)'
    BY <1>3, <1>11
  <2> QED
    BY <1>3, <2>1 DEF Expected
<1>14. world.fixed[p] \in Nat
  BY <1>2, WorldTyped
<1>15. \A g, m, j : g # f \/ m # l \/ j # k => (Standing(g, m, j)' <=> Standing(g, m, j))
  BY <1>11, <1>12
<1> QED
  BY <1>2, <1>3, <1>5, <1>9, <1>13, <1>14, <1>15, TreeRewritten

\* A revert finds the pin its result left, and puts it back.
LEMMA TreeRevert ==
    ASSUME OwnPins(world), AppliedInv, TreeInv, HeldInv, UNCHANGED world, edits = 0, Revert
    PROVE  TreeInv'
<1>1. /\ undone < Len(applied) /\ undone' = undone + 1 /\ UNCHANGED <<applied, targets, stuck>>
      /\ undone \in Nat /\ applied \in Seq(Results) /\ world \in Worlds /\ stuck \subseteq 1..undone
      /\ Writes /\ held[1].args = Reversed(applied[undone + 1])
  <2>1. pc = "revert" /\ Writes /\ held # <<>> /\ undone' = undone + 1 /\ UNCHANGED <<applied, targets, stuck>>
    BY DEF Revert, Writes, planVars
  <2>2. undone < Len(applied) /\ held[1].args = Reversed(applied[undone + 1])
    BY <2>1 DEF AppliedInv
  <2> QED
    BY <2>1, <2>2 DEF AppliedInv
<1>2. PICK r, p : r = applied[undone + 1] /\ p = r.pkg
  OBVIOUS
<1>3. /\ undone + 1 \in DOMAIN applied /\ p \in DOMAIN targets /\ r = ResultOf(p)
      /\ p \in DOMAIN world.fixed /\ r.from # r.to
      /\ \A n \in DOMAIN applied : applied[n].pkg = p => n = undone + 1
  BY <1>1, <1>2 DEF AppliedInv
<1>4. PICK f, l, k :
         /\ f = targets[p].file /\ l = targets[p].line
         /\ f \in Files /\ l \in DOMAIN tree[f] /\ k \in DOMAIN tree[f][l]
         /\ world.tree[f][l] \in Seq(PinShape) /\ tree[f][l] \in Seq(PinShape)
         /\ k \in FirstPin(world.tree[f][l], p) /\ k \in FirstPin(tree[f][l], p)
         /\ world.tree[f][l][k].ver = world.resolved[p] /\ world.tree[f][l][k].pkg = p
         /\ tree[f][l][k] = Expected(f, l, k)
  BY <1>3, RowPin
<1>5. r = [pkg |-> p, file |-> f, line |-> l, from |-> world.resolved[p], to |-> world.fixed[p]]
  BY <1>3, <1>4 DEF ResultOf
<1>6. Standing(f, l, k)
  <2>1. LET q == applied[undone + 1] IN q.file = f /\ q.line = l /\ q.pkg = p
    BY <1>2, <1>5
  <2> QED
    BY <1>1, <1>3, <1>4, <2>1 DEF Standing
<1>7. tree[f][l][k].ver = world.fixed[p]
  BY SMTT(30), <1>4, <1>6 DEF Expected
<1>8. Token(tree[f][l], p, world.fixed[p]) = {k}
  <2>1. tree[f][l] \in Seq(PinShape) /\ k \in FirstPin(tree[f][l], p) /\ tree[f][l][k].ver = world.fixed[p]
    BY <1>4, <1>7
  <2> QED
    BY <2>1, OwnToken
<1>9. tree' = Put(tree, f, l, k, world.resolved[p]) /\ UNCHANGED <<base, edits>>
  <2>1. PICK a : a = Reversed(r)
    OBVIOUS
  <2>2. a = [pkg |-> p, file |-> f, line |-> l, from |-> world.fixed[p], to |-> world.resolved[p]]
    BY <1>5, <2>1 DEF Reversed
  <2>0. DOMAIN tree = Files /\ tree \in [Files -> Lines] /\ base \in [Files -> Lines]
    BY <1>1, WorldTyped DEF TreeInv
  <2>a. a = held[1].args
    BY <1>1, <1>2, <2>1
  <2>b. a.file \in DOMAIN tree
    BY <1>4, <2>0, <2>2
  <2>3. a = held[1].args /\ held[1].args.file \in DOMAIN tree
    BY <2>a, <2>b
  <2>4. /\ \E i \in Token(tree[a.file][a.line], a.pkg, a.from) : tree' = Put(tree, a.file, a.line, i, a.to)
        /\ UNCHANGED <<base, edits>>
    BY <1>1, <2>0, <2>3, WrittenAlone
  <2> QED
    BY <1>8, <2>2, <2>4
<1>10. \A j \in FirstPin(world.tree[f][l], p) : j = k
  BY <1>4, FirstMeans
<1>11. \A n \in DOMAIN applied : k \in FirstPin(world.tree[f][l], applied[n].pkg) => n = undone + 1
  <2>1. \A n \in DOMAIN applied : k \in FirstPin(world.tree[f][l], applied[n].pkg) => applied[n].pkg = p
    BY <1>4, FirstMeans
  <2> QED
    BY <2>1, <1>3
<1>12. \A g, m, j : g # f \/ m # l \/ j # k => (Standing(g, m, j)' <=> Standing(g, m, j))
  <2> SUFFICES ASSUME NEW g, NEW m, NEW j, g # f \/ m # l \/ j # k
               PROVE  Standing(g, m, j)' <=> Standing(g, m, j)
    OBVIOUS
  <2>1. ~(r.file = g /\ r.line = m /\ j \in FirstPin(world.tree[g][m], r.pkg))
    BY <1>5, <1>10
  <2>2. \A n \in DOMAIN applied : n > undone <=> n > undone + 1 \/ n = undone + 1
    BY <1>1
  <2> QED
    BY <1>1, <1>2, <2>1, <2>2 DEF Standing
<1>13. world.resolved[p] = Expected(f, l, k)'.ver
  <2>1. undone + 1 \notin stuck /\ ~(undone + 1 > undone + 1)
    BY <1>1
  <2>2. ~Standing(f, l, k)'
    BY <1>1, <1>11, <2>1 DEF Standing
  <2> QED
    BY <1>4, <2>2 DEF Expected
<1>14. world.resolved[p] \in Nat
  BY <1>1, <1>3, WorldTyped
<1>15. f \in Files /\ l \in DOMAIN tree[f] /\ k \in DOMAIN tree[f][l] /\ UNCHANGED <<world, base, edits>>
  BY <1>4, <1>9
<1> QED
  BY <1>1, <1>9, <1>12, <1>13, <1>14, <1>15, TreeRewritten, SMTT(30)

\* Every step keeps the tree in line with the results.
LEMMA TreeStep ==
    OwnPins(world) /\ edits \in Nat /\ AppliedInv /\ TreeInv /\ HeldInv /\ [Next]_vars => TreeInv'
<1> SUFFICES ASSUME OwnPins(world), edits \in Nat, AppliedInv, TreeInv, HeldInv, [Next]_vars, edits' = 0
             PROVE  TreeInv'
  BY DEF TreeInv
<1>0. UNCHANGED world
  BY Fixed
<1>1. CASE Foreign
  <2>1. edits' = edits + 1
    BY <1>1 DEF Foreign, ForeignBump, ForeignMove
  <2> QED
    BY <2>1
<1>2. CASE Apply
  <2>1. edits = 0
    BY <1>2 DEF Apply, Writes
  <2> QED
    BY <1>0, <1>2, <2>1, TreeApply
<1>3. CASE Revert
  <2>1. edits = 0
    BY <1>3 DEF Revert, Writes
  <2> QED
    BY <1>0, <1>3, <2>1, TreeRevert
<1>4. ASSUME UNCHANGED treeVars, \A f, l, i : Standing(f, l, i)' <=> Standing(f, l, i) PROVE TreeInv'
  BY <1>0, <1>4 DEF treeVars, TreeInv, Expected, Files
<1>5. CASE \/ Cancel \/ Finished \/ UNCHANGED vars \/ Plan \/ BaselineEnd \/ FixEnd \/ VerifyEnd \/ Keep
           \/ AnswerYes \/ RevertReads \/ RevertEnd \/ (\E f : Baseline(f) \/ Verify(f))
           \/ (\E p : ApplyReads(p) \/ ApplyFails(p))
  <2>1. UNCHANGED <<treeVars, doneVars>>
    BY <1>5 DEF Cancel, Finished, vars, treeVars, doneVars, Plan, BaselineEnd, FixEnd, VerifyEnd, Keep, AnswerYes,
                RevertReads, RevertEnd, Baseline, Verify, ApplyReads, ApplyFails, Reads, GivesUp
  <2>2. \A f, l, i : Standing(f, l, i)' <=> Standing(f, l, i)
    BY <1>0, <2>1 DEF doneVars, Standing
  <2> QED
    BY <1>4, <2>1, <2>2
<1>6. CASE RevertFails
  <2>1. UNCHANGED <<treeVars, applied>> /\ undone' = undone + 1 /\ stuck' = stuck \cup {undone + 1}
        /\ undone \in Nat /\ applied \in Seq(Results)
    BY <1>6 DEF RevertFails, GivesUp, AppliedInv
  <2>2. \A n \in DOMAIN applied : n > undone' \/ n \in stuck' <=> n > undone \/ n \in stuck
    BY <2>1
  <2>3. \A f, l, i : Standing(f, l, i)' <=> Standing(f, l, i)
    BY <1>0, <2>1, <2>2 DEF Standing
  <2> QED
    BY <1>4, <2>1, <2>3
<1> QED
  BY <1>1, <1>2, <1>3, <1>5, <1>6 DEF Next, Session

\* Such a tree differs from the scanned one where a result says so.
LEMMA TreeOnly ==
    ASSUME OwnPins(world), AppliedInv, TreeInv, edits = 0
    PROVE  FixesOnlyItsPackage
<1> SUFFICES ASSUME NEW f \in Files, NEW l \in DOMAIN tree[f], NEW i \in DOMAIN tree[f][l],
                    tree[f][l][i] # base[f][l][i]
             PROVE  \E n \in DOMAIN applied :
                            LET r == applied[n]
                            IN /\ r.file = f /\ r.pkg = tree[f][l][i].pkg /\ r.pkg = base[f][l][i].pkg
                               /\ base[f][l][i].ver = r.from /\ tree[f][l][i].ver = r.to
  BY DEF FixesOnlyItsPackage
<1>1. /\ base = world.tree /\ tree[f][l][i] = Expected(f, l, i) /\ world \in Worlds
      /\ l \in DOMAIN world.tree[f] /\ i \in DOMAIN world.tree[f][l]
  BY DEF TreeInv, AppliedInv
<1>2. world.tree[f][l] \in Seq(PinShape)
  BY <1>1, WorldTyped DEF Lines
<1>3. Standing(f, l, i)
  <2>1. world.tree[f][l][i] = [pkg |-> world.tree[f][l][i].pkg, ver |-> world.tree[f][l][i].ver]
    BY <1>1, <1>2, PinIs
  <2> QED
    BY <1>1, <2>1 DEF Expected
<1>4. PICK n \in DOMAIN applied : /\ applied[n].file = f /\ applied[n].line = l
                                  /\ i \in FirstPin(world.tree[f][l], applied[n].pkg)
  BY <1>3 DEF Standing
<1>5. PICK p : p = applied[n].pkg
  OBVIOUS
<1>6. p \in DOMAIN targets /\ applied[n] = ResultOf(p)
  BY <1>4, <1>5 DEF AppliedInv
<1>7. applied[n] = [pkg |-> p, file |-> f, line |-> l, from |-> world.resolved[p], to |-> world.fixed[p]]
  BY <1>4, <1>6 DEF ResultOf
<1>8. \A k \in FirstPin(world.tree[f][l], p) : k = i
  BY <1>2, <1>4, <1>5, FirstMeans
<1>9. world.tree[f][l][i].ver = world.resolved[p] /\ world.tree[f][l][i].pkg = p
  <2>1. targets[p].file = f /\ targets[p].line = l
    BY <1>6, <1>7 DEF ResultOf
  <2>2. PICK g, m, k :
             /\ g = targets[p].file /\ m = targets[p].line
             /\ g \in Files /\ m \in DOMAIN tree[g] /\ k \in DOMAIN tree[g][m]
             /\ world.tree[g][m] \in Seq(PinShape) /\ tree[g][m] \in Seq(PinShape)
             /\ k \in FirstPin(world.tree[g][m], p) /\ k \in FirstPin(tree[g][m], p)
             /\ world.tree[g][m][k].ver = world.resolved[p] /\ world.tree[g][m][k].pkg = p
             /\ tree[g][m][k] = Expected(g, m, k)
    BY <1>6, RowPin
  <2>3. k = i
    BY <1>8, <2>1, <2>2
  <2> QED
    BY <2>1, <2>2, <2>3
<1>10. tree[f][l][i].ver = world.fixed[p] /\ tree[f][l][i].pkg = p
  BY <1>1, <1>3, <1>9 DEF Expected
<1> QED
  BY <1>1, <1>4, <1>7, <1>9, <1>10

\* Such a tree, every result undone but the stuck ones, is the scanned one but for
\* their pins.
LEMMA TreeRestored ==
    ASSUME AppliedInv, TreeInv
    PROVE  RevertRestores
<1> SUFFICES ASSUME pc = "done", undone > 0, edits = 0, NEW f \in Files
             PROVE  /\ DOMAIN tree[f] = DOMAIN world.tree[f]
                    /\ \A l \in DOMAIN tree[f] :
                         /\ DOMAIN tree[f][l] = DOMAIN world.tree[f][l]
                         /\ \A i \in DOMAIN tree[f][l] :
                              \/ tree[f][l][i] = world.tree[f][l][i]
                              \/ \E n \in stuck : LET r == applied[n]
                                                  IN /\ r.file = f /\ r.line = l
                                                     /\ r.pkg = world.tree[f][l][i].pkg
  BY DEF RevertRestores
<1>1. undone = Len(applied) /\ applied \in Seq(Results) /\ world \in Worlds
  BY DEF AppliedInv
<1>2. DOMAIN tree[f] = DOMAIN world.tree[f] /\ world.tree[f] \in Lines
  BY <1>1, WorldTyped DEF TreeInv
<1>3. ASSUME NEW l \in DOMAIN tree[f], NEW i \in DOMAIN tree[f][l]
      PROVE  \/ tree[f][l][i] = world.tree[f][l][i]
             \/ \E n \in stuck : applied[n].file = f /\ applied[n].line = l
                                 /\ applied[n].pkg = world.tree[f][l][i].pkg
  <2>1. DOMAIN tree[f][l] = DOMAIN world.tree[f][l] /\ tree[f][l][i] = Expected(f, l, i)
    BY DEF TreeInv
  <2>2. world.tree[f][l] \in Seq(PinShape)
    BY <1>2 DEF Lines
  <2>3. world.tree[f][l][i] = [pkg |-> world.tree[f][l][i].pkg, ver |-> world.tree[f][l][i].ver]
    BY <2>1, <2>2, PinIs
  <2>4. CASE ~Standing(f, l, i)
    BY <2>1, <2>3, <2>4 DEF Expected
  <2>5. CASE Standing(f, l, i)
    <3>1. PICK n \in DOMAIN applied : /\ n > undone \/ n \in stuck
                                      /\ applied[n].file = f /\ applied[n].line = l
                                      /\ i \in FirstPin(world.tree[f][l], applied[n].pkg)
      BY <2>5 DEF Standing
    <3>2. n \in stuck
      BY <1>1, <3>1
    <3>3. world.tree[f][l][i].pkg = applied[n].pkg
      BY <2>2, <3>1, FirstMeans
    <3> QED
      BY <3>1, <3>2, <3>3
  <2> QED
    BY <2>4, <2>5
<1>4. \A l \in DOMAIN tree[f] : DOMAIN tree[f][l] = DOMAIN world.tree[f][l]
  BY DEF TreeInv
<1> QED
  BY <1>2, <1>3, <1>4

\* A manifest tree of one pin a line, no package on two lines of one file.
Single(t) ==
    /\ t \in [Files -> Lines]
    /\ \A f \in Files : \A l \in DOMAIN t[f] :
         /\ DOMAIN t[f][l] = {1}
         /\ \A m \in DOMAIN t[f] : t[f][m][1].pkg = t[f][l][1].pkg => m = l

\* A pin and what foreign edits alone would have made of it.
PairOK(f, now, was) ==
    /\ now.pkg = was.pkg
    /\ \/ now = was
       \/ \E n \in DOMAIN applied :
            /\ applied[n].file = f /\ applied[n].pkg = now.pkg
            /\ applied[n].from = was.ver /\ applied[n].to = now.ver
    /\ \A n \in DOMAIN applied :
         n > undone /\ applied[n].file = f /\ applied[n].pkg = now.pkg =>
            /\ now.ver = applied[n].to => was.ver = applied[n].from
            /\ edits = 0 => now.ver = applied[n].to

\* Two such trees, pin by pin.
Paired(t, b) ==
    /\ Single(t) /\ Single(b)
    /\ \A f \in Files : DOMAIN t[f] = DOMAIN b[f] /\
         \A l \in DOMAIN t[f] : PairOK(f, t[f][l][1], b[f][l][1])

\* Up to one foreign edit, every pin and its history stay a pair, also those an
\* edit under way has read.
SingleInv ==
    edits <= 1 =>
        /\ Paired(tree, base)
        /\ held # <<>> => held[1].args.file \in Files /\ Paired(TreeOf(held[1]), BaseOf(held[1]))

\* What a line of such a tree holds.
LEMMA SinglePin ==
    ASSUME NEW t, Single(t), NEW f \in Files, NEW l \in DOMAIN t[f]
    PROVE  /\ t[f] \in Lines /\ t[f][l] \in Seq(PinShape) /\ DOMAIN t[f][l] = {1}
           /\ t[f][l][1] = [pkg |-> t[f][l][1].pkg, ver |-> t[f][l][1].ver]
<1>1. t[f] \in Lines /\ t[f][l] \in Seq(PinShape) /\ DOMAIN t[f][l] = {1}
  BY DEF Single, Lines
<1> QED
  BY <1>1, PinIs

\* On a line of one pin the edit finds that pin or nothing.
LEMMA SingleToken ==
    ASSUME NEW line \in Seq(PinShape), DOMAIN line = {1}, NEW p, NEW from, NEW i \in Token(line, p, from)
    PROVE  i = 1 /\ line[1].pkg = p /\ line[1].ver = from
  BY DEF Token

\* One pin rewritten on such a tree.
LEMMA SinglePut ==
    ASSUME NEW t, Single(t), NEW f \in Files, NEW l \in DOMAIN t[f], NEW v \in Nat,
           NEW u, u = Put(t, f, l, 1, v)
    PROVE  /\ Single(u)
           /\ \A g \in Files : DOMAIN u[g] = DOMAIN t[g] /\
                \A m \in DOMAIN t[g] :
                  u[g][m][1] = IF g = f /\ m = l THEN [pkg |-> t[f][l][1].pkg, ver |-> v] ELSE t[g][m][1]
<1>0. t \in [Files -> Lines] /\ 1 \in DOMAIN t[f][l]
  BY DEF Single
<1>1. /\ u \in [Files -> Lines]
      /\ \A g \in Files : DOMAIN u[g] = DOMAIN t[g] /\ \A k \in DOMAIN t[g] :
                /\ DOMAIN u[g][k] = DOMAIN t[g][k]
                /\ \A j \in DOMAIN t[g][k] :
                     u[g][k][j] = [pkg |-> t[g][k][j].pkg,
                                   ver |-> IF g = f /\ k = l /\ j = 1 THEN v ELSE t[g][k][j].ver]
  BY <1>0, Rewritten
<1>2. ASSUME NEW g \in Files, NEW m \in DOMAIN t[g]
      PROVE  /\ u[g][m][1] = IF g = f /\ m = l THEN [pkg |-> t[f][l][1].pkg, ver |-> v] ELSE t[g][m][1]
             /\ u[g][m][1].pkg = t[g][m][1].pkg
             /\ DOMAIN u[g][m] = {1}
  <2>1. DOMAIN t[g][m] = {1} /\ t[g][m][1] = [pkg |-> t[g][m][1].pkg, ver |-> t[g][m][1].ver]
    BY SinglePin
  <2>a. 1 \in DOMAIN t[g][m] /\ \A k \in DOMAIN t[g] : \A j \in DOMAIN t[g][k] :
                     u[g][k][j] = [pkg |-> t[g][k][j].pkg,
                                   ver |-> IF g = f /\ k = l /\ j = 1 THEN v ELSE t[g][k][j].ver]
    BY <1>1, <2>1
  <2>2. u[g][m][1] = [pkg |-> t[g][m][1].pkg, ver |-> IF g = f /\ m = l THEN v ELSE t[g][m][1].ver]
    BY <2>a
  <2>3. DOMAIN u[g][m] = {1}
    BY <1>1, <2>1
  <2>4. u[g][m][1].pkg = t[g][m][1].pkg
    BY <2>2
  <2> QED
    BY <2>1, <2>2, <2>3, <2>4
<1>3. Single(u)
  <2>1. ASSUME NEW g \in Files, NEW m \in DOMAIN u[g], NEW n \in DOMAIN u[g],
               u[g][n][1].pkg = u[g][m][1].pkg
        PROVE  n = m
    <3>1. m \in DOMAIN t[g] /\ n \in DOMAIN t[g]
      BY <1>1
    <3>2. t[g][n][1].pkg = t[g][m][1].pkg
      BY <1>2, <2>1, <3>1
    <3> QED
      BY <3>1, <3>2 DEF Single
  <2>2. \A g \in Files : \A m \in DOMAIN u[g] : DOMAIN u[g][m] = {1}
    BY <1>1, <1>2
  <2> QED
    BY <1>1, <2>1, <2>2 DEF Single
<1> QED
  BY <1>1, <1>2, <1>3

\* What an edit under way writes on such a tree: the pin it was asked for, which
\* it has read.
LEMMA SingleWrites ==
    ASSUME SingleInv, Writes, edits <= 1, NEW a, a = held[1].args, a.to \in Nat, NEW t, NEW b,
           t = TreeOf(held[1]), b = BaseOf(held[1])
    PROVE  /\ a.file \in Files /\ a.line \in DOMAIN t[a.file]
           /\ t[a.file][a.line][1] = [pkg |-> a.pkg, ver |-> a.from]
           /\ Paired(t, b) /\ base' = b /\ UNCHANGED edits /\ Single(tree')
           /\ \A g \in Files : DOMAIN tree'[g] = DOMAIN t[g] /\
                \A m \in DOMAIN t[g] :
                  tree'[g][m][1] = IF g = a.file /\ m = a.line THEN [pkg |-> a.pkg, ver |-> a.to] ELSE t[g][m][1]
<1>1. PICK f, l : f = a.file /\ l = a.line
  OBVIOUS
<1>2. held # <<>> /\ f \in Files /\ Paired(t, b) /\ f \in DOMAIN tree
  <2>1. held # <<>>
    BY DEF Writes
  <2>2. f \in Files /\ Paired(t, b) /\ Single(tree)
    BY <1>1, <2>1 DEF SingleInv, Paired
  <2> QED
    BY <2>1, <2>2 DEF Single
<1>4. /\ l \in DOMAIN t[f] /\ base' = b /\ UNCHANGED edits
      /\ \E i \in Token(t[f][l], a.pkg, a.from) : tree' = Put(t, f, l, i, a.to)
  BY <1>1, <1>2, Written
<1>5. Single(t)
  BY <1>2 DEF Paired
<1>6. /\ t[f][l] \in Seq(PinShape) /\ DOMAIN t[f][l] = {1}
      /\ t[f][l][1] = [pkg |-> t[f][l][1].pkg, ver |-> t[f][l][1].ver]
  BY <1>2, <1>4, <1>5, SinglePin
<1>7. tree' = Put(t, f, l, 1, a.to) /\ t[f][l][1].pkg = a.pkg /\ t[f][l][1].ver = a.from
  BY <1>4, <1>6, SingleToken
<1>8. /\ Single(tree')
      /\ \A g \in Files : DOMAIN tree'[g] = DOMAIN t[g] /\
           \A m \in DOMAIN t[g] :
             tree'[g][m][1] = IF g = f /\ m = l THEN [pkg |-> t[f][l][1].pkg, ver |-> a.to] ELSE t[g][m][1]
  BY <1>2, <1>4, <1>5, <1>7, SinglePut
<1>9. t[f][l][1] = [pkg |-> a.pkg, ver |-> a.from]
  BY <1>6, <1>7
<1>10. \A g \in Files : DOMAIN tree'[g] = DOMAIN t[g] /\
           \A m \in DOMAIN t[g] :
             tree'[g][m][1] = IF g = f /\ m = l THEN [pkg |-> a.pkg, ver |-> a.to] ELSE t[g][m][1]
  BY <1>7, <1>8
<1> QED
  <2>1. a.file \in Files /\ a.line \in DOMAIN t[a.file] /\ t[a.file][a.line][1] = [pkg |-> a.pkg, ver |-> a.from]
    BY <1>1, <1>2, <1>4, <1>9
  <2>2. \A g \in Files : DOMAIN tree'[g] = DOMAIN t[g] /\
           \A m \in DOMAIN t[g] :
             tree'[g][m][1] = IF g = a.file /\ m = a.line THEN [pkg |-> a.pkg, ver |-> a.to] ELSE t[g][m][1]
    BY <1>1, <1>10
  <2>3. Paired(t, b) /\ base' = b /\ UNCHANGED edits
    BY <1>2, <1>4
  <2>4. Single(tree')
    BY <1>8
  <2> QED
    BY <2>1, <2>2, <2>3, <2>4

\* Where the new tree and the new history pair off, and nothing is under way, the
\* pairs are in order.
LEMMA SingleDone ==
    ASSUME UNCHANGED world, Single(tree'), Single(base'), held' = <<>>,
           \A g \in Files : DOMAIN tree'[g] = DOMAIN base'[g] /\
             \A m \in DOMAIN tree'[g] : PairOK(g, tree[g][m][1], base[g][m][1])'
    PROVE  SingleInv'
<1>1. Files' = Files /\ Lines' = Lines
  BY DEF Files, Lines, PinShape
<1>2. Single(tree)' /\ Single(base)'
  BY <1>1 DEF Single
<1>3. Paired(tree, base)'
  BY <1>1, <1>2 DEF Paired
<1> QED
  BY <1>3 DEF SingleInv

\* A fix on such a tree, after at most one foreign edit.
LEMMA SingleApply ==
    ASSUME AppliedInv, SingleInv, UNCHANGED world, edits <= 1, Apply
    PROVE  SingleInv'
<1>0. PICK p, r : p = held[1].args.pkg /\ r = held[1].args
  OBVIOUS
<1>1. p \in todo /\ pc = "fix" /\ r = ResultOf(p) /\ UNCHANGED undone /\ Writes /\ held' = <<>>
      /\ applied' = Append(applied, r)
  BY <1>0 DEF Apply, Writes, AppliedInv
<1>2. /\ p \in DOMAIN targets /\ world \in Worlds /\ p \in DOMAIN world.fixed /\ undone = 0
      /\ applied \in Seq(Results) /\ \A n \in DOMAIN applied : applied[n].pkg # p
      /\ targets[p] \in SitesOf(p)
  BY <1>1 DEF AppliedInv
<1>3. PICK f, l, t, b : /\ f = targets[p].file /\ l = targets[p].line
                        /\ t = TreeOf(held[1]) /\ b = BaseOf(held[1])
  OBVIOUS
<1>4. r = [pkg |-> p, file |-> f, line |-> l, from |-> world.resolved[p], to |-> world.fixed[p]]
  BY <1>1, <1>3 DEF ResultOf
<1>5. r.to \in Nat
  BY <1>2, <1>4, WorldTyped
<1>6. /\ f \in Files /\ l \in DOMAIN t[f] /\ t[f][l][1] = [pkg |-> p, ver |-> r.from]
      /\ Paired(t, b) /\ base' = b /\ UNCHANGED edits /\ Single(tree')
      /\ \A g \in Files : DOMAIN tree'[g] = DOMAIN t[g] /\
           \A m \in DOMAIN t[g] :
             tree'[g][m][1] = IF g = f /\ m = l THEN [pkg |-> p, ver |-> r.to] ELSE t[g][m][1]
  <2>1. /\ r.file \in Files /\ r.line \in DOMAIN t[r.file]
        /\ t[r.file][r.line][1] = [pkg |-> r.pkg, ver |-> r.from]
        /\ Paired(t, b) /\ base' = b /\ UNCHANGED edits /\ Single(tree')
        /\ \A g \in Files : DOMAIN tree'[g] = DOMAIN t[g] /\
             \A m \in DOMAIN t[g] :
               tree'[g][m][1] = IF g = r.file /\ m = r.line THEN [pkg |-> r.pkg, ver |-> r.to] ELSE t[g][m][1]
    BY <1>0, <1>1, <1>3, <1>5, SingleWrites
  <2>2. r.file = f /\ r.line = l /\ r.pkg = p
    BY <1>4
  <2> QED
    BY <2>1, <2>2
<1>7. Single(t) /\ Single(b) /\ \A g \in Files : DOMAIN t[g] = DOMAIN b[g] /\
             \A m \in DOMAIN t[g] : PairOK(g, t[g][m][1], b[g][m][1])
  BY <1>6 DEF Paired
<1>9. r \in Results
  <2>1. l \in Nat
    BY <1>6, <1>7 DEF Single, Lines
  <2> QED
    BY <1>2, <1>4, <1>6, <2>1, WorldTyped DEF Results
<1>11. /\ Len(applied) + 1 \in DOMAIN applied' /\ applied'[Len(applied) + 1] = r
       /\ DOMAIN applied' = DOMAIN applied \cup {Len(applied) + 1}
       /\ \A n \in DOMAIN applied : applied'[n] = applied[n]
  BY <1>1, <1>2, <1>9
<1>12. b[f][l][1] = [pkg |-> p, ver |-> r.from]
  <2>1. PairOK(f, t[f][l][1], b[f][l][1]) /\ t[f][l][1].pkg = p
    BY <1>6, <1>7
  <2> QED
    BY <2>1, <1>2, <1>6 DEF PairOK
<1>13. ASSUME NEW g \in Files, NEW m \in DOMAIN t[g]
       PROVE  PairOK(g, tree[g][m][1], base[g][m][1])'
  <2>1. CASE g = f /\ m = l
    <3>1. tree'[g][m][1] = [pkg |-> p, ver |-> r.to] /\ base'[g][m][1] = [pkg |-> p, ver |-> r.from]
      BY <1>6, <1>12, <2>1
    <3> QED
      BY <1>2, <1>4, <1>11, <2>1, <3>1 DEF PairOK
  <2>2. CASE ~(g = f /\ m = l)
    <3>1. tree'[g][m][1] = t[g][m][1] /\ base'[g][m][1] = b[g][m][1] /\ PairOK(g, t[g][m][1], b[g][m][1])
      BY <1>6, <1>7, <2>2
    <3>2. ~(r.file = g /\ r.pkg = t[g][m][1].pkg)
      BY <1>4, <1>6, <1>7, <2>2 DEF Single
    <3> QED
      BY <1>1, <1>6, <1>11, <3>1, <3>2 DEF PairOK
  <2> QED
    BY <2>1, <2>2
<1> QED
  BY <1>1, <1>6, <1>7, <1>13, SingleDone

\* A revert on such a tree, after at most one foreign edit.
LEMMA SingleRevert ==
    ASSUME AppliedInv, SingleInv, UNCHANGED world, edits <= 1, Revert
    PROVE  SingleInv'
<1>1. /\ undone < Len(applied) /\ undone' = undone + 1 /\ UNCHANGED <<applied, targets>>
      /\ undone \in Nat /\ applied \in Seq(Results) /\ world \in Worlds
      /\ Writes /\ held' = <<>> /\ held[1].args = Reversed(applied[undone + 1])
  <2>1. pc = "revert" /\ Writes /\ held # <<>> /\ held' = <<>> /\ undone' = undone + 1 /\ UNCHANGED <<applied, targets>>
    BY DEF Revert, Writes, planVars
  <2>2. undone < Len(applied) /\ held[1].args = Reversed(applied[undone + 1])
    BY <2>1 DEF AppliedInv
  <2> QED
    BY <2>1, <2>2 DEF AppliedInv
<1>2. PICK r, p, f, l, a, t, b :
         /\ r = applied[undone + 1] /\ p = r.pkg /\ f = r.file /\ l = r.line /\ a = held[1].args
         /\ t = TreeOf(held[1]) /\ b = BaseOf(held[1])
  OBVIOUS
<1>3. /\ undone + 1 \in DOMAIN applied /\ p \in DOMAIN targets /\ r = ResultOf(p)
      /\ p \in DOMAIN world.fixed
      /\ \A n \in DOMAIN applied : applied[n].pkg = p => n = undone + 1
  BY <1>1, <1>2 DEF AppliedInv
<1>4. r = [pkg |-> p, file |-> f, line |-> l, from |-> world.resolved[p], to |-> world.fixed[p]]
  BY <1>2, <1>3 DEF ResultOf
<1>5. a = [pkg |-> p, file |-> f, line |-> l, from |-> r.to, to |-> r.from] /\ a.to \in Nat
  <2>1. a = Reversed(r)
    BY <1>1, <1>2
  <2>2. a = [pkg |-> p, file |-> f, line |-> l, from |-> r.to, to |-> r.from]
    BY <1>4, <2>1 DEF Reversed
  <2>3. r.from \in Nat
    BY <1>1, <1>3, <1>4, WorldTyped
  <2> QED
    BY <2>2, <2>3
<1>6. /\ f \in Files /\ l \in DOMAIN t[f] /\ t[f][l][1] = [pkg |-> p, ver |-> r.to]
      /\ Paired(t, b) /\ base' = b /\ UNCHANGED edits /\ Single(tree')
      /\ \A g \in Files : DOMAIN tree'[g] = DOMAIN t[g] /\
           \A m \in DOMAIN t[g] :
             tree'[g][m][1] = IF g = f /\ m = l THEN [pkg |-> p, ver |-> r.from] ELSE t[g][m][1]
  <2>1. /\ a.file \in Files /\ a.line \in DOMAIN t[a.file]
        /\ t[a.file][a.line][1] = [pkg |-> a.pkg, ver |-> a.from]
        /\ Paired(t, b) /\ base' = b /\ UNCHANGED edits /\ Single(tree')
        /\ \A g \in Files : DOMAIN tree'[g] = DOMAIN t[g] /\
             \A m \in DOMAIN t[g] :
               tree'[g][m][1] = IF g = a.file /\ m = a.line THEN [pkg |-> a.pkg, ver |-> a.to] ELSE t[g][m][1]
    BY <1>1, <1>2, <1>5, SingleWrites
  <2>2. a.file = f /\ a.line = l /\ a.pkg = p /\ a.from = r.to /\ a.to = r.from
    BY <1>5
  <2> QED
    BY <2>1, <2>2
<1>7. Single(t) /\ Single(b) /\ \A g \in Files : DOMAIN t[g] = DOMAIN b[g] /\
             \A m \in DOMAIN t[g] : PairOK(g, t[g][m][1], b[g][m][1])
  BY <1>6 DEF Paired
<1>8. \A n \in DOMAIN applied : n > undone' => n > undone
  BY <1>1
<1>9. b[f][l][1] = [pkg |-> p, ver |-> r.from]
  <2>1. PairOK(f, t[f][l][1], b[f][l][1]) /\ t[f][l][1].pkg = p /\ t[f][l][1].ver = r.to
    BY <1>6, <1>7
  <2>2. undone + 1 > undone /\ applied[undone + 1] = r
    BY <1>1, <1>2
  <2>3. b[f][l][1].pkg = p /\ b[f][l][1].ver = r.from
    BY <1>2, <1>3, <2>1, <2>2 DEF PairOK
  <2>4. l \in DOMAIN b[f]
    BY <1>6, <1>7
  <2>6. Single(b) /\ f \in Files
    BY <1>6, <1>7
  <2>5. b[f][l][1] = [pkg |-> b[f][l][1].pkg, ver |-> b[f][l][1].ver]
    BY <2>4, <2>6, SinglePin
  <2> QED
    BY <2>3, <2>5
<1>10. ASSUME NEW g \in Files, NEW m \in DOMAIN t[g]
       PROVE  PairOK(g, tree[g][m][1], base[g][m][1])'
  <2>1. CASE g = f /\ m = l
    <3>1. tree'[g][m][1] = [pkg |-> p, ver |-> r.from] /\ base'[g][m][1] = [pkg |-> p, ver |-> r.from]
      BY <1>6, <1>9, <2>1
    <3>2. \A n \in DOMAIN applied' : n > undone' => applied'[n].pkg # p
      BY <1>1, <1>3
    <3> QED
      BY <3>1, <3>2 DEF PairOK
  <2>2. CASE ~(g = f /\ m = l)
    <3>1. tree'[g][m][1] = t[g][m][1] /\ base'[g][m][1] = b[g][m][1] /\ PairOK(g, t[g][m][1], b[g][m][1])
      BY <1>6, <1>7, <2>2
    <3> QED
      BY <1>1, <1>6, <1>8, <3>1 DEF PairOK
  <2> QED
    BY <2>1, <2>2
<1> QED
  BY <1>1, <1>6, <1>7, <1>10, SingleDone

\* The two foreign edits.
BumpIn(t, f, p, v) == [t EXCEPT ![f] = Bumped(@, p, v)]
MoveIn(t, f) == [t EXCEPT ![f] = Append(Tail(@), Head(@))]

\* A pin moved by hand leaves such a tree, with that pin changed everywhere.
LEMMA BumpedLines ==
    ASSUME NEW t, Single(t), NEW f \in Files, NEW p, NEW v \in Nat, NEW u, u = BumpIn(t, f, p, v)
    PROVE  /\ Single(u)
           /\ \A g \in Files : DOMAIN u[g] = DOMAIN t[g] /\
                \A m \in DOMAIN t[g] : u[g][m][1] = IF g = f /\ t[g][m][1].pkg = p
                                                    THEN [pkg |-> p, ver |-> v] ELSE t[g][m][1]
<1>1. t \in [Files -> Lines] /\ t[f] \in Lines
  BY DEF Single
<1>2. /\ u[f] = Bumped(t[f], p, v) /\ \A g \in Files \ {f} : u[g] = t[g]
      /\ DOMAIN u = Files
  BY <1>1 DEF BumpIn
<1>3. DOMAIN u[f] = DOMAIN t[f] /\ DOMAIN t[f] = 1..Len(t[f]) /\ Len(t[f]) \in Nat
  BY <1>1, <1>2 DEF Bumped, Lines
<1>4. ASSUME NEW m \in DOMAIN t[f]
      PROVE  /\ u[f][m] \in Seq(PinShape) \ {<<>>} /\ DOMAIN u[f][m] = {1}
             /\ u[f][m][1] = IF t[f][m][1].pkg = p THEN [pkg |-> p, ver |-> v] ELSE t[f][m][1]
  <2>1. /\ t[f][m] \in Seq(PinShape) /\ DOMAIN t[f][m] = {1}
        /\ t[f][m][1] = [pkg |-> t[f][m][1].pkg, ver |-> t[f][m][1].ver]
        /\ t[f][m][1] \in PinShape /\ 1 \in 1..Len(t[f][m])
    <3>1. /\ t[f][m] \in Seq(PinShape) /\ DOMAIN t[f][m] = {1}
          /\ t[f][m][1] = [pkg |-> t[f][m][1].pkg, ver |-> t[f][m][1].ver]
      BY SinglePin
    <3>2. t[f][m][1] \in PinShape /\ 1 \in 1..Len(t[f][m])
      BY <3>1
    <3> QED
      BY <3>1, <3>2
  <2>2. u[f][m] = [i \in {1} |-> IF t[f][m][i].pkg = p THEN [t[f][m][i] EXCEPT !.ver = v] ELSE t[f][m][i]]
    BY <1>2, <2>1 DEF Bumped
  <2>3. [t[f][m][1] EXCEPT !.ver = v] = [pkg |-> t[f][m][1].pkg, ver |-> v]
    BY <2>1
  <2>4. DOMAIN u[f][m] = {1} /\ u[f][m][1] = IF t[f][m][1].pkg = p THEN [pkg |-> p, ver |-> v] ELSE t[f][m][1]
    BY <2>2, <2>3
  <2>5. u[f][m] = IF t[f][m][1].pkg = p THEN [t[f][m] EXCEPT ![1] = [pkg |-> p, ver |-> v]] ELSE t[f][m]
    BY <2>1, <2>2, <2>3
  <2>6. u[f][m] \in Seq(PinShape) \ {<<>>}
    <3>1. t[f][m][1].pkg = p => [pkg |-> p, ver |-> v] \in PinShape
      BY <2>1 DEF PinShape
    <3>2. u[f][m] \in Seq(PinShape)
      BY <2>1, <2>5, <3>1, ExceptSeq
    <3> QED
      BY <2>4, <3>2
  <2> QED
    BY <2>4, <2>6
<1>5. u[f] \in Lines
  <2> DEFINE q == u[f]
  <2>1. \A m \in 1..Len(t[f]) : q[m] \in Seq(PinShape) \ {<<>>}
    BY <1>3, <1>4
  <2>2. q = [m \in 1..Len(t[f]) |-> q[m]]
    BY <1>2, <1>3 DEF Bumped
  <2> HIDE DEF q
  <2>3. q \in Seq(Seq(PinShape) \ {<<>>})
    BY <1>3, <2>1, <2>2
  <2> QED
    BY <2>3 DEF Lines, q
<1>6. u \in [Files -> Lines]
  BY <1>1, <1>2, <1>5 DEF BumpIn
<1>7. \A g \in Files : \A m \in DOMAIN u[g] :
         /\ DOMAIN u[g] = DOMAIN t[g] /\ DOMAIN u[g][m] = {1}
         /\ u[g][m][1].pkg = t[g][m][1].pkg
  BY <1>2, <1>3, <1>4 DEF Single
<1> QED
  BY <1>2, <1>3, <1>4, <1>6, <1>7 DEF Single

\* Somebody else's first edit leaves what an edit under way has read as it was.
LEMMA SingleHeld ==
    ASSUME SingleInv, UNCHANGED <<world, held, applied, undone>>, edits = 0, edits' = 1, Paired(tree, base)'
    PROVE  SingleInv'
<1>1. Files' = Files /\ Lines' = Lines
  BY DEF Files, Lines, PinShape
<1>2. \A g, now, was : PairOK(g, now, was) => PairOK(g, now, was)'
  BY DEF PairOK
<1> SUFFICES ASSUME held # <<>> PROVE held[1].args.file \in Files /\ Paired(TreeOf(held[1]), BaseOf(held[1]))'
  BY <1>1 DEF SingleInv
<1>3. PICK h, f : h = held[1] /\ f = h.args.file
  OBVIOUS
<1>4. PICK t, b, u, c : /\ t = TreeOf(h) /\ b = BaseOf(h)
                        /\ u = [tree' EXCEPT ![f] = h.lines] /\ c = [base' EXCEPT ![f] = h.theirs]
  OBVIOUS
<1>5. f \in Files /\ Paired(t, b) /\ Paired(tree, base)
  BY <1>3, <1>4 DEF SingleInv
<1>6. Paired(tree, base)'
  OBVIOUS
<1>7. /\ Single(t) /\ Single(b) /\ Single(tree) /\ Single(base) /\ Single(tree)' /\ Single(base)'
  BY <1>5, <1>6 DEF Paired
<1>8. /\ DOMAIN tree = Files /\ DOMAIN base = Files /\ DOMAIN tree' = Files /\ DOMAIN base' = Files
  BY <1>1, <1>7 DEF Single
<1>9. /\ t[f] = h.lines /\ b[f] = h.theirs /\ u[f] = h.lines /\ c[f] = h.theirs
      /\ \A g \in Files \ {f} : u[g] = tree'[g] /\ c[g] = base'[g]
      /\ DOMAIN u = Files /\ DOMAIN c = Files
  BY <1>3, <1>4, <1>5, <1>8 DEF TreeOf, BaseOf
<1>10. Single(u) /\ Single(c)
  <2>1. \A g \in Files : u[g] \in Lines /\ c[g] \in Lines
    BY <1>1, <1>7, <1>9 DEF Single
  <2>2. u \in [Files -> Lines] /\ c \in [Files -> Lines]
    BY <1>4, <1>8, <1>9, <2>1
  <2>3. ASSUME NEW g \in Files
        PROVE  /\ \A l \in DOMAIN u[g] : DOMAIN u[g][l] = {1}
                                        /\ \A m \in DOMAIN u[g] : u[g][m][1].pkg = u[g][l][1].pkg => m = l
               /\ \A l \in DOMAIN c[g] : DOMAIN c[g][l] = {1}
                                        /\ \A m \in DOMAIN c[g] : c[g][m][1].pkg = c[g][l][1].pkg => m = l
    <3>1. CASE g = f
      BY <1>5, <1>7, <1>9, <3>1 DEF Single
    <3>2. CASE g # f
      BY <1>1, <1>7, <1>9, <3>2 DEF Single
    <3> QED
      BY <3>1, <3>2
  <2> QED
    BY <2>2, <2>3 DEF Single
<1>11. ASSUME NEW g \in Files
       PROVE  DOMAIN u[g] = DOMAIN c[g] /\ \A l \in DOMAIN u[g] : PairOK(g, u[g][l][1], c[g][l][1])'
  <2>1. CASE g = f
    BY <1>2, <1>5, <1>9, <2>1 DEF Paired
  <2>2. CASE g # f
    <3>1. DOMAIN tree'[g] = DOMAIN base'[g] /\ \A l \in DOMAIN tree'[g] : PairOK(g, tree[g][l][1], base[g][l][1])'
      BY <1>1, <1>6 DEF Paired
    <3> QED
      BY <1>9, <2>2, <3>1
  <2> QED
    BY <2>1, <2>2
<1>12. TreeOf(h)' = u /\ BaseOf(h)' = c
  BY <1>3, <1>4 DEF TreeOf, BaseOf
<1>13. Paired(u, c)'
  BY <1>1, <1>10, <1>11 DEF Paired, Single
<1> QED
  BY <1>3, <1>5, <1>12, <1>13

\* The first foreign edit moves a pin: ours and theirs agree on it again.
LEMMA SingleBump ==
    ASSUME AppliedInv, SingleInv, UNCHANGED <<world, flags>>, edits \in Nat, edits' <= 1,
           NEW f \in Files, NEW p \in DOMAIN world.resolved,
           NEW v \in Range(world.resolved) \cup Range(world.fixed), ForeignBump(f, p, v)
    PROVE  SingleInv'
<1>1. /\ UNCHANGED <<applied, undone, world>> /\ Files' = Files /\ Lines' = Lines
      /\ edits' = edits + 1 /\ \E pin \in PinsIn(tree[f]) : pin.pkg = p /\ pin.ver # v
      /\ tree' = BumpIn(tree, f, p, v)
      /\ base' = BumpIn(base, f, p, v)
  BY DEF ForeignBump, BumpIn, Files, Lines, doneVars
<1>2. edits = 0 /\ edits' = 1 /\ world \in Worlds /\ applied \in Seq(Results)
  BY <1>1 DEF AppliedInv
<1>3. v \in Nat
  BY <1>2, FixSessionAssumption DEF WorldShape, Range
<1>4. Single(tree) /\ Single(base) /\ \A g \in Files : DOMAIN tree[g] = DOMAIN base[g] /\
             \A m \in DOMAIN tree[g] : PairOK(g, tree[g][m][1], base[g][m][1])
  BY <1>2 DEF SingleInv, Paired
<1>5. /\ Single(tree')
      /\ \A g \in Files : DOMAIN tree'[g] = DOMAIN tree[g] /\
           \A m \in DOMAIN tree[g] : tree'[g][m][1] = IF g = f /\ tree[g][m][1].pkg = p
                                                       THEN [pkg |-> p, ver |-> v] ELSE tree[g][m][1]
  BY <1>1, <1>3, <1>4, BumpedLines
<1>6. /\ Single(base')
      /\ \A g \in Files : DOMAIN base'[g] = DOMAIN base[g] /\
           \A m \in DOMAIN base[g] : base'[g][m][1] = IF g = f /\ base[g][m][1].pkg = p
                                                       THEN [pkg |-> p, ver |-> v] ELSE base[g][m][1]
  BY <1>1, <1>3, <1>4, BumpedLines
<1>7. Single(tree)' /\ Single(base)'
  BY <1>1, <1>5, <1>6 DEF Single
<1>8. PICK k \in DOMAIN tree[f] : tree[f][k][1].pkg = p /\ tree[f][k][1].ver # v
  <2>1. \A l \in DOMAIN tree[f] : DOMAIN tree[f][l] = {1}
    BY <1>4 DEF Single
  <2> QED
    BY <1>1, <2>1 DEF PinsIn, Range
<1>9. ASSUME NEW g \in Files, NEW m \in DOMAIN tree[g]
      PROVE  PairOK(g, tree[g][m][1], base[g][m][1])'
  <2>0. PairOK(g, tree[g][m][1], base[g][m][1]) /\ m \in DOMAIN base[g]
    BY <1>4
  <2>1. CASE g = f /\ tree[g][m][1].pkg = p
    <3>1. tree'[g][m][1] = [pkg |-> p, ver |-> v] /\ base'[g][m][1] = [pkg |-> p, ver |-> v]
      BY <1>5, <1>6, <2>0, <2>1 DEF PairOK
    <3>2. m = k
      BY <1>4, <1>8, <2>1 DEF Single
    <3>3. \A n \in DOMAIN applied : n > undone /\ applied[n].file = f /\ applied[n].pkg = p => v # applied[n].to
      BY <1>2, <1>8, <2>0, <2>1, <3>2 DEF PairOK
    <3> QED
      BY <1>1, <1>2, <2>1, <3>1, <3>3 DEF PairOK
  <2>2. CASE ~(g = f /\ tree[g][m][1].pkg = p)
    <3>1. tree'[g][m][1] = tree[g][m][1] /\ base'[g][m][1] = base[g][m][1]
      BY <1>5, <1>6, <2>0, <2>2 DEF PairOK
    <3> QED
      BY <1>1, <1>2, <2>0, <3>1 DEF PairOK
  <2> QED
    BY <2>1, <2>2
<1>10. Paired(tree, base)'
  BY <1>1, <1>4, <1>5, <1>6, <1>7, <1>9 DEF Paired
<1>11. UNCHANGED held
  BY DEF ForeignBump
<1> QED
  BY <1>1, <1>2, <1>10, <1>11, SingleHeld

\* A moved line leaves such a tree, its lines in another order.
LEMMA MovedLines ==
    ASSUME NEW t, Single(t), NEW f \in Files, Len(t[f]) > 1, NEW u,
           u = MoveIn(t, f)
    PROVE  /\ Single(u)
           /\ \A g \in Files : DOMAIN u[g] = DOMAIN t[g]
           /\ \A g \in Files \ {f} : u[g] = t[g]
           /\ \A m \in DOMAIN t[f] : u[f][m] = t[f][IF m = Len(t[f]) THEN 1 ELSE m + 1]
<1>1. t \in [Files -> Lines] /\ t[f] \in Lines
  BY DEF Single
<1>2. /\ u[f] = Append(Tail(t[f]), Head(t[f])) /\ \A g \in Files \ {f} : u[g] = t[g]
      /\ DOMAIN u = Files
  BY <1>1 DEF MoveIn
<1>3. /\ u[f] \in Lines /\ DOMAIN u[f] = DOMAIN t[f] /\ DOMAIN t[f] = 1..Len(t[f]) /\ Len(t[f]) \in Nat
      /\ \A m \in DOMAIN t[f] : u[f][m] = t[f][IF m = Len(t[f]) THEN 1 ELSE m + 1]
  <2> DEFINE S == Seq(PinShape) \ {<<>>}
             s == t[f]
  <2>1. s \in Seq(S) /\ Len(s) > 1
    BY <1>1 DEF Lines
  <2> HIDE DEF S, s
  <2>2. /\ Tail(s) \in Seq(S) /\ Head(s) \in S /\ Len(Tail(s)) = Len(s) - 1 /\ Head(s) = s[1]
        /\ \A m \in 1..Len(s) - 1 : Tail(s)[m] = s[m + 1]
    BY <2>1
  <2>3. /\ Append(Tail(s), Head(s)) \in Seq(S) /\ Len(Append(Tail(s), Head(s))) = Len(s)
        /\ \A m \in 1..Len(s) : Append(Tail(s), Head(s))[m] = s[IF m = Len(s) THEN 1 ELSE m + 1]
    <3>1. Len(Append(Tail(s), Head(s))) = Len(s) /\ Append(Tail(s), Head(s)) \in Seq(S) /\ Len(s) \in Nat
      BY <2>1, <2>2
    <3>2. ASSUME NEW m \in 1..Len(s)
          PROVE  Append(Tail(s), Head(s))[m] = s[IF m = Len(s) THEN 1 ELSE m + 1]
      <4>1. CASE m = Len(s)
        BY <2>1, <2>2, <4>1
      <4>2. CASE m # Len(s)
        <5>0. Len(s) \in Nat
          BY <2>1
        <5>1. m \in 1..Len(s) - 1
          BY <4>2, <5>0
        <5>2. Tail(s)[m] = s[m + 1] /\ m \in 1..Len(Tail(s))
          BY <2>2, <5>0, <5>1
        <5>3. Append(Tail(s), Head(s))[m] = Tail(s)[m]
          BY <2>2, <5>2
        <5> QED
          BY <4>2, <5>2, <5>3
      <4> QED
        BY <4>1, <4>2
    <3> QED
      BY <3>1, <3>2
  <2> QED
    BY SMTT(30), <1>2, <2>1, <2>3 DEF Lines, S, s
<1>4. u \in [Files -> Lines]
  <2>1. u[f] \in Lines
    BY <1>3
  <2> QED
    BY <1>1, <1>2, <2>1 DEF MoveIn
<1>5. ASSUME NEW g \in Files, NEW l \in DOMAIN u[g]
      PROVE  DOMAIN u[g][l] = {1} /\ \A m \in DOMAIN u[g] : u[g][m][1].pkg = u[g][l][1].pkg => m = l
  <2>1. CASE g = f
    <3>1. \A m \in DOMAIN t[f] : (IF m = Len(t[f]) THEN 1 ELSE m + 1) \in DOMAIN t[f]
      BY <1>3
    <3> QED
      <4>1. PICK q \in DOMAIN t[f] : q = IF l = Len(t[f]) THEN 1 ELSE l + 1
        BY <1>3, <2>1, <3>1
      <4>2. DOMAIN u[g][l] = {1} /\ u[g][l] = t[f][q]
        BY SMTT(30), <1>3, <2>1, <4>1 DEF Single
      <4>3. ASSUME NEW m \in DOMAIN u[g], u[g][m][1].pkg = u[g][l][1].pkg PROVE m = l
        <5>1. PICK o \in DOMAIN t[f] : o = IF m = Len(t[f]) THEN 1 ELSE m + 1
          BY <1>3, <2>1, <3>1
        <5>2. u[g][m] = t[f][o]
          BY <1>3, <2>1, <5>1
        <5>3. o = q
          BY <4>2, <4>3, <5>2 DEF Single
        <5> QED
          BY <1>3, <2>1, <4>1, <5>1, <5>3
      <4> QED
        BY <4>2, <4>3
  <2>2. CASE g # f
    BY <1>2, <2>2 DEF Single
  <2> QED
    BY <2>1, <2>2
<1> QED
  BY <1>2, <1>3, <1>4, <1>5 DEF Single

\* The first foreign edit moves a line: every pin keeps its history.
LEMMA SingleMove ==
    ASSUME AppliedInv, SingleInv, UNCHANGED <<world, flags>>, edits \in Nat, edits' <= 1,
           NEW f \in Files, ForeignMove(f)
    PROVE  SingleInv'
<1>1. /\ UNCHANGED <<applied, undone, world>> /\ Files' = Files /\ Lines' = Lines
      /\ edits' = edits + 1 /\ Len(tree[f]) > 1
      /\ tree' = MoveIn(tree, f)
      /\ base' = MoveIn(base, f)
  BY DEF ForeignMove, MoveIn, Files, Lines, doneVars
<1>2. edits = 0 /\ edits' = 1
  BY <1>1
<1>3. Single(tree) /\ Single(base) /\ \A g \in Files : DOMAIN tree[g] = DOMAIN base[g] /\
             \A m \in DOMAIN tree[g] : PairOK(g, tree[g][m][1], base[g][m][1])
  BY <1>2 DEF SingleInv, Paired
<1>4. Len(base[f]) = Len(tree[f]) /\ Len(tree[f]) \in Nat /\ DOMAIN tree[f] = 1..Len(tree[f])
  BY <1>3 DEF Single, Lines
<1>5. /\ Single(tree') /\ \A g \in Files : DOMAIN tree'[g] = DOMAIN tree[g]
      /\ \A g \in Files \ {f} : tree'[g] = tree[g]
      /\ \A m \in DOMAIN tree[f] : tree'[f][m] = tree[f][IF m = Len(tree[f]) THEN 1 ELSE m + 1]
  BY <1>1, <1>3, MovedLines
<1>6. /\ Single(base') /\ \A g \in Files : DOMAIN base'[g] = DOMAIN base[g]
      /\ \A g \in Files \ {f} : base'[g] = base[g]
      /\ \A m \in DOMAIN base[f] : base'[f][m] = base[f][IF m = Len(base[f]) THEN 1 ELSE m + 1]
  BY <1>1, <1>3, <1>4, MovedLines
<1>7. Single(tree)' /\ Single(base)'
  BY <1>1, <1>5, <1>6 DEF Single
<1>8. \A g, now, was : PairOK(g, now, was) => PairOK(g, now, was)'
  BY <1>1, <1>2 DEF PairOK
<1>9. ASSUME NEW g \in Files, NEW m \in DOMAIN tree[g]
      PROVE  PairOK(g, tree'[g][m][1], base'[g][m][1])
  <2>1. CASE g = f
    <3>1. PICK q : q = IF m = Len(tree[f]) THEN 1 ELSE m + 1
      OBVIOUS
    <3>2. q \in DOMAIN tree[f] /\ tree'[f][m] = tree[f][q] /\ base'[f][m] = base[f][q]
      BY <1>1, <1>3, <1>4, <1>5, <1>6, <2>1, <3>1
    <3> QED
      BY <1>3, <2>1, <3>2
  <2>2. CASE g # f
    BY <1>3, <1>5, <1>6, <2>2
  <2> QED
    BY <2>1, <2>2
<1>10. ASSUME NEW g \in Files, NEW m \in DOMAIN tree[g]
       PROVE  PairOK(g, tree[g][m][1], base[g][m][1])'
  BY <1>8, <1>9
<1>11. Paired(tree, base)'
  BY <1>1, <1>3, <1>5, <1>6, <1>7, <1>10 DEF Paired
<1>12. UNCHANGED held
  BY DEF ForeignMove
<1> QED
  BY <1>1, <1>2, <1>11, <1>12, SingleHeld

\* Every step keeps the pairs in order, up to the first foreign edit.
LEMMA SingleStep ==
    edits \in Nat /\ AppliedInv /\ SingleInv /\ [Next]_vars => SingleInv'
<1> SUFFICES ASSUME edits \in Nat, AppliedInv, SingleInv, [Next]_vars, edits' <= 1 PROVE SingleInv'
  BY DEF SingleInv
<1>0. UNCHANGED <<world, flags>>
  BY Fixed
<1>1. CASE Foreign
  BY <1>0, <1>1, SingleBump, SingleMove DEF Foreign
<1>2. CASE Apply
  <2>1. edits <= 1
    BY <1>2 DEF Apply, Writes
  <2> QED
    BY <1>0, <1>2, <2>1, SingleApply
<1>3. CASE Revert
  <2>1. edits <= 1
    BY <1>3 DEF Revert, Writes
  <2> QED
    BY <1>0, <1>3, <2>1, SingleRevert
<1>p. ASSUME UNCHANGED <<treeVars, applied>>, undone' = undone \/ undone' = undone + 1, undone \in Nat,
             applied \in Seq(Results)
      PROVE  \A t, b : Paired(t, b) => Paired(t, b)'
  <2>1. Files' = Files /\ Lines' = Lines
    BY <1>0 DEF Files, Lines, PinShape
  <2>2. \A n \in DOMAIN applied : n > undone' => n > undone
    BY <1>p
  <2>3. \A g, now, was : PairOK(g, now, was) => PairOK(g, now, was)'
    BY <1>p, <2>2 DEF PairOK, treeVars
  <2>4. \A t : Single(t) => Single(t)'
    BY <2>1 DEF Single
  <2> QED
    BY <2>1, <2>3, <2>4 DEF Paired
<1>u. undone \in Nat /\ applied \in Seq(Results)
  BY DEF AppliedInv
<1>4. ASSUME UNCHANGED <<treeVars, undone, applied, held>> PROVE SingleInv'
  <2>1. \A t, b : Paired(t, b) => Paired(t, b)'
    BY <1>p, <1>u, <1>4
  <2>2. UNCHANGED <<tree, base, edits, held>> /\ Files' = Files
    BY <1>0, <1>4 DEF treeVars, Files
  <2>3. \A h : TreeOf(h)' = TreeOf(h) /\ BaseOf(h)' = BaseOf(h)
    BY <2>2 DEF TreeOf, BaseOf
  <2> QED
    BY <2>1, <2>2, <2>3 DEF SingleInv
<1>5. CASE \/ Cancel \/ Finished \/ UNCHANGED vars \/ Plan \/ BaselineEnd \/ FixEnd \/ VerifyEnd \/ Keep
           \/ AnswerYes \/ RevertEnd \/ (\E f : Baseline(f) \/ Verify(f))
  BY <1>4, <1>5 DEF Cancel, Finished, vars, treeVars, doneVars, Plan, BaselineEnd, FixEnd, VerifyEnd, Keep,
                    AnswerYes, RevertEnd, Baseline, Verify
<1>6. CASE RevertFails \/ \E p : ApplyFails(p)
  <2>1. /\ UNCHANGED <<treeVars, applied>> /\ (undone' = undone \/ undone' = undone + 1) /\ held' = <<>>
    BY <1>6 DEF RevertFails, ApplyFails, GivesUp, doneVars
  <2>2. \A t, b : Paired(t, b) => Paired(t, b)'
    BY <1>p, <1>u, <2>1
  <2> QED
    BY <2>1, <2>2 DEF SingleInv, treeVars
<1>7. ASSUME NEW a, Reads(a), a.file \in Files, UNCHANGED doneVars PROVE SingleInv'
  <2>1. UNCHANGED <<treeVars, undone, applied>>
    BY <1>7 DEF Reads, doneVars
  <2>2. \A t, b : Paired(t, b) => Paired(t, b)'
    BY <1>p, <1>u, <2>1
  <2>3. UNCHANGED <<tree, base, edits>> /\ Files' = Files
    BY <1>0, <2>1 DEF treeVars, Files
  <2>4. PICK h : h = held'[1]
    OBVIOUS
  <2>5. h = [args |-> a, lines |-> tree[a.file], theirs |-> base[a.file]]
    BY <1>7, <2>4 DEF Reads
  <2>6. Paired(tree, base)
    BY <2>3 DEF SingleInv
  <2>7. TreeOf(h)' = tree /\ BaseOf(h)' = base
    <3>1. tree \in [Files -> Lines] /\ base \in [Files -> Lines]
      BY <2>6 DEF Paired, Single
    <3> QED
      BY <2>3, <2>5, <3>1 DEF TreeOf, BaseOf
  <2>8. h.args.file \in Files
    BY <1>7, <2>5
  <2>9. Paired(tree, base)' /\ Paired(TreeOf(h), BaseOf(h))'
    BY <2>2, <2>3, <2>6, <2>7
  <2> QED
    BY <2>3, <2>4, <2>8, <2>9 DEF SingleInv
<1>8. ASSUME NEW p, ApplyReads(p) PROVE SingleInv'
  <2>1. ResultOf(p).file = targets[p].file /\ p \in DOMAIN targets /\ targets[p] \in SitesOf(p)
    BY <1>8 DEF ApplyReads, ResultOf, AppliedInv
  <2> QED
    BY <1>7, <1>8, <2>1, SiteMeans DEF ApplyReads
<1>9. CASE RevertReads
  <2>1. undone < Len(applied) /\ undone + 1 \in DOMAIN applied
    BY <1>u, <1>9 DEF RevertReads
  <2>2. applied[undone + 1] \in Results
    BY <1>u, <2>1
  <2>3. Reversed(applied[undone + 1]).file \in Files
    BY <2>2 DEF Results, Reversed
  <2> QED
    BY <1>7, <1>9, <2>3 DEF RevertReads
<1> QED
  BY <1>1, <1>2, <1>3, <1>5, <1>6, <1>8, <1>9 DEF Next, Session

\* Pairs in order are what FixesOnlyItsPackage asks for.
LEMMA SingleOnly ==
    ASSUME SingleInv, edits <= 1
    PROVE  FixesOnlyItsPackage
<1> SUFFICES ASSUME NEW f \in Files, NEW l \in DOMAIN tree[f], NEW i \in DOMAIN tree[f][l],
                    tree[f][l][i] # base[f][l][i]
             PROVE  \E n \in DOMAIN applied :
                            LET r == applied[n]
                            IN /\ r.file = f /\ r.pkg = tree[f][l][i].pkg /\ r.pkg = base[f][l][i].pkg
                               /\ base[f][l][i].ver = r.from /\ tree[f][l][i].ver = r.to
  BY DEF FixesOnlyItsPackage
<1>1. i = 1 /\ PairOK(f, tree[f][l][1], base[f][l][1])
  BY DEF SingleInv, Paired, Single
<1> QED
  BY <1>1 DEF PairOK

\* A session starts with the account, the tree and the pairs in order.
LEMMA StartOK ==
    ASSUME Init
    PROVE  AppliedInv /\ TreeInv /\ HeldInv /\ (OnePerLine(world) => SingleInv)
<1>1. /\ world \in Worlds /\ pc = "plan" /\ tree = world.tree /\ base = world.tree /\ edits = 0
      /\ targets = <<>> /\ todo = {} /\ applied = <<>> /\ undone = 0 /\ stuck = {} /\ held = <<>>
  BY DEF Init
<1>2. DOMAIN targets = {} /\ DOMAIN applied = {} /\ Len(applied) = 0 /\ applied \in Seq(Results)
  BY <1>1
<1>3. world.tree \in [Files -> Lines]
  BY <1>1, WorldTyped
<1>4. AppliedInv
  BY <1>1, <1>2 DEF AppliedInv
<1>5. TreeInv
  <2>1. ASSUME NEW f \in Files, NEW l \in DOMAIN tree[f], NEW i \in DOMAIN tree[f][l]
        PROVE  tree[f][l][i] = Expected(f, l, i)
    <3>1. ~Standing(f, l, i)
      BY <1>2 DEF Standing
    <3>2. tree[f][l] \in Seq(PinShape) /\ tree[f][l] = world.tree[f][l]
      BY <1>1, <1>3 DEF Lines
    <3>3. tree[f][l][i] = [pkg |-> tree[f][l][i].pkg, ver |-> tree[f][l][i].ver]
      BY <3>2, PinIs
    <3> QED
      BY <3>1, <3>2, <3>3 DEF Expected
  <2> QED
    BY <1>1, <1>3, <2>1 DEF TreeInv
<1>6. ASSUME OnePerLine(world) PROVE SingleInv
  <2>1. Single(tree)
    <3>1. ASSUME NEW f \in Files, NEW l \in DOMAIN tree[f] PROVE DOMAIN tree[f][l] = {1}
      <4>1. tree[f][l] \in Seq(PinShape) /\ Len(tree[f][l]) = 1
        BY <1>1, <1>3, <1>6 DEF Lines, OnePerLine, Files
      <4> QED
        BY <4>1
    <3> QED
      BY <1>1, <1>3, <1>6, <3>1 DEF Single, OnePerLine, Files
  <2>2. \A f, x : PairOK(f, x, x)
    BY <1>2 DEF PairOK
  <2> QED
    BY <1>1, <2>1, <2>2 DEF SingleInv, Paired
<1>7. HeldInv
  BY <1>1 DEF HeldInv
<1> QED
  BY <1>4, <1>5, <1>6, <1>7

\* No package is fixed twice, a result names a site its package was found at,
\* and the revert counts through the results it was made from.
THEOREM AppliedInvariance == Spec => []AppliedInv
<1>1. Init => AppliedInv
  BY StartOK
<1>2. AppliedInv /\ [Next]_vars => AppliedInv'
  BY AppliedStep
<1> QED
  BY <1>1, <1>2, PTL DEF Spec

(* Alone in the tree, the session writes over what it has read. *)
LEMMA HeldInvariance == Spec => []HeldInv
<1>1. Init => HeldInv
  BY StartOK
<1>2. IInv /\ HeldInv /\ [Next]_vars => HeldInv'
  BY HeldStep DEF IInv, StageInv
<1> QED
  BY <1>1, <1>2, Invariance, PTL DEF Spec

\* Alone in the tree, the session keeps every manifest at the scanned lines with
\* exactly the results that stand, those not reverted among them, written into
\* them.
THEOREM OwnTree ==
    ASSUME \A w \in Worlds : OwnPins(w)
    PROVE  Spec => []TreeInv
<1>1. Init => TreeInv
  BY StartOK
<1>2. IInv /\ AppliedInv /\ HeldInv /\ TreeInv /\ [Next]_vars => TreeInv'
  <2>1. AppliedInv => OwnPins(world)
    BY DEF AppliedInv
  <2> QED
    BY <2>1, TreeStep DEF IInv, StageInv
<1> QED
  BY <1>1, <1>2, AppliedInvariance, HeldInvariance, Invariance, PTL DEF Spec

\* Where packages carry their own versions, going through with the revert puts
\* every manifest back as it was scanned, but for the pins it reported as not
\* reverted: Revert undoes what Apply did, token by token, although it searches
\* the line afresh, and one that fails keeps none of the others from it.
THEOREM Restored ==
    ASSUME \A w \in Worlds : OwnPins(w)
    PROVE  Spec => []RevertRestores
<1>1. AppliedInv /\ TreeInv => RevertRestores
  BY TreeRestored
<1> QED
  BY <1>1, AppliedInvariance, OwnTree, PTL

\* Where packages carry their own versions, and nobody else edits, a fix moves
\* the pin of the package it reports and no other.
THEOREM OnlyItsPackage ==
    ASSUME \A w \in Worlds : OwnPins(w)
    PROVE  Spec => [](edits = 0 => FixesOnlyItsPackage)
<1>1. AppliedInv /\ TreeInv => (edits = 0 => FixesOnlyItsPackage)
  <2>1. AppliedInv => OwnPins(world)
    BY DEF AppliedInv
  <2> QED
    BY <2>1, TreeOnly
<1> QED
  BY <1>1, AppliedInvariance, OwnTree, PTL

\* On manifests of one pin a line the same holds when somebody else has moved a
\* pin or a line once, at any point of the session.  Between the read and the
\* rename of the same manifest that edit is lost, and `base`, which forgets it,
\* is what the tree is measured by.
THEOREM OnlyItsPackageShared ==
    ASSUME \A w \in Worlds : OnePerLine(w)
    PROVE  Spec => [](edits <= 1 => FixesOnlyItsPackage)
<1>1. Init => SingleInv
  <2>1. Init => world \in Worlds
    BY DEF Init
  <2> QED
    BY <2>1, StartOK
<1>2. IInv /\ AppliedInv /\ SingleInv /\ [Next]_vars => SingleInv'
  BY SingleStep DEF IInv, StageInv
<1>3. SingleInv => (edits <= 1 => FixesOnlyItsPackage)
  BY SingleOnly
<1> QED
  BY <1>1, <1>2, <1>3, AppliedInvariance, Invariance, PTL DEF Spec

-----------------------------------------------------------------------------
(* The table *)

(* What is painted is what the loop goes by, from one frame to the next: the  *)
(* row drawn as selected is the cursor's, and a line of the body shows the    *)
(* row a click on it is looked up as.                                         *)
DrawnInv ==
  phase \in {"wait", "handle"} /\ frame.kind = "table" =>
    /\ frame.selected = cursor
    /\ frame.body = [y \in chromeAbove .. chromeAbove + layout.bodyRows - 1 |-> top + y - chromeAbove]

(* Rows and screen lines are numbers. *)
NumbersInv ==
  /\ terminal \in Sizes
  /\ cursor \in Int /\ top \in Int /\ layout.bodyRows \in Int /\ event.row \in Int

TableInv == DrawnInv /\ NumbersInv

(* The cursor is on a row of the table, and what is painted fits. *)
CursorInv == cursor \in 0 .. Len(rows) - 1
FitInv == CursorInv /\ FrameFits

-----------------------------------------------------------------------------
(* Induction over the naturals, as a fact about sets. *)
LEMMA Induction ==
  ASSUME NEW T, 0 \in T, \A n \in Nat : n \in T => n + 1 \in T
  PROVE  Nat \subseteq T
<1> SUFFICES ASSUME Nat \ T # {} PROVE FALSE
  OBVIOUS
<1>1. PICK x \in Nat \ T : \A y \in Nat \ T : x <= y
  BY LeastNumber
<1>2. x - 1 \in Nat /\ x - 1 \in T
  BY <1>1
<1> QED
  BY <1>1, <1>2

Within(next, Y) == \A n \in Nat : \A y \in Y : next[n][y] \in Y
Chain(n, Y, y0, next) == \E F \in [0 .. n -> Y] : F[0] = y0 /\ \A i \in 1 .. n : F[i] = next[i][F[i - 1]]
Loop(F, N, x0, one) == \A n \in 0 .. N : F[n] = IF n = 0 THEN x0 ELSE one[F[n - 1]]
Into(one, Y) == \A y \in Y : one[y] \in Y

(* What each value of a sequence is made of the one before has such a sequence. *)
LEMMA Iterates ==
  ASSUME NEW Y, NEW y0 \in Y, NEW next, Within(next, Y)
  PROVE  \A n \in Nat : Chain(n, Y, y0, next)
<1>1. PICK T : T = {n \in Nat : \E F \in [0 .. n -> Y] :
                      F[0] = y0 /\ \A i \in 1 .. n : F[i] = next[i][F[i - 1]]}
  OBVIOUS
<1>2. 0 \in T
  <2>1. PICK F : F = [i \in 0 .. 0 |-> y0]
    OBVIOUS
  <2>2. F \in [0 .. 0 -> Y] /\ F[0] = y0
    BY <2>1
  <2> QED
    BY <1>1, <2>2
<1>3. ASSUME NEW n \in Nat, n \in T PROVE n + 1 \in T
  <2>1. PICK F \in [0 .. n -> Y] : F[0] = y0 /\ \A i \in 1 .. n : F[i] = next[i][F[i - 1]]
    BY <1>1, <1>3
  <2>2. PICK new : new = next[n + 1][F[n]]
    OBVIOUS
  <2>3. new \in Y
    <3>1. F[n] \in Y /\ n + 1 \in Nat
      BY <2>1
    <3> QED
      BY <2>2, <3>1 DEF Within
  <2>4. PICK G : G = [i \in 0 .. n + 1 |-> IF i = n + 1 THEN new ELSE F[i]]
    OBVIOUS
  <2>5. G \in [0 .. n + 1 -> Y]
    <3>1. \A i \in 0 .. n + 1 : i # n + 1 => i \in 0 .. n
      OBVIOUS
    <3> QED
      BY <2>3, <2>4, <3>1
  <2>6. \A i \in 0 .. n : G[i] = F[i]
    BY <2>4
  <2>7. G[n + 1] = new
    BY <2>4
  <2>8. G[0] = y0
    BY <2>1, <2>6
  <2>9. ASSUME NEW i \in 1 .. n + 1 PROVE G[i] = next[i][G[i - 1]]
    <3>1. CASE i = n + 1
      <4>1. i - 1 = n /\ n \in 0 .. n
        BY <3>1
      <4> QED
        BY <2>2, <2>6, <2>7, <3>1, <4>1
    <3>2. CASE i # n + 1
      <4>1. i \in 1 .. n /\ i \in 0 .. n /\ i - 1 \in 0 .. n
        BY <3>2
      <4> QED
        BY <2>1, <2>6, <4>1
    <3> QED
      BY <3>1, <3>2
  <2>10. \E H \in [0 .. n + 1 -> Y] : H[0] = y0 /\ \A i \in 1 .. n + 1 : H[i] = next[i][H[i - 1]]
    BY <2>5, <2>8, <2>9
  <2> QED
    BY <1>1, <2>10
<1>4. Nat \subseteq T
  BY <1>2, <1>3, Induction
<1> QED
  BY <1>1, <1>4 DEF Chain

(* And so has a step that is always the same. *)
LEMMA Repeats ==
  ASSUME NEW X, NEW x0 \in X, NEW one, Into(one, X), NEW N \in Nat
  PROVE  \E F \in [0 .. N -> X] : Loop(F, N, x0, one)
<1>1. PICK step : step = [n \in Nat |-> one]
  OBVIOUS
<1>2. x0 \in X /\ Within(step, X)
  BY <1>1 DEF Into, Within
<1>3. \A n \in Nat : Chain(n, X, x0, step)
  BY <1>2, Iterates
<1>4. PICK F \in [0 .. N -> X] : F[0] = x0 /\ \A i \in 1 .. N : F[i] = step[i][F[i - 1]]
  BY <1>3 DEF Chain
<1>5. ASSUME NEW n \in 0 .. N PROVE F[n] = IF n = 0 THEN x0 ELSE one[F[n - 1]]
  <2>1. CASE n = 0
    BY <1>4, <2>1
  <2>2. CASE n # 0
    <3>1. n \in 1 .. N /\ n \in Nat
      BY <2>2
    <3> QED
      BY <1>1, <1>4, <2>2, <3>1
  <2> QED
    BY <2>1, <2>2
<1> QED
  BY <1>4, <1>5 DEF Loop

(* The plan is a sequence of packages. *)
Package == [vulns : Nat, fixable : BOOLEAN, width : [Columns \ {"action"} -> Nat]]

(* The targets are packages. *)
LEMMA TargetsAre == \A t \in DOMAIN Targets : Targets[t] \in Package
<1>1. Targets \in Seq(Package)
  BY FixTableAssumption DEF Package
<1>2. PICK R : R = Package
  OBVIOUS
<1>3. Targets \in Seq(R)
  BY <1>1, <1>2
<1>4. \A t \in DOMAIN Targets : Targets[t] \in R
  BY <1>3
<1> QED
  BY <1>2, <1>4

(* The rows of the table are packages of the plan, and there are some. *)
LEMMA Rows == rows \in Seq(DOMAIN Targets) /\ Len(rows) \in Nat \ {0}
<1>1. PICK A : A = DOMAIN Targets
  OBVIOUS
<1>2. PICK of : of = [t \in DOMAIN Targets |-> [k \in 1 .. rowsOf(t) |-> t]]
  OBVIOUS
<1>3. DOMAIN Targets = 1 .. Len(Targets) /\ Len(Targets) \in Nat \ {0}
  BY FixTableAssumption
<1>4. ASSUME NEW t \in DOMAIN Targets PROVE rowsOf(t) \in Nat \ {0}
  <2>1. Targets[t] \in Package
    BY TargetsAre
  <2> QED
    BY <2>1 DEF rowsOf, Package
<1>5. \A t \in DOMAIN Targets : of[t] \in Seq(A) /\ Len(of[t]) # 0
  <2>1. ASSUME NEW t \in DOMAIN Targets PROVE of[t] \in Seq(A) /\ Len(of[t]) # 0
    <3>1. PICK n \in Nat \ {0} : n = rowsOf(t)
      BY <1>4
    <3>2. of[t] = [k \in 1 .. n |-> t]
      BY <1>2, <3>1
    <3> QED
      BY <1>1, <3>2
  <2> QED
    BY <2>1
<1>6. DOMAIN of = 1 .. Len(Targets) /\ Len(of) = Len(Targets)
  BY <1>2, <1>3
<1>7. PICK n \in Nat \ {0} : n = Len(Targets)
  BY <1>3
<1>8. \A i \in 1 .. n : of[i] \in Seq(A)
  BY <1>3, <1>5, <1>7
<1>9. \E F : F = [i \in 1 .. n |-> IF i = 1 THEN of[i] ELSE F[i - 1] \o of[i]]
  <2>1. PICK step : step = [i \in Nat |-> [s \in Seq(A) |-> IF i \in 1 .. n THEN s \o of[i] ELSE s]]
    OBVIOUS
  <2>2. Within(step, Seq(A))
    BY <1>8, <2>1 DEF Within
  <2>3. <<>> \in Seq(A)
    OBVIOUS
  <2>4. PICK F \in [0 .. n -> Seq(A)] : F[0] = <<>> /\ \A i \in 1 .. n : F[i] = step[i][F[i - 1]]
    <3>1. PICK X : X = Seq(A)
      OBVIOUS
    <3>2. PICK x0 : x0 = <<>>
      OBVIOUS
    <3>3. x0 \in X /\ Within(step, X)
      BY <2>2, <2>3, <3>1, <3>2
    <3>4. \A m \in Nat : Chain(m, X, x0, step)
      BY <3>3, Iterates
    <3> QED
      BY <3>1, <3>2, <3>4 DEF Chain
  <2>5. \A i \in 1 .. n : F[i] = F[i - 1] \o of[i]
    <3> SUFFICES ASSUME NEW i \in 1 .. n PROVE F[i] = F[i - 1] \o of[i]
      OBVIOUS
    <3>1. i \in Nat /\ i - 1 \in 0 .. n
      OBVIOUS
    <3>2. F[i - 1] \in Seq(A)
      BY <2>4, <3>1
    <3> QED
      BY <2>1, <2>4, <3>1, <3>2
  <2>6. F[1] = of[1]
    <3>1. F[1] = <<>> \o of[1]
      <4>1. 1 \in 1 .. n /\ 1 - 1 = 0
        OBVIOUS
      <4>2. F[1] = F[1 - 1] \o of[1]
        BY <2>5, <4>1
      <4> QED
        BY <2>4, <4>1, <4>2
    <3>2. of[1] \in Seq(A)
      BY <1>8
    <3> QED
      BY <3>1, <3>2
  <2>7. PICK G : G = [i \in 1 .. n |-> F[i]]
    OBVIOUS
  <2>8. \A i \in 1 .. n : G[i] = IF i = 1 THEN of[i] ELSE G[i - 1] \o of[i]
    <3> SUFFICES ASSUME NEW i \in 1 .. n, i # 1 PROVE G[i] = G[i - 1] \o of[i]
      BY <2>6, <2>7
    <3>1. i - 1 \in 1 .. n
      OBVIOUS
    <3> QED
      BY <2>5, <2>7, <3>1
  <2>9. G = [i \in 1 .. n |-> IF i = 1 THEN of[i] ELSE G[i - 1] \o of[i]]
    BY <2>7, <2>8
  <2> QED
    BY <2>9
<1>10. PICK G : G = CHOOSE F : F = [i \in 1 .. n |-> IF i = 1 THEN of[i] ELSE F[i - 1] \o of[i]]
  OBVIOUS
<1>11. G = [i \in 1 .. n |-> IF i = 1 THEN of[i] ELSE G[i - 1] \o of[i]]
  BY <1>9, <1>10
<1>12. rows = G[n]
  <2>1. FlattenSeq(of) = G[n]
    BY <1>6, <1>7, <1>10 DEF FlattenSeq
  <2>2. rows = FlattenSeq(of)
    BY <1>2 DEF rows
  <2> QED
    BY <2>1, <2>2
<1>13. \A i \in 1 .. n : G[i] \in Seq(A) /\ Len(G[i]) # 0
  <2>1. PICK T : T = {i \in Nat : i + 1 \in 1 .. n => G[i + 1] \in Seq(A) /\ Len(G[i + 1]) # 0}
    OBVIOUS
  <2>2. 0 \in T
    BY <1>3, <1>5, <1>7, <1>11, <2>1
  <2>3. ASSUME NEW i \in Nat, i \in T PROVE i + 1 \in T
    <3> SUFFICES ASSUME (i + 1) + 1 \in 1 .. n
                 PROVE  G[(i + 1) + 1] \in Seq(A) /\ Len(G[(i + 1) + 1]) # 0
      BY <2>1
    <3>1. PICK j \in 1 .. n : j = i + 1 /\ j + 1 \in 1 .. n
      OBVIOUS
    <3>2. G[j] \in Seq(A) /\ Len(G[j]) # 0
      BY <2>1, <2>3, <3>1
    <3>3. of[j + 1] \in Seq(A)
      BY <1>8, <3>1
    <3>4. G[j + 1] = G[j] \o of[j + 1]
      <4>1. j + 1 # 1 /\ (j + 1) - 1 = j
        OBVIOUS
      <4>2. \A m \in 1 .. n : m # 1 => G[m] = G[m - 1] \o of[m]
        BY <1>11
      <4> QED
        BY <3>1, <4>1, <4>2
    <3>5. G[j + 1] \in Seq(A) /\ Len(G[j + 1]) = Len(G[j]) + Len(of[j + 1])
      BY <3>2, <3>3, <3>4
    <3>6. Len(G[j]) \in Nat /\ Len(of[j + 1]) \in Nat
      BY <3>2, <3>3
    <3>7. \A p, q \in Nat : p # 0 => p + q # 0
      OBVIOUS
    <3>8. Len(G[j]) + Len(of[j + 1]) # 0
      BY <3>2, <3>6, <3>7
    <3>9. Len(G[j + 1]) # 0
      BY <3>5, <3>8
    <3> QED
      BY <3>1, <3>5, <3>9
  <2>4. Nat \subseteq T
    BY <2>2, <2>3, Induction
  <2>5. ASSUME NEW i \in 1 .. n PROVE G[i] \in Seq(A) /\ Len(G[i]) # 0
    <3>1. i - 1 \in Nat /\ (i - 1) + 1 = i
      OBVIOUS
    <3> QED
      BY <2>1, <2>4, <3>1
  <2> QED
    BY <2>5
<1> QED
  BY <1>1, <1>7, <1>12, <1>13

(* The greatest of bounded numbers. *)
LEMMA MaxOfBounded ==
  ASSUME NEW S \in SUBSET Nat, S # {}, NEW b \in Nat, \A x \in S : x <= b
  PROVE  Max(S) \in S
<1>1. PICK T : T = {n \in Nat : \E x \in S : n = b - x}
  OBVIOUS
<1>2. T \in SUBSET Nat /\ T # {}
  <2>1. PICK x \in S : TRUE
    OBVIOUS
  <2>2. x \in Nat /\ x <= b
    BY <2>1
  <2>3. b - x \in Nat
    BY <2>2
  <2> QED
    BY <1>1, <2>1, <2>3
<1>3. PICK m \in T : \A n \in T : m <= n
  BY <1>2, LeastNumber
<1>4. PICK x \in S : m = b - x
  BY <1>1, <1>3
<1>5. ASSUME NEW y \in S PROVE x >= y
  <2>1. b - y \in Nat
    OBVIOUS
  <2>2. b - y \in T
    BY <1>1, <2>1
  <2>3. m <= b - y
    BY <1>3, <2>2
  <2>4. x \in Nat /\ y \in Nat
    OBVIOUS
  <2> QED
    BY <1>4, <2>3, <2>4
<1>6. \E z \in S : \A y \in S : z >= y
  BY <1>5
<1> QED
  BY <1>6 DEF Max

(* Finitely many numbers are bounded. *)
LEMMA Bounded ==
  ASSUME NEW n \in Nat, NEW f \in [1 .. n -> Nat]
  PROVE  \E b \in Nat : \A i \in 1 .. n : f[i] <= b
<1>1. PICK T : T = {k \in Nat : k <= n => \E b \in Nat : \A i \in 1 .. k : f[i] <= b}
  OBVIOUS
<1>2. 0 \in T
  BY <1>1
<1>3. ASSUME NEW k \in Nat, k \in T PROVE k + 1 \in T
  <2> SUFFICES ASSUME k + 1 <= n PROVE \E b \in Nat : \A i \in 1 .. k + 1 : f[i] <= b
    BY <1>1
  <2>1. PICK b \in Nat : \A i \in 1 .. k : f[i] <= b
    BY <1>1, <1>3
  <2>2. k + 1 \in 1 .. n
    OBVIOUS
  <2>3. PICK x \in Nat : x = f[k + 1]
    BY <2>2
  <2>4. b + x \in Nat
    OBVIOUS
  <2>5. ASSUME NEW i \in 1 .. k + 1 PROVE f[i] <= b + x
    <3>1. CASE i = k + 1
      BY <2>3, <3>1
    <3>2. CASE i # k + 1
      <4>1. i \in 1 .. k /\ f[i] \in Nat
        BY <2>2, <3>2
      <4>2. f[i] <= b
        BY <2>1, <4>1
      <4> QED
        BY <4>1, <4>2
    <3> QED
      BY <3>1, <3>2
  <2> QED
    BY <2>4, <2>5
<1>4. Nat \subseteq T
  BY <1>2, <1>3, Induction
<1>5. n \in T /\ n <= n
  BY <1>4
<1> QED
  BY <1>1, <1>5

Widths == [Columns -> Nat]

(* The widest text of each column; an action is never wider than its floor. *)
LEMMA Grown == [c \in Columns |-> grown(c)] \in Widths /\ grown("action") <= 8
<1>1. DOMAIN Targets = 1 .. Len(Targets) /\ Len(Targets) \in Nat
  BY FixTableAssumption
<1>2. ASSUME NEW c \in Columns PROVE grown(c) \in Nat
  <2>1. PICK f : f = [t \in DOMAIN Targets |-> IF c = "action" THEN actionLabel(t) ELSE Targets[t].width[c]]
    OBVIOUS
  <2>2. ASSUME NEW t \in DOMAIN Targets PROVE f[t] \in Nat
    <3>1. CASE c = "action"
      BY <2>1, <3>1 DEF actionLabel
    <3>2. CASE c # "action"
      <4>1. Targets[t] \in Package
        BY TargetsAre
      <4>2. Targets[t].width[c] \in Nat
        BY <3>2, <4>1 DEF Package
      <4> QED
        BY <2>1, <3>2, <4>2
    <3> QED
      BY <3>1, <3>2
  <2>3. f \in [1 .. Len(Targets) -> Nat]
    BY <1>1, <2>1, <2>2
  <2>4. PICK b \in Nat : \A i \in 1 .. Len(Targets) : f[i] <= b
    BY <1>1, <2>3, Bounded
  <2>5. PICK S : S = {headers[c]} \cup {f[t] : t \in DOMAIN Targets}
    OBVIOUS
  <2>6. headers[c] \in 0 .. 13
    BY DEF headers, Columns
  <2>7. S \in SUBSET Nat /\ S # {} /\ b + 13 \in Nat
    BY <2>2, <2>5, <2>6
  <2>8. ASSUME NEW x \in S PROVE x <= b + 13
    <3>1. CASE x = headers[c]
      BY <2>6, <3>1
    <3>2. CASE x # headers[c]
      <4>1. PICK t \in DOMAIN Targets : x = f[t]
        BY <2>5, <3>2
      <4>2. x <= b /\ x \in Nat
        BY <1>1, <2>2, <2>4, <4>1
      <4> QED
        BY <4>2
    <3> QED
      BY <3>1, <3>2
  <2>9. Max(S) \in S
    BY <2>7, <2>8, MaxOfBounded
  <2>10. S = {headers[c]} \cup {IF c = "action" THEN actionLabel(t) ELSE Targets[t].width[c] : t \in DOMAIN Targets}
    BY <2>1, <2>5
  <2>11. grown(c) = Max(S)
    BY <2>10 DEF grown
  <2> QED
    BY <2>7, <2>9, <2>11
<1>3. grown("action") <= 8
  <2>1. PICK S : S = {headers["action"]} \cup {actionLabel(t) : t \in DOMAIN Targets}
    OBVIOUS
  <2>2. S \subseteq {6, 7, 8} /\ S # {}
    BY <2>1 DEF headers, actionLabel
  <2>3. S \in SUBSET Nat /\ 8 \in Nat /\ \A x \in S : x <= 8
    BY <2>2
  <2>4. Max(S) \in S
    BY <2>2, <2>3, MaxOfBounded
  <2>5. grown("action") = Max(S)
    BY <2>1 DEF grown
  <2> QED
    BY <2>3, <2>4, <2>5
<1> QED
  BY <1>2, <1>3 DEF Widths

(* The width of a table is a number, and one column less wide is one less. *)
LEMMA WidthIsNat ==
  ASSUME NEW ws \in Widths, NEW shown \in SUBSET Columns
  PROVE  tableWidth(ws, shown) \in Nat
<1>1. \A c \in Columns : (IF c \in shown THEN ws[c] + 3 ELSE 0) \in Nat
  BY DEF Widths
<1> QED
  BY <1>1 DEF tableWidth, Columns, margin

(* One place off one column is one place off the table. *)
LEMMA OneLess ==
  ASSUME NEW w0 \in Widths, NEW shown \in SUBSET Columns, NEW c \in {"vuln", "package", "fixTo"},
         c \in shown, NEW w1 \in Widths, w1[c] = w0[c] - 1, \A d \in Columns \ {c} : w1[d] = w0[d]
  PROVE  tableWidth(w1, shown) = tableWidth(w0, shown) - 1
<1>1. \A d \in Columns : w0[d] \in Nat /\ w1[d] \in Nat
  BY DEF Widths
<1>2. CASE c = "vuln"
  <2>1. w1[c] = w0[c] - 1 /\ \A d \in Columns \ {"vuln"} : w1[d] = w0[d]
    BY <1>2
  <2> QED
    BY <1>1, <1>2, <2>1 DEF tableWidth, Columns, margin
<1>3. CASE c = "package"
  <2>1. w1[c] = w0[c] - 1 /\ \A d \in Columns \ {"package"} : w1[d] = w0[d]
    BY <1>3
  <2> QED
    BY <1>1, <1>3, <2>1 DEF tableWidth, Columns, margin
<1>4. CASE c = "fixTo"
  <2>1. /\ w1["fixTo"] = w0["fixTo"] - 1 /\ "fixTo" \in shown
        /\ \A d \in Columns \ {"fixTo"} : w1[d] = w0[d]
    BY <1>4
  <2> QED
    BY <1>1, <2>1 DEF tableWidth, Columns, margin
<1> QED
  BY <1>2, <1>3, <1>4

Elastic == {"vuln", "package", "fixTo"}
atFloor(ws, a, b, floors) == LET c == wider(ws, a, b) IN ws[c] <= floors[c]

(* One turn of shrink's loop narrows nothing but one of the two columns... *)
LEMMA Kept ==
  ASSUME NEW wd \in Widths, NEW lim \in Widths, NEW l \in Elastic, NEW m \in Elastic
  PROVE  /\ narrowed(wd, l, m, lim) \in Widths
         /\ \A c \in Columns : narrowed(wd, l, m, lim)[c] <= wd[c]
         /\ \A c \in Columns \ {l, m} : narrowed(wd, l, m, lim)[c] = wd[c]
<1>1. PICK c \in {l, m} : c = wider(wd, l, m)
  BY DEF wider
<1>2. PICK vd : vd = narrowed(wd, l, m, lim)
  OBVIOUS
<1>3. vd = IF wd[c] <= lim[c] THEN wd ELSE [wd EXCEPT ![c] = wd[c] - 1]
  BY <1>1, <1>2 DEF narrowed
<1>4. \A d \in Columns : wd[d] \in Nat /\ lim[d] \in Nat
  BY DEF Widths
<1>5. c \in Columns
  BY DEF Columns, Elastic
<1>6. CASE wd[c] <= lim[c]
  BY <1>2, <1>3, <1>4, <1>6
<1>7. CASE ~(wd[c] <= lim[c])
  <2>1. vd = [wd EXCEPT ![c] = wd[c] - 1] /\ wd[c] - 1 \in Nat
    BY <1>3, <1>4, <1>5, <1>7
  <2>2. vd \in Widths /\ vd[c] = wd[c] - 1 /\ \A d \in Columns \ {c} : vd[d] = wd[d]
    BY <1>5, <2>1 DEF Widths
  <2>3. \A d \in Columns : vd[d] <= wd[d]
    BY <1>4, <1>5, <2>2
  <2> QED
    BY <1>1, <1>2, <2>2, <2>3
<1> QED
  BY <1>6, <1>7

(* ...and makes the table one place narrower, unless the wider of them is at
   its floor. *)
LEMMA Turned ==
  ASSUME NEW wd \in Widths, NEW lim \in Widths, NEW l \in Elastic, NEW m \in Elastic,
         NEW cols \in SUBSET Columns, l \in cols, m \in cols
  PROVE  /\ atFloor(wd, l, m, lim) => narrowed(wd, l, m, lim) = wd
         /\ ~atFloor(wd, l, m, lim) =>
              tableWidth(narrowed(wd, l, m, lim), cols) = tableWidth(wd, cols) - 1
<1>1. PICK c \in {l, m} : c = wider(wd, l, m)
  BY DEF wider
<1>2. PICK vd : vd = narrowed(wd, l, m, lim)
  OBVIOUS
<1>3. vd = IF wd[c] <= lim[c] THEN wd ELSE [wd EXCEPT ![c] = wd[c] - 1]
  BY <1>1, <1>2 DEF narrowed
<1>4. atFloor(wd, l, m, lim) <=> wd[c] <= lim[c]
  BY <1>1 DEF atFloor
<1>5. \A d \in Columns : wd[d] \in Nat /\ lim[d] \in Nat
  BY DEF Widths
<1>6. c \in Columns /\ c \in cols /\ c \in Elastic
  BY DEF Columns, Elastic
<1>7. CASE wd[c] <= lim[c]
  BY <1>2, <1>3, <1>4, <1>7
<1>8. CASE ~(wd[c] <= lim[c])
  <2>1. vd = [wd EXCEPT ![c] = wd[c] - 1] /\ wd[c] - 1 \in Nat
    BY <1>3, <1>5, <1>6, <1>8
  <2>2. vd \in Widths /\ vd[c] = wd[c] - 1 /\ \A d \in Columns \ {c} : vd[d] = wd[d]
    BY <1>6, <2>1 DEF Widths
  <2>3. tableWidth(vd, cols) = tableWidth(wd, cols) - 1
    BY <1>6, <2>2, OneLess DEF Elastic
  <2> QED
    BY <1>2, <1>4, <1>8, <2>3
<1> QED
  BY <1>7, <1>8

Narrower(vs, us) == \A c \in Columns : vs[c] <= us[c]

(* shrink leaves a table that fits, or one whose wider column is at its floor;
   it leaves one that fits as it is. *)
LEMMA Shrunk ==
  ASSUME NEW ws \in Widths, NEW floors \in Widths, NEW a \in Elastic, NEW b \in Elastic,
         NEW shown \in SUBSET Columns, a \in shown, b \in shown, NEW w \in Nat,
         NEW r, r = shrink(ws, shown, a, b, floors, w)
  PROVE  /\ r \in Widths /\ Narrower(r, ws)
         /\ tableWidth(ws, shown) <= w => r = ws
         /\ tableWidth(r, shown) <= w \/ atFloor(r, a, b, floors)
<1>1. PICK count : count = Most(0, tableWidth(ws, shown) - w)
  OBVIOUS
<1>2. tableWidth(ws, shown) \in Nat
  BY WidthIsNat
<1>3. /\ count \in Nat
      /\ tableWidth(ws, shown) <= w => count = 0
      /\ count # 0 => tableWidth(ws, shown) - count = w
      /\ count = 0 => tableWidth(ws, shown) <= w
  BY <1>1, <1>2 DEF Most
<1>4. \E F : F = [n \in 0 .. count |-> IF n = 0 THEN ws ELSE narrowed(F[n - 1], a, b, floors)]
  <2>1. PICK again : again = [us \in Widths |-> narrowed(us, a, b, floors)]
    OBVIOUS
  <2>2. Into(again, Widths)
    <3>1. \A us \in Widths : narrowed(us, a, b, floors) \in Widths
      BY Kept
    <3> QED
      BY <2>1, <3>1 DEF Into
  <2>3. PICK F \in [0 .. count -> Widths] : Loop(F, count, ws, again)
    <3>1. PICK X : X = Widths
      OBVIOUS
    <3>2. ws \in X /\ Into(again, X) /\ count \in Nat
      BY <1>3, <2>2, <3>1
    <3>3. \E F \in [0 .. count -> X] : Loop(F, count, ws, again)
      BY <3>2, Repeats
    <3> QED
      BY <3>1, <3>3
  <2>4. \A n \in 0 .. count : F[n] = IF n = 0 THEN ws ELSE again[F[n - 1]]
    BY <2>3 DEF Loop
  <2>5. ASSUME NEW n \in 0 .. count PROVE F[n] = IF n = 0 THEN ws ELSE narrowed(F[n - 1], a, b, floors)
    <3>1. CASE n = 0
      BY <2>4, <3>1
    <3>2. CASE n # 0
      <4>1. n - 1 \in 0 .. count
        BY <1>3, <3>2
      <4>2. F[n] = again[F[n - 1]] /\ F[n - 1] \in Widths
        BY <2>4, <3>2, <4>1
      <4> QED
        BY <2>1, <3>2, <4>2
    <3> QED
      BY <3>1, <3>2
  <2>6. F = [n \in 0 .. count |-> IF n = 0 THEN ws ELSE narrowed(F[n - 1], a, b, floors)]
    BY <2>3, <2>5
  <2> QED
    BY <2>6
<1>5. PICK turn : turn = CHOOSE F : F = [n \in 0 .. count |-> IF n = 0 THEN ws
                                                          ELSE narrowed(F[n - 1], a, b, floors)]
  OBVIOUS
<1>6. turn = [n \in 0 .. count |-> IF n = 0 THEN ws ELSE narrowed(turn[n - 1], a, b, floors)]
  BY <1>4, <1>5
<1>7. r = turn[count]
  BY <1>1, <1>5 DEF shrink
<1>8. turn[0] = ws
  <2>1. 0 \in 0 .. count
    BY <1>3
  <2> QED
    BY <1>6, <2>1
<1>9. \A n \in Nat : n + 1 \in 0 .. count => turn[n + 1] = narrowed(turn[n], a, b, floors)
  <2> SUFFICES ASSUME NEW n \in Nat, n + 1 \in 0 .. count
               PROVE  turn[n + 1] = narrowed(turn[n], a, b, floors)
    OBVIOUS
  <2>1. n + 1 # 0 /\ (n + 1) - 1 = n
    OBVIOUS
  <2>2. \A m \in 0 .. count : m # 0 => turn[m] = narrowed(turn[m - 1], a, b, floors)
    BY <1>6
  <2> QED
    BY <2>1, <2>2
<1> DEFINE So(n, us) == /\ us \in Widths
                        /\ \A c \in Columns : us[c] <= ws[c]
                        /\ \A c \in Columns \ {a, b} : us[c] = ws[c]
                        /\ \/ atFloor(us, a, b, floors)
                           \/ tableWidth(us, shown) = tableWidth(ws, shown) - n
<1>10. \A n \in 0 .. count : So(n, turn[n])
  <2>1. PICK T : T = {n \in Nat : n \in 0 .. count => So(n, turn[n])}
    OBVIOUS
  <2>2. 0 \in T
    <3>1. \A c \in Columns : ws[c] <= ws[c]
      BY DEF Widths
    <3>2. tableWidth(ws, shown) = tableWidth(ws, shown) - 0
      BY <1>2
    <3> QED
      BY <1>8, <2>1, <3>1, <3>2
  <2>3. ASSUME NEW n \in Nat, n \in T PROVE n + 1 \in T
    <3> SUFFICES ASSUME n + 1 \in 0 .. count PROVE So(n + 1, turn[n + 1])
      BY <2>1
    <3>1. n \in 0 .. count
      BY <1>3
    <3>2. So(n, turn[n])
      BY <2>1, <2>3, <3>1
    <3>3. PICK us \in Widths : us = turn[n]
      BY <3>2
    <3>4. PICK vs : vs = narrowed(us, a, b, floors)
      OBVIOUS
    <3>5. turn[n + 1] = vs
      BY <1>9, <3>3, <3>4
    <3>6. /\ vs \in Widths
          /\ \A c \in Columns : vs[c] <= us[c]
          /\ \A c \in Columns \ {a, b} : vs[c] = us[c]
          /\ atFloor(us, a, b, floors) => vs = us
          /\ ~atFloor(us, a, b, floors) => tableWidth(vs, shown) = tableWidth(us, shown) - 1
      <4>1. /\ narrowed(us, a, b, floors) \in Widths
            /\ \A c \in Columns : narrowed(us, a, b, floors)[c] <= us[c]
            /\ \A c \in Columns \ {a, b} : narrowed(us, a, b, floors)[c] = us[c]
        BY Kept
      <4>2. atFloor(us, a, b, floors) => narrowed(us, a, b, floors) = us
        BY Turned
      <4>3. ~atFloor(us, a, b, floors) =>
              tableWidth(narrowed(us, a, b, floors), shown) = tableWidth(us, shown) - 1
        BY Turned
      <4> QED
        BY <3>4, <4>1, <4>2, <4>3
    <3>7. \A c \in Columns : vs[c] <= ws[c]
      <4>1. \A c \in Columns : vs[c] \in Nat /\ us[c] \in Nat /\ ws[c] \in Nat
        BY <3>6 DEF Widths
      <4> QED
        BY <3>2, <3>3, <3>6, <4>1
    <3>8. \A c \in Columns \ {a, b} : vs[c] = ws[c]
      BY <3>2, <3>3, <3>6
    <3>9. atFloor(vs, a, b, floors) \/ tableWidth(vs, shown) = tableWidth(ws, shown) - (n + 1)
      <4>1. CASE atFloor(us, a, b, floors)
        BY <3>6, <4>1
      <4>2. CASE ~atFloor(us, a, b, floors)
        <5>1. tableWidth(us, shown) = tableWidth(ws, shown) - n
          BY <3>2, <3>3, <4>2
        <5>2. tableWidth(vs, shown) = (tableWidth(ws, shown) - n) - 1
          BY <3>6, <4>2, <5>1
        <5> QED
          BY <1>2, <5>2
      <4> QED
        BY <4>1, <4>2
    <3> QED
      BY <3>5, <3>6, <3>7, <3>8, <3>9
  <2>4. Nat \subseteq T
    BY <2>2, <2>3, Induction
  <2> QED
    BY <2>1, <2>4
<1>11. So(count, r)
  <2>1. count \in 0 .. count
    BY <1>3
  <2> QED
    BY <1>7, <1>10, <2>1
<1>12. tableWidth(ws, shown) <= w => r = ws
  BY <1>3, <1>7, <1>8
<1>13. tableWidth(r, shown) <= w \/ atFloor(r, a, b, floors)
  <2>1. CASE count = 0
    BY <1>3, <1>7, <1>8, <2>1
  <2>2. CASE count # 0
    BY <1>3, <1>11, <2>2
  <2> QED
    BY <2>1, <2>2
<1> QED
  BY <1>11, <1>12, <1>13 DEF Narrower

(* At the hard floors, the wider of two columns and so both are no wider than 8. *)
LEMMA AtTheFloor ==
  ASSUME NEW ws \in Widths, NEW a \in Elastic, NEW b \in Elastic, atFloor(ws, a, b, hardFloors)
  PROVE  ws[a] <= 8 /\ ws[b] <= 8
<1>1. hardFloors[a] = 8 /\ hardFloors[b] = 8
  BY DEF hardFloors, minWidths, hardMin, Columns, Elastic
<1>2. ws[a] \in Nat /\ ws[b] \in Nat
  BY DEF Widths, Elastic, Columns
<1> QED
  BY <1>1, <1>2 DEF atFloor, wider

(* Both floors are widths. *)
LEMMA Floors == minWidths \in Widths /\ hardFloors \in Widths
  BY DEF minWidths, hardFloors, hardMin, Widths, Columns

(* On any terminal that is not refused, the table is no wider than it. *)
LEMMA ColumnsFit ==
  ASSUME NEW room \in Nat, room >= MinWidth
  PROVE  tableWidth(columnsFor(room).widths, columnsFor(room).shown) <= room
<1>1. PICK start \in Widths : start = [c \in Columns |-> grown(c)] /\ start["action"] <= 8
  BY Grown DEF Columns
<1>2. PICK soft : soft = shrink(start, Columns, "vuln", "package", minWidths, room)
  OBVIOUS
<1>3. PICK seen : seen = kept(soft, room)
  OBVIOUS
<1>4. PICK hard : hard = shrink(soft, seen, "vuln", "package", hardFloors, room)
  OBVIOUS
<1>5. PICK last : last = shrink(hard, seen, "fixTo", "vuln", hardFloors, room)
  OBVIOUS
<1>6. columnsFor(room).widths = last /\ columnsFor(room).shown = seen
  BY <1>1, <1>2, <1>3, <1>4, <1>5 DEF columnsFor
<1>7. \A c \in Elastic : c \in Elastic /\ c \in Columns
  BY DEF Elastic, Columns
<1>8. {"vuln", "package", "fixTo"} = Elastic /\ seen \in SUBSET Columns /\ Elastic \subseteq seen
  BY <1>3, <1>7 DEF kept, Elastic, Columns
<1>9. soft \in Widths /\ Narrower(soft, start)
  <2>1. "vuln" \in Elastic /\ "package" \in Elastic /\ "vuln" \in Columns /\ "package" \in Columns
    BY DEF Elastic, Columns
  <2>2. minWidths \in Widths /\ Columns \in SUBSET Columns
    BY Floors
  <2>3. /\ start \in Widths /\ minWidths \in Widths /\ Columns \in SUBSET Columns
        /\ "vuln" \in Elastic /\ "package" \in Elastic /\ "vuln" \in Columns /\ "package" \in Columns
        /\ soft = shrink(start, Columns, "vuln", "package", minWidths, room)
    BY <1>2, <2>1, <2>2
  <2> QED
    BY <2>3, Shrunk
<1>10. /\ hard \in Widths /\ Narrower(hard, soft)
       /\ tableWidth(soft, seen) <= room => hard = soft
       /\ tableWidth(hard, seen) <= room \/ atFloor(hard, "vuln", "package", hardFloors)
  <2>1. "vuln" \in Elastic /\ "package" \in Elastic /\ "vuln" \in seen /\ "package" \in seen
    BY <1>8
  <2>2. /\ soft \in Widths /\ hardFloors \in Widths /\ seen \in SUBSET Columns
        /\ "vuln" \in Elastic /\ "package" \in Elastic /\ "vuln" \in seen /\ "package" \in seen
        /\ hard = shrink(soft, seen, "vuln", "package", hardFloors, room)
    BY <1>4, <1>8, <1>9, <2>1, Floors
  <2>3. hard \in Widths /\ Narrower(hard, soft)
    BY <2>2, Shrunk
  <2>4. tableWidth(soft, seen) <= room => hard = soft
    BY SMTT(30), <2>2, Shrunk
  <2>5. tableWidth(hard, seen) <= room \/ atFloor(hard, "vuln", "package", hardFloors)
    BY <2>2, Shrunk
  <2> QED
    BY <2>3, <2>4, <2>5
<1>11. /\ last \in Widths /\ Narrower(last, hard)
       /\ tableWidth(hard, seen) <= room => last = hard
       /\ tableWidth(last, seen) <= room \/ atFloor(last, "fixTo", "vuln", hardFloors)
  <2>1. "vuln" \in Elastic /\ "fixTo" \in Elastic /\ "vuln" \in seen /\ "fixTo" \in seen
    BY <1>8
  <2>2. /\ hard \in Widths /\ hardFloors \in Widths /\ seen \in SUBSET Columns
        /\ "vuln" \in Elastic /\ "fixTo" \in Elastic /\ "vuln" \in seen /\ "fixTo" \in seen
        /\ last = shrink(hard, seen, "fixTo", "vuln", hardFloors, room)
    BY <1>5, <1>8, <1>10, <2>1, Floors
  <2>3. last \in Widths /\ Narrower(last, hard)
    BY <2>2, Shrunk
  <2>4. tableWidth(hard, seen) <= room => last = hard
    BY <2>2, Shrunk
  <2>5. tableWidth(last, seen) <= room \/ atFloor(last, "fixTo", "vuln", hardFloors)
    BY <2>2, Shrunk
  <2> QED
    BY <2>3, <2>4, <2>5
<1>12. CASE tableWidth(hard, seen) <= room
  BY <1>6, <1>11, <1>12
<1>13. CASE ~(tableWidth(hard, seen) <= room)
  <2>1. ~(tableWidth(soft, seen) <= room)
    BY <1>10, <1>13
  <2>2. seen = Columns \ {"severity", "installed"}
    BY <1>3, <2>1 DEF kept
  <2>3. SUFFICES ASSUME ~(tableWidth(last, seen) <= room) PROVE FALSE
    BY <1>6
  <2>4. hard["vuln"] <= 8 /\ hard["package"] <= 8
    BY <1>8, <1>10, <1>13, AtTheFloor
  <2>5. last["fixTo"] <= 8 /\ last["vuln"] <= 8
    BY <1>8, <1>11, <2>3, AtTheFloor
  <2>6. \A c \in Columns : last[c] \in Nat /\ hard[c] \in Nat /\ soft[c] \in Nat /\ start[c] \in Nat
    BY <1>9, <1>10, <1>11 DEF Widths
  <2>7. last["package"] <= 8
    BY <1>11, <2>4, <2>6 DEF Columns, Narrower
  <2>8. last["action"] <= 8
    BY <1>1, <1>9, <1>10, <1>11, <2>6 DEF Columns, Narrower
  <2>9. tableWidth(last, seen) <= 46
    BY <2>2, <2>5, <2>6, <2>7, <2>8 DEF tableWidth, Columns, margin
  <2>10. tableWidth(last, seen) \in Nat
    BY <1>8, <1>11, WidthIsNat
  <2> QED
    BY <2>3, <2>9, <2>10 DEF MinWidth, margin, hardMin
<1> QED
  BY <1>12, <1>13

-----------------------------------------------------------------------------
(* Scrolling takes a number to a number. *)
LEMMA Scrolled ==
  ASSUME NEW c \in Int, NEW first \in Int, NEW body \in Int
  PROVE  scrolled(c, first, body) \in Int
<1> DEFINE up == IF c < first THEN c ELSE first
           dn == IF c >= up + body THEN c - body + 1 ELSE up
<1>1. up \in Int /\ dn \in Int
  OBVIOUS
<1>2. (IF dn > Len(rows) - body THEN Len(rows) - body ELSE dn) \in Int
  BY <1>1, Rows
<1> QED
  BY <1>2 DEF scrolled, Most

(* A layout has a number of rows. *)
LEMMA LaidOut == ASSUME NEW s \in Sizes PROVE layoutFor(s[1], s[2]).bodyRows \in Int
<1>1. layoutFor(s[1], s[2]).bodyRows = Least(Most(1, s[2] - chromeAbove - chromeBelow), Len(rows))
  BY DEF layoutFor
<1> QED
  BY <1>1, Rows, FixTableAssumption DEF Least, Most, chromeAbove, chromeBelow

(* A clamped cursor is a number. *)
LEMMA Clamped == ASSUME NEW i \in Int PROVE clamp(i) \in Int
  BY Rows DEF clamp, Most, Least

(* Where a key or a click takes the cursor. *)
LEMMA Moved == ASSUME NumbersInv PROVE movedTo \in Int /\ clicked \in Int
<1>1. /\ cursor - 1 \in Int /\ cursor + 1 \in Int
      /\ cursor - layout.bodyRows \in Int /\ cursor + layout.bodyRows \in Int
  BY DEF NumbersInv
<1>2. movedTo \in Int
  BY <1>1, Clamped, Rows DEF movedTo, NumbersInv
<1> QED
  BY <1>2 DEF clicked, NumbersInv, chromeAbove

(* A click lands on a numbered row. *)
LEMMA ReadRow == ASSUME NumbersInv, Read PROVE event'.row \in Int
<1>1. CASE event' \in Keys
  BY <1>1 DEF Keys, Key
<1>2. CASE event' \in Clicks
  BY <1>2 DEF Clicks, NumbersInv, chromeAbove
<1>3. CASE event' = Key("quit")
  BY <1>3 DEF Key
<1> QED
  BY <1>1, <1>2, <1>3 DEF Read

(* What a handler leaves behind. *)
LEMMA Handled ==
  ASSUME TableInv, NEW c \in Int, handled(c)
  PROVE  TableInv'
<1>1. top' \in Int
  BY Scrolled DEF handled, TableInv, NumbersInv
<1> QED
  BY <1>1 DEF handled, TableInv, NumbersInv, DrawnInv, Key

(* Every step keeps the invariant. *)
LEMMA TableStep == TableInv /\ [TableNext]_tvars => TableInv'
<1> SUFFICES ASSUME TableInv, [TableNext]_tvars PROVE TableInv'
  OBVIOUS
<1>1. CASE Resize
  BY <1>1 DEF Resize, TableInv, DrawnInv, NumbersInv
<1>2. CASE Paint
  <2> DEFINE lay == layoutFor(terminal[1], terminal[2])
  <2>1. lay.bodyRows \in Int
    BY LaidOut DEF TableInv, NumbersInv
  <2>2. /\ layout' = lay /\ top' = scrolled(cursor, top, lay.bodyRows)
        /\ frame' = render(lay, top', terminal[1], terminal[2])
        /\ UNCHANGED <<terminal, cursor, event>>
    BY <1>2 DEF Paint
  <2>3. top' \in Int
    BY <2>1, <2>2, Scrolled DEF TableInv, NumbersInv
  <2>4. NumbersInv'
    BY <2>1, <2>2, <2>3 DEF TableInv, NumbersInv
  <2>5. ASSUME frame'.kind = "table"
        PROVE  /\ frame'.selected = cursor
               /\ frame'.body = [y \in chromeAbove .. chromeAbove + lay.bodyRows - 1 |->
                                   top' + y - chromeAbove]
    BY <2>2, <2>5 DEF render, noFrame
  <2> QED
    BY <2>2, <2>4, <2>5 DEF TableInv, DrawnInv
<1>3. CASE Read
  <2>1. event'.row \in Int
    BY <1>3, ReadRow DEF TableInv
  <2> QED
    BY <1>3, <2>1 DEF Read, TableInv, DrawnInv, NumbersInv
<1>4. CASE Move
  BY <1>4, Handled, Moved DEF Move, TableInv
<1>5. CASE Activate \/ FixAll
  BY <1>5, Handled DEF Activate, FixAll, TableInv, NumbersInv
<1>6. CASE Click
  BY <1>6, Handled, Moved DEF Click, TableInv, NumbersInv
<1>7. CASE UNCHANGED tvars
  BY <1>7 DEF tvars, TableInv, DrawnInv, NumbersInv
<1> QED
  BY <1>1, <1>2, <1>3, <1>4, <1>5, <1>6, <1>7 DEF TableNext

(* apply touches the packages it was given. *)
LEMMA AppliesTo ==
  ASSUME NEW ts, apply(ts), NEW t \in DOMAIN state, state'[t] # state[t]
  PROVE  t \in ts
  BY DEF apply, open

-----------------------------------------------------------------------------
(* FixTable keeps its inductive invariant. *)
THEOREM TableInvariance == TableSpec => []TableInv
<1>1. TableInit => TableInv
  BY FixTableAssumption DEF TableInit, TableInv, DrawnInv, NumbersInv, Key
<1>2. TableInv /\ [TableNext]_tvars => TableInv'
  BY TableStep
<1> QED
  BY <1>1, <1>2, PTL DEF TableSpec

(* A click fixes the package drawn where it landed, enter the one drawn as
   selected, and nothing else is fixed. *)
THEOREM WhatYouSee == TableSpec => ActsOnTheShown
<1>1. ASSUME TableInv, TableNext, <<state, outcome>>' # <<state, outcome>>,
             frame.kind = "table", event.kind # "fixAll",
             NEW t \in DOMAIN state, state'[t] # state[t]
      PROVE  t \in Shown(event)
  <2>1. \/ Activate
        \/ Click /\ onRow /\ onAction /\ apply({targetAt(clicked)})
    BY <1>1 DEF TableNext, Resize, Paint, Read, Move, Click, FixAll
  <2>2. frame.selected = cursor
    BY <1>1, <2>1 DEF TableInv, DrawnInv, Activate, Click
  <2>3. CASE Activate
    BY <1>1, <2>2, <2>3, AppliesTo DEF Activate, Shown
  <2>4. CASE Click /\ onRow /\ onAction /\ apply({targetAt(clicked)})
    <3>1. event.kind = "click" /\ t = targetAt(clicked)
      BY <1>1, <2>4, AppliesTo DEF Click
    <3>2. event.row \in chromeAbove .. chromeAbove + layout.bodyRows - 1
      BY <1>1, <2>4 DEF onRow, clicked, TableInv, NumbersInv, chromeAbove
    <3>3. event.row \in DOMAIN frame.body /\ frame.body[event.row] = clicked
      BY <1>1, <2>4, <3>2 DEF TableInv, DrawnInv, Click, clicked
    <3> QED
      BY <3>1, <3>3 DEF Shown
  <2> QED
    BY <2>1, <2>3, <2>4
<1>2. TableInv /\ [TableNext]_tvars =>
        [ /\ <<state, outcome>>' # <<state, outcome>>
          /\ frame.kind = "table" /\ event.kind # "fixAll"
          => \A t \in DOMAIN state : state'[t] # state[t] => t \in Shown(event) ]_tvars
  BY <1>1
<1> QED
  BY <1>2, TableInvariance, PTL DEF TableSpec, ActsOnTheShown

-----------------------------------------------------------------------------
(* The selected row is among the visible ones. *)
LEMMA InView ==
  ASSUME NEW c \in 0 .. Len(rows) - 1, NEW first \in Int, NEW body \in 1 .. Len(rows)
  PROVE  LET t == scrolled(c, first, body) IN t \in Int /\ t <= c /\ c < t + body
<1> DEFINE up == IF c < first THEN c ELSE first
           dn == IF c >= up + body THEN c - body + 1 ELSE up
           at == IF dn > Len(rows) - body THEN Len(rows) - body ELSE dn
<1>1. PICK n \in Nat : n = Len(rows)
  BY Rows
<1>2. c \in 0 .. n - 1 /\ body \in 1 .. n
  BY <1>1
<1>3. up \in Int /\ up <= c
  BY <1>2
<1>4. dn \in Int /\ dn <= c /\ c < dn + body
  BY <1>2, <1>3
<1>5. at = IF dn > n - body THEN n - body ELSE dn
  BY <1>1
<1>6. at \in Int /\ at <= c /\ c < at + body
  BY <1>2, <1>4, <1>5
<1>7. scrolled(c, first, body) = Most(0, at)
  BY DEF scrolled
<1> QED
  BY <1>2, <1>6, <1>7 DEF Most

(* A frame is no larger than the terminal it is painted for. *)
LEMMA Painted ==
  ASSUME TableInv, CursorInv, Paint
  PROVE  FrameFits'
<1>1. PICK w \in Nat, h \in Nat : terminal[1] = w /\ terminal[2] = h
  BY FixTableAssumption DEF TableInv, NumbersInv
<1>2. PICK lay : lay = layoutFor(w, h)
  OBVIOUS
<1>3. /\ layout' = lay /\ top' = scrolled(cursor, top, lay.bodyRows) /\ cursor' = cursor
      /\ frame' = render(lay, top', w, h)
  BY <1>1, <1>2 DEF Paint
<1>4. CASE w < MinWidth \/ h < MinHeight
  <2>1. frame' = [noFrame EXCEPT !.kind = "tooSmall", !.size = <<w, h>>, !.lines = Least(8, h), !.width = w]
    BY <1>3, <1>4 DEF render
  <2>2. /\ frame'.kind = "tooSmall" /\ frame'.size = <<w, h>>
        /\ frame'.lines = Least(8, h) /\ frame'.width = w
    BY <2>1 DEF noFrame
  <2>3. Least(8, h) <= h
    BY DEF Least
  <2> QED
    BY <2>2, <2>3 DEF FrameFits
<1>5. CASE ~(w < MinWidth \/ h < MinHeight)
  <2>1. PICK n \in Nat \ {0} : n = Len(rows)
    BY Rows
  <2>2. lay.bodyRows = Least(Most(1, h - 12), n)
    BY <1>2, <2>1 DEF layoutFor, chromeAbove, chromeBelow
  <2>3. PICK body \in 1 .. n : body = lay.bodyRows /\ body <= h - 12
    BY <1>5, <2>2 DEF Least, Most, MinHeight, chromeAbove, chromeBelow
  <2>4. /\ frame'.kind = "table" /\ frame'.size = <<w, h>> /\ frame'.selected = cursor
        /\ frame'.body = [y \in 6 .. 6 + body - 1 |-> top' + y - 6]
        /\ frame'.lines = 6 + body + 6
        /\ frame'.width = tableWidth(lay.widths, lay.shown)
    BY <1>3, <1>5, <2>3 DEF render, chromeAbove, chromeBelow
  <2>5. frame'.lines <= h
    BY <2>3, <2>4
  <2>6. frame'.width <= w
    <3>1. lay.widths = columnsFor(w).widths /\ lay.shown = columnsFor(w).shown
      BY <1>2 DEF layoutFor
    <3>2. w >= MinWidth
      BY <1>5 DEF MinWidth, margin, hardMin
    <3>3. tableWidth(columnsFor(w).widths, columnsFor(w).shown) <= w
      BY <3>2, ColumnsFit
    <3> QED
      BY <2>4, <3>1, <3>3
  <2>7. PICK c \in Int, t \in Int : c = cursor /\ t = top' /\ t <= c /\ c < t + body
    <3>1. top' \in Int /\ top' <= cursor /\ cursor < top' + body
      BY <1>3, <2>1, <2>3, InView DEF TableInv, NumbersInv, CursorInv
    <3> QED
      BY <3>1 DEF TableInv, NumbersInv
  <2>8. PICK y \in 6 .. 6 + body - 1 : y = 6 + c - t /\ t + y - 6 = c
    <3>1. t <= c /\ c < t + body /\ body \in Int
      BY <2>3, <2>7
    <3>2. 6 + c - t \in 6 .. 6 + body - 1 /\ t + (6 + c - t) - 6 = c
      BY <3>1
    <3> QED
      BY <3>2
  <2>9. frame'.body[y] = t + y - 6 /\ y \in DOMAIN frame'.body
    BY <2>4, <2>7, <2>8
  <2>10. cursor \in Range(frame'.body)
    BY <2>7, <2>8, <2>9 DEF Range
  <2> QED
    BY <1>3, <2>4, <2>5, <2>6, <2>10 DEF FrameFits
<1> QED
  BY <1>4, <1>5

(* A key or a click leaves the cursor on a row. *)
LEMMA OnARow == ASSUME TableInv, CursorInv PROVE movedTo \in 0 .. Len(rows) - 1
<1>1. PICK n \in Nat \ {0} : n = Len(rows)
  BY Rows
<1>2. \A i \in Int : clamp(i) \in 0 .. n - 1
  BY <1>1 DEF clamp, Most, Least
<1>3. /\ cursor - 1 \in Int /\ cursor + 1 \in Int
      /\ cursor - layout.bodyRows \in Int /\ cursor + layout.bodyRows \in Int
  BY DEF TableInv, NumbersInv
<1>4. 0 \in 0 .. n - 1 /\ n - 1 \in 0 .. n - 1
  OBVIOUS
<1> QED
  BY <1>1, <1>2, <1>3, <1>4 DEF movedTo, CursorInv

(* Every step keeps the cursor on a row and the frame within its terminal. *)
LEMMA FitStep == TableInv /\ FitInv /\ [TableNext]_tvars => FitInv'
<1> SUFFICES ASSUME TableInv, FitInv, [TableNext]_tvars PROVE FitInv'
  OBVIOUS
<1> USE DEF FitInv
<1>1. CASE Paint
  BY <1>1, Painted DEF Paint, CursorInv
<1>2. CASE Resize
  BY <1>2 DEF Resize, CursorInv, FrameFits
<1>3. CASE Read
  BY <1>3 DEF Read, CursorInv, FrameFits
<1>4. CASE Move
  BY <1>4, OnARow DEF Move, handled, CursorInv, FrameFits
<1>5. CASE Activate \/ FixAll
  BY <1>5 DEF Activate, FixAll, handled, CursorInv, FrameFits
<1>6. CASE Click
  BY <1>6 DEF Click, onRow, handled, CursorInv, FrameFits
<1>7. CASE UNCHANGED tvars
  BY <1>7 DEF tvars, CursorInv, FrameFits
<1> QED
  BY <1>1, <1>2, <1>3, <1>4, <1>5, <1>6, <1>7 DEF TableNext

(* No frame scrolls or wraps on the terminal it was painted for, and the
   selected row is on it. *)
THEOREM Fits == TableSpec => []FrameFits
<1>1. TableInit => FitInv
  <2>1. TableInit => 0 \in 0 .. Len(rows) - 1
    BY Rows
  <2> QED
    BY <2>1 DEF TableInit, FitInv, CursorInv, FrameFits
<1>2. TableInv /\ FitInv /\ [TableNext]_tvars => FitInv'
  BY FitStep
<1>3. FitInv => FrameFits
  BY DEF FitInv
<1> QED
  BY <1>1, <1>2, <1>3, TableInvariance, PTL DEF TableSpec
=============================================================================
