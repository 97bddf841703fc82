--------------------------- MODULE ScanApp_proofs ---------------------------
(***************************************************************************)
(* Proofs about ScanApp, for any components, targets, configurations and   *)
(* number of queries in flight: what the exit code and the documents say   *)
(* of a target is true of it.                                              *)
(***************************************************************************)
EXTENDS ScanApp, TLAPS, FiniteSetTheorems

Places == {"start", "acquire", "osv", "kev", "eol", "comply", "emit", "fix", "gate", "done"}

\* Where there is an inventory of the target.
Working == Places \ {"start", "acquire", "done"}

(* The inductive invariant.                                                *)

Inventories == [comps : SUBSET Comps, vulns : SUBSET Comps, kev : SUBSET Comps,
                eol : SUBSET Comps, gaps : SUBSET Frameworks, unchecked : Nat]

\* The range of the variables the proof needs one of.
TypeInv ==
    /\ cfg \in Configs /\ world \in Worlds
    /\ pc \in Places
    /\ exit \in {"none", "ok", "policy", "fatal"}
    /\ target \in Nat \ {0} /\ nextOut \in Nat \ {0}
    /\ inv \in Inventories
    /\ DOMAIN docs = 1..Len(cfg.outputs)
    /\ gateErr \in BOOLEAN /\ edited \in BOOLEAN

\* A command past its validation has a valid configuration and works on one of
\* its targets; only a k8s command has another one than the first.
FlowInv ==
    /\ exit = "none" <=> pc # "done"
    /\ pc \notin {"start", "done"} => Valid
    /\ pc # "start" => target \in DOMAIN world \/ LastTarget = 0
    /\ pc \notin {"start", "done"} => target \in DOMAIN world
    /\ cfg.source # "k8s" => LastTarget = 1 /\ target = 1
    /\ pc = "start" => target = 1
    /\ pc \notin {"osv", "done"} => flying = {}

\* OSV is asked about c.
Asked(c) == c.purl /\ (cfg.tests \/ ~c.test)

\* What the overlays attached is true of the target; and where the policy asks
\* for it, it is all there is, once the overlay had its turn.
KnowInv ==
    pc \in Working =>
        /\ inv.comps = world[target]
        /\ \A c \in inv.vulns : c \in world[target] /\ Asked(c) /\ c.vuln # "none"
        /\ \A c \in inv.kev : c \in inv.vulns /\ c.vuln = "kev"
        /\ \A c \in inv.eol : c \in world[target] /\ c.eol
        /\ \A c \in waiting \cup flying : c \in world[target] /\ Asked(c)
        /\ pc # "osv" => waiting = {} /\ flying = {}
        /\ cfg.cve /\ inv.unchecked = 0 =>
              \A c \in world[target] :
                 Asked(c) /\ c.vuln # "none" => c \in inv.vulns \cup waiting \cup flying
        /\ pc # "osv" /\ ReferencesCVE => inv.unchecked = 0
        /\ pc \notin {"osv", "kev"} /\ References("kev") =>
              \A c \in inv.vulns : c.vuln = "kev" => c \in inv.kev
        /\ pc \notin {"osv", "kev", "eol"} /\ References("eol") =>
              \A c \in world[target] : c.eol => c \in inv.eol
        /\ pc \in {"emit", "fix", "gate"} =>
              /\ cfg.comply \subseteq Frameworks
              /\ inv.gaps = Evaluate(inv.comps)

\* Only emit moves from one output to the next, and the fixer runs behind it,
\* in commands with one target.
OrderInv ==
    /\ pc \notin {"emit", "done"} => nextOut = 1
    /\ pc = "emit" => \A o \in DOMAIN docs : o < nextOut => docs[o].target = target
    /\ pc = "fix" => cfg.fix /\ \A o \in DOMAIN docs : docs[o].target = target
    /\ edited => /\ pc \in {"gate", "done"} /\ cfg.source = "fs"
                 /\ \A o \in DOMAIN docs : docs[o].target = target

\* What one document says.
DocOf(o) ==
    docs[o] # Blank =>
        /\ "gaps" \in Carries(cfg.outputs[o]) =>
              docs[o].shows.gaps = Evaluate(docs[o].shows.comps)
        /\ cfg.cve /\ {"vulns", "unchecked"} \subseteq Carries(cfg.outputs[o]) => ~Silent(o)
DocInv == \A o \in DOMAIN docs : DocOf(o)

\* An image on which the gate tripped is not among those given up on.
RedInv ==
    /\ exit = "policy" => gateErr
    /\ pc # "done" => target \notin skipped
    /\ skipped \subseteq 1..target
    /\ gateErr => \E t \in DOMAIN world \ skipped :
                      (pc # "done" => t < target) /\ Matches(Truth(t))

IInv ==
    /\ TypeInv /\ FlowInv /\ KnowInv /\ OrderInv /\ DocInv
    /\ RedInv /\ GreenIsHonestForOneTarget

-----------------------------------------------------------------------------
\* The targets are numbered.
LEMMA Numbered == ASSUME TypeInv PROVE LastTarget \in Nat /\ DOMAIN world = 1..LastTarget
<1>1. PICK n \in Nat : world \in [1..n -> SUBSET Comps]
  <2>1. world \in Seq(SUBSET Comps)
    BY ScanAppAssumption DEF TypeInv
  <2> QED
    BY <2>1
<1>2. DOMAIN world = 1..n
  BY <1>1
<1>3. Cardinality(1..n) = n
  <2>1. 1 \in Int /\ n \in Int
    OBVIOUS
  <2>2. Cardinality(1..n) = IF 1 > n THEN 0 ELSE n - 1 + 1
    BY <2>1, FS_Interval
  <2> QED
    BY <2>2
<1> QED
  BY <1>1, <1>2, <1>3 DEF LastTarget

\* So are the outputs.
LEMMA Listed ==
    ASSUME cfg \in Configs
    PROVE  Len(cfg.outputs) \in Nat /\ DOMAIN cfg.outputs = 1..Len(cfg.outputs)
  BY ScanAppAssumption

\* What a target holds are components.
LEMMA Held == ASSUME TypeInv, NEW t \in DOMAIN world PROVE world[t] \subseteq Comps
  BY ScanAppAssumption DEF TypeInv

\* A clause other than a compliance selector is made of the four terms.
LEMMA Terms ==
    ASSUME cfg \in Configs, NEW clause \in cfg.policy, ~IsGap(clause)
    PROVE  clause \subseteq {"cve", "kev", "eol", "high"}
  BY ScanAppAssumption

\* More facts never satisfy a clause less.
LEMMA HoldsMono ==
    ASSUME cfg \in Configs, NEW f, NEW g, NEW clause \in cfg.policy,
           f.comps \subseteq g.comps,
           References("cve") => f.vulns \subseteq g.vulns,
           References("kev") => f.kev \subseteq g.kev,
           References("eol") => f.eol \subseteq g.eol,
           IsGap(clause) => (GapMatches(clause, f) => GapMatches(clause, g)),
           Holds(clause, f)
    PROVE  Holds(clause, g)
<1>1. CASE IsGap(clause)
  BY <1>1 DEF Holds
<1>2. CASE ~IsGap(clause)
  <2>1. clause \subseteq {"cve", "kev", "eol", "high"}
    BY <1>2, Terms
  <2>2. PICK c \in f.comps : /\ cfg.tests \/ ~c.test
                             /\ \A term \in clause : TermHolds(term, c, f)
    BY <1>2 DEF Holds
  <2>3. ASSUME NEW term \in clause PROVE TermHolds(term, c, g)
    BY <2>1, <2>2 DEF TermHolds, References
  <2> QED
    BY <1>2, <2>2, <2>3 DEF Holds
<1> QED
  BY <1>1, <1>2

\* The truth does not move.
LEMMA Fixed == [Next]_vars => UNCHANGED fixedVars
  BY DEF Next, Step, vars, fixedVars, Cancel, Finished, Refuse, Start, ScanFails, Scan, Launch,
         Answer, QueryFails, OsvEnd, KevLoads, KevFails, EolOff, EolLoads, EolFails, Comply, Emit,
         EmitFails, EmitEnd, Fix, FixFails, Gate, PipelineFails, Proceed

\* While the options and the scanned tree stand, so does what a clause matches.
LEMMA FixedHolds ==
    ASSUME UNCHANGED fixedVars, NEW t, NEW clause
    PROVE  Holds(clause, Truth(t))' <=> Holds(clause, Truth(t))
  BY DEF fixedVars, Holds, Truth, TermHolds, GapIn, IsGap, GapMatches

LEMMA FixedMatches ==
    ASSUME UNCHANGED fixedVars, NEW t
    PROVE  Matches(Truth(t))' <=> Matches(Truth(t))
<1>1. cfg' = cfg
  BY DEF fixedVars
<1> QED
  BY <1>1, FixedHolds DEF Matches

\* Every step keeps every variable in its range.
LEMMA TypeStep == TypeInv /\ FlowInv /\ [Next]_vars => TypeInv'
<1> SUFFICES ASSUME TypeInv, FlowInv, [Next]_vars PROVE TypeInv'
  OBVIOUS
<1> USE ScanAppAssumption DEF TypeInv, Places, Inventories, fixedVars, osvVars, outVars, tailVars
<1>1. CASE Cancel
  BY <1>1 DEF Cancel
<1>2. CASE Refuse
  BY <1>2 DEF Refuse, Leave
<1>3. CASE Start
  BY <1>3 DEF Start, Leave
<1>4. CASE ScanFails
  BY <1>4 DEF ScanFails, PipelineFails, Leave, Advance
<1>5. CASE Scan
  <2>1. world[target] \subseteq Comps
    BY <1>5, Held DEF FlowInv, Scan
  <2> QED
    BY <1>5, <2>1 DEF Scan, Proceed, NoInventory
<1>6. ASSUME NEW c \in Comps, Launch(c) PROVE TypeInv'
  BY <1>6 DEF Launch, Proceed
<1>7. ASSUME NEW c \in Comps, Answer(c) PROVE TypeInv'
  BY <1>7 DEF Answer, Proceed
<1>8. ASSUME NEW c \in Comps, QueryFails(c) PROVE TypeInv'
  <2>1. PICK n \in Nat : n = inv.unchecked + 1
    OBVIOUS
  <2>2. inv' = [inv EXCEPT !.unchecked = n]
    BY <1>8, <2>1 DEF QueryFails
  <2>3. inv' \in Inventories
    BY <2>2
  <2> QED
    BY <1>8, <2>3 DEF QueryFails, Proceed
<1>9. CASE OsvEnd
  BY <1>9 DEF OsvEnd, PipelineFails, Leave, Advance, Proceed
<1>10. CASE KevLoads
  BY <1>10 DEF KevLoads, Proceed
<1>11. CASE KevFails
  BY <1>11 DEF KevFails, PipelineFails, Leave, Advance, Proceed
<1>12. CASE EolOff
  BY <1>12 DEF EolOff, Proceed
<1>13. CASE EolLoads
  BY <1>13 DEF EolLoads, Proceed
<1>14. CASE EolFails
  BY <1>14 DEF EolFails, PipelineFails, Leave, Advance, Proceed
<1>15. CASE Comply
  <2>1. CASE ~(cfg.comply \subseteq Frameworks)
    BY <1>15, <2>1 DEF Comply, PipelineFails, Leave, Advance
  <2>2. CASE cfg.comply \subseteq Frameworks
    <3>1. PICK g \in SUBSET Frameworks : inv' = [inv EXCEPT !.gaps = g]
      BY <1>15, <2>2 DEF Comply, Evaluate
    <3>2. inv' \in Inventories
      BY <3>1
    <3> QED
      BY <1>15, <2>2, <3>2 DEF Comply, Proceed
  <2> QED
    BY <2>1, <2>2
<1>16. CASE Emit
  BY <1>16 DEF Emit
<1>17. CASE EmitFails
  BY <1>17 DEF EmitFails, Leave
<1>18. CASE EmitEnd
  BY <1>18 DEF EmitEnd
<1>19. CASE Fix
  BY <1>19 DEF Fix
<1>20. CASE FixFails
  BY <1>20 DEF FixFails, Leave
<1>21. CASE Gate
  BY <1>21 DEF Gate, Leave, Advance
<1>22. CASE UNCHANGED vars
  BY <1>22 DEF vars
<1> QED
  BY <1>1, <1>2, <1>3, <1>4, <1>5, <1>6, <1>7, <1>8, <1>9, <1>10, <1>11, <1>12, <1>13, <1>14,
       <1>15, <1>16, <1>17, <1>18, <1>19, <1>20, <1>21, <1>22 DEF Next, Step, Finished

\* Every step keeps the command on its way.
LEMMA FlowStep == TypeInv /\ FlowInv /\ [Next]_vars => FlowInv'
<1> SUFFICES ASSUME TypeInv, FlowInv, [Next]_vars PROVE FlowInv'
  OBVIOUS
<1> USE Numbered DEF TypeInv, FlowInv, Places, fixedVars, osvVars, outVars, tailVars, LastTarget,
     Valid, References, ReferencesCVE, ReferencesCompliance
<1>1. CASE Cancel
  BY <1>1 DEF Cancel
<1>2. CASE Refuse
  BY <1>2 DEF Refuse, Leave
<1>3. CASE Start
  BY <1>3 DEF Start, Leave
<1>4. CASE ScanFails
  BY <1>4 DEF ScanFails, PipelineFails, Leave, Advance
<1>5. CASE Scan
  BY <1>5 DEF Scan, Proceed, NoInventory
<1>6. ASSUME NEW c \in Comps, Launch(c) PROVE FlowInv'
  BY <1>6 DEF Launch, Proceed
<1>7. ASSUME NEW c \in Comps, Answer(c) PROVE FlowInv'
  BY <1>7 DEF Answer, Proceed
<1>8. ASSUME NEW c \in Comps, QueryFails(c) PROVE FlowInv'
  BY <1>8 DEF QueryFails, Proceed
<1>9. CASE OsvEnd
  BY <1>9 DEF OsvEnd, PipelineFails, Leave, Advance, Proceed
<1>10. CASE KevLoads
  BY <1>10 DEF KevLoads, Proceed
<1>11. CASE KevFails
  BY <1>11 DEF KevFails, PipelineFails, Leave, Advance, Proceed
<1>12. CASE EolOff
  BY <1>12 DEF EolOff, Proceed
<1>13. CASE EolLoads
  BY <1>13 DEF EolLoads, Proceed
<1>14. CASE EolFails
  BY <1>14 DEF EolFails, PipelineFails, Leave, Advance, Proceed
<1>15. CASE Comply
  BY <1>15 DEF Comply, PipelineFails, Leave, Advance, Proceed
<1>16. CASE Emit
  BY <1>16 DEF Emit
<1>17. CASE EmitFails
  BY <1>17 DEF EmitFails, Leave
<1>18. CASE EmitEnd
  BY <1>18 DEF EmitEnd
<1>19. CASE Fix
  BY <1>19 DEF Fix
<1>20. CASE FixFails
  BY <1>20 DEF FixFails, Leave
<1>21. CASE Gate
  BY <1>21 DEF Gate, Leave, Advance
<1>22. CASE UNCHANGED vars
  BY <1>22 DEF vars
<1> QED
  BY <1>1, <1>2, <1>3, <1>4, <1>5, <1>6, <1>7, <1>8, <1>9, <1>10, <1>11, <1>12, <1>13, <1>14,
       <1>15, <1>16, <1>17, <1>18, <1>19, <1>20, <1>21, <1>22 DEF Next, Step, Finished

\* Every step keeps what is known of the target.
LEMMA KnowStep == TypeInv /\ FlowInv /\ KnowInv /\ [Next]_vars => KnowInv'
<1> SUFFICES ASSUME TypeInv, FlowInv, KnowInv, [Next]_vars PROVE KnowInv'
  OBVIOUS
<1> USE DEF TypeInv, FlowInv, KnowInv, Places, Working, Inventories, fixedVars, osvVars, Asked,
     Valid, References, ReferencesCVE
<1>1. CASE Cancel
  BY <1>1 DEF Cancel, Evaluate, GapIn
<1>2. CASE Refuse
  BY <1>2 DEF Refuse, Leave
<1>3. CASE Start
  BY <1>3 DEF Start, Leave
<1>4. CASE ScanFails
  BY <1>4 DEF ScanFails, PipelineFails, Leave, Advance
<1>5. CASE Scan
  BY <1>5 DEF Scan, Proceed, NoInventory
<1>6. ASSUME NEW c \in Comps, Launch(c) PROVE KnowInv'
  BY <1>6 DEF Launch, Proceed
<1>7. ASSUME NEW c \in Comps, Answer(c) PROVE KnowInv'
  BY <1>7 DEF Answer, Proceed
<1>8. ASSUME NEW c \in Comps, QueryFails(c) PROVE KnowInv'
  BY <1>8 DEF QueryFails, Proceed
<1>9. CASE OsvEnd
  BY <1>9 DEF OsvEnd, PipelineFails, Leave, Advance, Proceed
<1>10. CASE KevLoads
  BY <1>10 DEF KevLoads, Proceed
<1>11. CASE KevFails
  BY <1>11 DEF KevFails, PipelineFails, Leave, Advance, Proceed
<1>12. CASE EolOff
  BY <1>12 DEF EolOff, Proceed
<1>13. CASE EolLoads
  BY <1>13 DEF EolLoads, Proceed
<1>14. CASE EolFails
  BY <1>14 DEF EolFails, PipelineFails, Leave, Advance, Proceed
<1>15. CASE Comply
  <2>1. CASE ~(cfg.comply \subseteq Frameworks)
    BY <1>15, <2>1 DEF Comply, PipelineFails, Leave, Advance
  <2>2. CASE cfg.comply \subseteq Frameworks
    <3>1. inv' = [inv EXCEPT !.gaps = Evaluate(inv.comps)] /\ UNCHANGED fixedVars
      BY <1>15, <2>2 DEF Comply, Proceed
    <3>2. Evaluate(inv.comps)' = Evaluate(inv.comps)
      BY <3>1 DEF Evaluate, GapIn
    <3>3. inv'.gaps = Evaluate(inv.comps)
      BY <3>1
    <3> QED
      BY <1>15, <2>2, <3>1, <3>2, <3>3 DEF Comply, Proceed
  <2> QED
    BY <2>1, <2>2
<1>16. CASE Emit
  BY <1>16 DEF Emit, Evaluate, GapIn
<1>17. CASE EmitFails
  BY <1>17 DEF EmitFails, Leave
<1>18. CASE EmitEnd
  BY <1>18 DEF EmitEnd, Evaluate, GapIn
<1>19. CASE Fix
  BY <1>19 DEF Fix, Evaluate, GapIn
<1>20. CASE FixFails
  BY <1>20 DEF FixFails, Leave
<1>21. CASE Gate
  BY <1>21 DEF Gate, Leave, Advance
<1>22. CASE UNCHANGED vars
  BY <1>22 DEF vars, Evaluate, GapIn
<1> QED
  BY <1>1, <1>2, <1>3, <1>4, <1>5, <1>6, <1>7, <1>8, <1>9, <1>10, <1>11, <1>12, <1>13, <1>14,
       <1>15, <1>16, <1>17, <1>18, <1>19, <1>20, <1>21, <1>22 DEF Next, Step, Finished

\* Every step keeps the outputs in order.
LEMMA OrderStep == TypeInv /\ FlowInv /\ OrderInv /\ [Next]_vars => OrderInv'
<1> SUFFICES ASSUME TypeInv, FlowInv, OrderInv, [Next]_vars PROVE OrderInv'
  OBVIOUS
<1> USE DEF TypeInv, FlowInv, OrderInv, Places, fixedVars, outVars, tailVars, Valid, Blank
<1>1. CASE Cancel
  BY <1>1 DEF Cancel
<1>2. CASE Refuse
  BY <1>2 DEF Refuse, Leave
<1>3. CASE Start
  BY <1>3 DEF Start, Leave
<1>4. CASE ScanFails
  BY <1>4 DEF ScanFails, PipelineFails, Leave, Advance
<1>5. CASE Scan
  BY <1>5 DEF Scan, Proceed, NoInventory
<1>6. ASSUME NEW c \in Comps, Launch(c) PROVE OrderInv'
  BY <1>6 DEF Launch, Proceed
<1>7. ASSUME NEW c \in Comps, Answer(c) PROVE OrderInv'
  BY <1>7 DEF Answer, Proceed
<1>8. ASSUME NEW c \in Comps, QueryFails(c) PROVE OrderInv'
  BY <1>8 DEF QueryFails, Proceed
<1>9. CASE OsvEnd
  BY <1>9 DEF OsvEnd, PipelineFails, Leave, Advance, Proceed
<1>10. CASE KevLoads
  BY <1>10 DEF KevLoads, Proceed
<1>11. CASE KevFails
  BY <1>11 DEF KevFails, PipelineFails, Leave, Advance, Proceed
<1>12. CASE EolOff
  BY <1>12 DEF EolOff, Proceed
<1>13. CASE EolLoads
  BY <1>13 DEF EolLoads, Proceed
<1>14. CASE EolFails
  BY <1>14 DEF EolFails, PipelineFails, Leave, Advance, Proceed
<1>15. CASE Comply
  <2>1. CASE pc' = "emit"
    <3>1. nextOut' = 1 /\ ~edited'
      BY <1>15, <2>1 DEF Comply, PipelineFails, Leave, Advance, Proceed
    <3>2. DOMAIN docs' = 1..Len(cfg.outputs)
      BY <1>15, <2>1 DEF Comply, PipelineFails, Leave, Advance, Proceed
    <3>3. \A o \in 1..Len(cfg.outputs) : ~(o < 1)
      OBVIOUS
    <3> QED
      BY <2>1, <3>1, <3>2, <3>3
  <2>2. CASE pc' # "emit"
    BY <1>15, <2>2 DEF Comply, PipelineFails, Leave, Advance, Proceed
  <2> QED
    BY <2>1, <2>2
<1>16. CASE Emit
  BY <1>16 DEF Emit
<1>17. CASE EmitFails
  BY <1>17 DEF EmitFails, Leave
<1>18. CASE EmitEnd
  <2>1. nextOut > Len(cfg.outputs) /\ Len(cfg.outputs) \in Nat
    BY <1>18, Listed DEF EmitEnd
  <2> QED
    BY <1>18, <2>1 DEF EmitEnd
<1>19. CASE Fix
  BY <1>19 DEF Fix
<1>20. CASE FixFails
  BY <1>20 DEF FixFails, Leave
<1>21. CASE Gate
  BY <1>21 DEF Gate, Leave, Advance
<1>22. CASE UNCHANGED vars
  BY <1>22 DEF vars
<1> QED
  BY <1>1, <1>2, <1>3, <1>4, <1>5, <1>6, <1>7, <1>8, <1>9, <1>10, <1>11, <1>12, <1>13, <1>14,
       <1>15, <1>16, <1>17, <1>18, <1>19, <1>20, <1>21, <1>22 DEF Next, Step, Finished

\* A document keeps what it says: the targets hold what they hold.
LEMMA KeptDoc ==
    ASSUME UNCHANGED fixedVars, NEW o, docs[o]' = docs[o], DocOf(o)
    PROVE  DocOf(o)'
  BY DEF DocOf, fixedVars, Silent, Truth, Evaluate, GapIn, Blank

\* What emit writes agrees with itself and explains its silence.
LEMMA Written ==
    ASSUME TypeInv, KnowInv, pc = "emit", NEW format
    PROVE  LET d == Rendered(format) IN
           /\ "gaps" \in Carries(format) => d.gaps = Evaluate(d.comps)
           /\ cfg.cve /\ {"vulns", "unchecked"} \subseteq Carries(format) =>
                 \/ Truth(target).vulns \cap d.comps \subseteq d.vulns
                 \/ d.unchecked # 0
<1> USE DEF TypeInv, Inventories, KnowInv, Working, Places
<1>1. Shown.gaps = Evaluate(Shown.comps) /\ Shown \in Inventories
  <2>1. CASE cfg.filter
    <3>1. PICK kept \in SUBSET Comps : kept = {c \in inv.comps : c.high}
      OBVIOUS
    <3>2. PICK gaps \in SUBSET Frameworks : gaps = Evaluate(kept)
      BY DEF Evaluate
    <3>3. Shown = [inv EXCEPT !.comps = kept, !.gaps = gaps]
      BY <2>1, <3>1, <3>2 DEF Shown
    <3> QED
      BY <3>2, <3>3
  <2>2. CASE ~cfg.filter
    BY <2>2 DEF Shown
  <2> QED
    BY <2>1, <2>2
<1>2. Shown.vulns = inv.vulns /\ Shown.unchecked = inv.unchecked
  BY DEF Shown
<1>3. ASSUME cfg.cve, inv.unchecked = 0 PROVE Truth(target).vulns \subseteq inv.vulns
  BY <1>3 DEF Truth, Asked
<1>4. PICK d : d = Rendered(format)
  OBVIOUS
<1>5. /\ d.comps = Shown.comps
      /\ "gaps" \in Carries(format) => d.gaps = Shown.gaps
      /\ "vulns" \in Carries(format) => d.vulns = Shown.vulns
      /\ "unchecked" \in Carries(format) => d.unchecked = Shown.unchecked
  BY <1>1, <1>4 DEF Rendered
<1> QED
  BY <1>1, <1>2, <1>3, <1>4, <1>5

\* Every step keeps the documents true.
LEMMA DocStep == TypeInv /\ FlowInv /\ KnowInv /\ DocInv /\ [Next]_vars => DocInv'
<1> SUFFICES ASSUME TypeInv, FlowInv, KnowInv, DocInv, [Next]_vars, NEW o \in DOMAIN docs'
             PROVE  DocOf(o)'
  BY DEF DocInv
<1>1. UNCHANGED fixedVars
  BY Fixed
<1>2. CASE docs' = docs
  BY <1>1, <1>2, KeptDoc DEF DocInv
<1>3. CASE docs' # docs
  <2>1. Emit
    BY <1>3 DEF Next, Step, vars, outVars, Cancel, Finished, Refuse, Start, ScanFails, Scan, Launch,
           Answer, QueryFails, OsvEnd, KevLoads, KevFails, EolOff, EolLoads, EolFails, Comply,
           EmitFails, EmitEnd, Fix, FixFails, Gate, PipelineFails, Proceed
  <2>2. CASE o # nextOut
    BY <1>1, <2>1, <2>2, KeptDoc DEF Emit, DocInv
  <2>3. CASE o = nextOut
    <3>1. PICK format : format = cfg.outputs[o]
      OBVIOUS
    <3>2. docs'[o] = [target |-> target, shows |-> Rendered(format)] /\ pc = "emit"
      BY <2>1, <2>3, <3>1 DEF Emit
    <3>3. PICK d : d = Rendered(format)
      OBVIOUS
    <3>4. docs'[o].target = target /\ docs'[o].shows = d
      BY <3>2, <3>3
    <3>5. /\ "gaps" \in Carries(format) => d.gaps = Evaluate(d.comps)
          /\ cfg.cve /\ {"vulns", "unchecked"} \subseteq Carries(format) =>
                \/ Truth(target).vulns \cap d.comps \subseteq d.vulns
                \/ d.unchecked # 0
      BY <3>2, <3>3, Written
    <3>6. Evaluate(docs[o].shows.comps)' = Evaluate(d.comps)
      BY <1>1, <3>4 DEF Evaluate, GapIn, fixedVars
    <3>7. Truth(docs[o].target)'.vulns = Truth(target).vulns
      BY <1>1, <3>4 DEF Truth, fixedVars
    <3>8. cfg'.outputs[o] = format /\ cfg' = cfg
      BY <1>1, <3>1 DEF fixedVars
    <3>9. Silent(o)' => ~(Truth(target).vulns \cap d.comps \subseteq d.vulns) /\ d.unchecked = 0
      BY <3>4, <3>7 DEF Silent
    <3> QED
      BY <3>4, <3>5, <3>6, <3>8, <3>9 DEF DocOf
  <2> QED
    BY <2>2, <2>3
<1> QED
  BY <1>2, <1>3

\* What the gate is told is true ...
LEMMA GateTold ==
    ASSUME TypeInv, FlowInv, KnowInv, pc = "gate", Matches(inv)
    PROVE  Matches(Truth(target))
<1> USE DEF TypeInv, KnowInv, Working, Places, Inventories
<1>1. Truth(target).comps = world[target]
  BY DEF Truth
<1>2. inv.vulns \subseteq Truth(target).vulns
  BY DEF Truth, Asked
<1>3. inv.kev \subseteq Truth(target).kev
  BY DEF Truth, Asked
<1>4. inv.eol \subseteq Truth(target).eol
  BY DEF Truth
<1>5. inv.comps \subseteq Truth(target).comps
  BY <1>1
<1>6. inv.gaps \subseteq Truth(target).gaps
  BY DEF Evaluate, Truth
<1>7. PICK clause \in cfg.policy : Holds(clause, inv)
  BY DEF Matches
<1>8. GapMatches(clause, inv) => GapMatches(clause, Truth(target))
  BY <1>6 DEF GapMatches
<1>9. Holds(clause, Truth(target))
  BY <1>2, <1>3, <1>4, <1>5, <1>7, <1>8, HoldsMono
<1> QED
  BY <1>9 DEF Matches

\* ... and all there is, as far as the policy asks and the scan covers.
LEMMA GateToldAll ==
    ASSUME TypeInv, FlowInv, KnowInv, pc = "gate", NEW clause \in cfg.policy,
           Covered(clause), Holds(clause, Truth(target))
    PROVE  Matches(inv)
<1> USE DEF TypeInv, KnowInv, Working, Places, Inventories
<1>1. Truth(target).comps = world[target]
  BY DEF Truth
<1>2. Valid
  BY DEF FlowInv
<1>3. ASSUME ReferencesCVE PROVE Truth(target).vulns \subseteq inv.vulns
  BY <1>2, <1>3 DEF Truth, Asked, Valid
<1>4. ASSUME References("cve") PROVE Truth(target).vulns \subseteq inv.vulns
  BY <1>3, <1>4 DEF ReferencesCVE
<1>5. ASSUME References("kev") PROVE Truth(target).kev \subseteq inv.kev
  <2>1. Truth(target).kev \subseteq Truth(target).vulns
    BY DEF Truth
  <2>2. \A c \in Truth(target).kev : c.vuln = "kev"
    BY DEF Truth
  <2> QED
    BY <1>3, <1>5, <2>1, <2>2 DEF ReferencesCVE
<1>6. ASSUME References("eol") PROVE Truth(target).eol \subseteq inv.eol
  BY <1>6 DEF Truth
<1>7. ASSUME GapMatches(clause, Truth(target)) PROVE GapMatches(clause, inv)
  <2>1. PICK f \in Truth(target).gaps \cap cfg.comply : clause \in {{"gap"}, {f}}
    BY <1>7 DEF GapMatches
  <2>2. GapIn(f, world[target])
    BY <2>1 DEF Truth
  <2>3. f \in inv.gaps
    BY <2>1, <2>2 DEF Evaluate
  <2> QED
    BY <2>1, <2>3 DEF GapMatches
<1>8. Truth(target).comps \subseteq inv.comps
  BY <1>1
<1>9. Holds(clause, inv)
  BY <1>4, <1>5, <1>6, <1>7, <1>8, HoldsMono
<1> QED
  BY <1>9 DEF Matches

\* Only the gate and a failing pipeline move what the loop over images carries.
LEMMA Aside ==
    ASSUME [Next]_vars, ~PipelineFails, ~Gate
    PROVE  /\ UNCHANGED <<skipped, gateErr, target>>
           /\ exit' = "policy" => exit = "policy"
           /\ pc = "done" => pc' = "done"
           /\ exit' = "ok" => exit = "ok" \/ (pc = "start" /\ LastTarget = 0)
  BY DEF Next, Step, vars, outVars, osvVars, tailVars, fixedVars, Cancel, Finished, Refuse, Start,
         ScanFails, Scan, Launch, Answer, QueryFails, OsvEnd, KevLoads, KevFails, EolOff, EolLoads,
         EolFails, Comply, Emit, EmitFails, EmitEnd, Fix, FixFails, Proceed, Leave

\* A pipeline fails only while it runs.
LEMMA Running ==
    ASSUME [Next]_vars, PipelineFails, UNCHANGED vars => FALSE
    PROVE  pc # "done"
  BY DEF Next, Step, vars, Cancel, Finished, Refuse, Start, ScanFails, Scan, Launch, Answer,
         QueryFails, OsvEnd, KevLoads, KevFails, EolOff, EolLoads, EolFails, Comply, Emit, EmitFails,
         EmitEnd, Fix, FixFails, Gate

\* Every step keeps the loop's memory of the gate.
LEMMA RedStep == TypeInv /\ FlowInv /\ KnowInv /\ RedInv /\ [Next]_vars => RedInv'
<1> SUFFICES ASSUME TypeInv, FlowInv, KnowInv, RedInv, [Next]_vars PROVE RedInv'
  OBVIOUS
<1>1. UNCHANGED fixedVars
  BY Fixed
<1>2. \A t : Matches(Truth(t)) => Matches(Truth(t))'
  BY <1>1, FixedMatches
<1>3. target \in Nat /\ LastTarget \in Nat /\ DOMAIN world = 1..LastTarget
  BY Numbered DEF TypeInv
<1>4. CASE ~PipelineFails /\ ~Gate
  <2>1. /\ skipped' = skipped /\ gateErr' = gateErr /\ target' = target
        /\ exit' = "policy" => exit = "policy"
        /\ pc = "done" => pc' = "done"
    BY <1>4, Aside
  <2>2. skipped' \subseteq 1..target' /\ (pc' # "done" => target' \notin skipped')
    BY <2>1 DEF RedInv
  <2>3. ASSUME gateErr
        PROVE  \E t \in DOMAIN world' \ skipped' :
                  (pc' # "done" => t < target') /\ Matches(Truth(t))'
    BY <1>1, <1>2, <2>1, <2>3 DEF RedInv, fixedVars
  <2> QED
    BY <2>1, <2>2, <2>3 DEF RedInv
<1>5. CASE Gate
  <2>1. pc = "gate" /\ target \in DOMAIN world /\ target \notin skipped
    BY <1>5 DEF Gate, FlowInv, RedInv
  <2>2. UNCHANGED skipped
    BY <1>5 DEF Gate
  <2>3. PICK here : here = target
    OBVIOUS
  <2>4. gateErr' = (gateErr \/ (Matches(inv) /\ cfg.code > 0))
    BY <1>5 DEF Gate
  <2>5. \/ pc' = "done" /\ target' = target
        \/ pc' = "acquire" /\ target' = target + 1
    BY <1>5 DEF Gate, Advance, Leave
  <2>6. exit' = "policy" => gateErr'
    <3>1. CASE cfg.source = "k8s"
      <4>1. Advance(gateErr')
        BY <1>5, <3>1 DEF Gate
      <4> QED
        BY <4>1, <2>1, <2>4 DEF Advance, Leave, RedInv
    <3>2. CASE cfg.source # "k8s"
      BY <1>5, <3>2, <2>4 DEF Gate, Leave
    <3> QED
      BY <3>1, <3>2
  <2>7. skipped' \subseteq 1..target' /\ (pc' # "done" => target' \notin skipped')
    BY <1>3, <2>1, <2>2, <2>5 DEF RedInv, TypeInv
  <2>8. CASE gateErr
    <3>1. PICK t \in DOMAIN world \ skipped : t < target /\ Matches(Truth(t))
      BY <2>1, <2>8 DEF RedInv
    <3>2. Matches(Truth(t))' /\ t \in DOMAIN world' \ skipped'
      BY <1>1, <1>2, <2>2, <3>1 DEF fixedVars
    <3>3. t < target'
      BY <1>3, <2>5, <3>1
    <3> QED
      BY <2>4, <2>7, <2>8, <3>2, <3>3 DEF RedInv
  <2>9. CASE Matches(inv) /\ cfg.code > 0
    <3>1. Matches(Truth(here))'
      BY <1>2, <2>1, <2>3, <2>9, GateTold
    <3>2. here \in DOMAIN world' \ skipped' /\ (pc' # "done" => here < target')
      BY <1>1, <1>3, <2>1, <2>2, <2>3, <2>5 DEF fixedVars
    <3> QED
      BY <2>4, <2>7, <2>9, <3>1, <3>2 DEF RedInv
  <2>10. CASE ~gateErr /\ ~(Matches(inv) /\ cfg.code > 0)
    BY <2>4, <2>6, <2>7, <2>10 DEF RedInv
  <2> QED
    BY <2>8, <2>9, <2>10
<1>6. CASE PipelineFails /\ UNCHANGED vars
  BY <1>1, <1>2, <1>6 DEF RedInv, vars, fixedVars
<1>7. CASE PipelineFails /\ ~UNCHANGED vars
  <2>1. pc # "done"
    BY <1>7, Running
  <2>2. UNCHANGED gateErr /\ skipped' \subseteq skipped \cup {target}
    BY <1>7 DEF PipelineFails
  <2>3. \/ pc' = "done" /\ target' = target
        \/ pc' = "acquire" /\ target' = target + 1
    BY <1>7 DEF PipelineFails, Advance, Leave
  <2>4. exit' = "policy" => gateErr'
    BY <1>7, <2>1 DEF PipelineFails, Advance, Leave, RedInv
  <2>5. skipped' \subseteq 1..target' /\ (pc' # "done" => target' \notin skipped')
    BY <1>3, <2>2, <2>3 DEF RedInv, TypeInv
  <2>6. CASE gateErr
    <3>1. PICK t \in DOMAIN world \ skipped : t < target /\ Matches(Truth(t))
      BY <2>1, <2>6 DEF RedInv
    <3>2. t \in DOMAIN world' \ skipped' /\ t < target' /\ Matches(Truth(t))'
      BY <1>1, <1>2, <1>3, <2>2, <2>3, <3>1 DEF fixedVars
    <3> QED
      BY <2>2, <2>4, <2>5, <3>2 DEF RedInv
  <2>7. CASE ~gateErr
    BY <2>2, <2>4, <2>5, <2>7 DEF RedInv
  <2> QED
    BY <2>6, <2>7
<1> QED
  BY <1>4, <1>5, <1>6, <1>7

\* Every step keeps the exit code honest.
LEMMA GreenStep ==
    TypeInv /\ FlowInv /\ KnowInv /\ GreenIsHonestForOneTarget /\ [Next]_vars
        => GreenIsHonestForOneTarget'
<1>1. [Next]_vars => cfg' = cfg /\ world' = world
  BY Fixed DEF fixedVars
<1>2. ASSUME NEW clause, cfg' = cfg PROVE Covered(clause)' <=> Covered(clause)
  BY <1>2 DEF Covered, IsGap
<1> SUFFICES ASSUME TypeInv, FlowInv, KnowInv, GreenIsHonestForOneTarget, [Next]_vars,
                    cfg.source # "k8s", exit' = "ok", cfg.code > 0, NEW t \in DOMAIN world,
                    NEW clause \in cfg.policy, Covered(clause)
             PROVE  ~Holds(clause, Truth(t))'
  BY <1>1, <1>2 DEF GreenIsHonestForOneTarget, GreenIsHonest
<1>3. SUFFICES ~Holds(clause, Truth(t))
  BY Fixed, FixedHolds
<1>4. LastTarget = 1 /\ target = 1 /\ t = 1
  BY Numbered DEF FlowInv
<1>5. CASE exit = "ok"
  BY <1>5 DEF GreenIsHonestForOneTarget, GreenIsHonest
<1>6. CASE Gate
  <2>1. pc = "gate" /\ ~Matches(inv)
    BY <1>6 DEF Gate, Leave
  <2> QED
    BY <1>4, <2>1, GateToldAll
<1>7. CASE PipelineFails
  BY <1>7 DEF PipelineFails, Leave
<1> QED
  BY <1>4, <1>5, <1>6, <1>7, Aside

-----------------------------------------------------------------------------
\* The initial states.
LEMMA InitIInv == Init => IInv
<1> SUFFICES ASSUME Init PROVE IInv
  OBVIOUS
<1> USE DEF Init
<1>1. TypeInv
  <2>1. inv \in Inventories
    BY DEF NoInventory, Inventories
  <2>2. DOMAIN docs = 1..Len(cfg.outputs) /\ target = 1 /\ nextOut = 1
    BY Listed
  <2>3. cfg \in Configs /\ world \in Worlds /\ pc = "start" /\ exit = "none" /\ ~gateErr /\ ~edited
        /\ gateErr \in BOOLEAN /\ edited \in BOOLEAN
    OBVIOUS
  <2> HIDE DEF Init
  <2> QED
    BY <2>1, <2>2, <2>3 DEF TypeInv, Places
<1>2. FlowInv
  BY DEF FlowInv
<1>3. KnowInv /\ RedInv /\ GreenIsHonestForOneTarget
  BY DEF KnowInv, Working, RedInv, GreenIsHonestForOneTarget, GreenIsHonest
<1>4. OrderInv /\ DocInv
  BY DEF OrderInv, DocInv, DocOf
<1> QED
  BY <1>1, <1>2, <1>3, <1>4 DEF IInv

\* ScanApp keeps its inductive invariant.
THEOREM Invariance == Spec => []IInv
<1>1. Init => IInv
  BY InitIInv
<1>2. IInv /\ [Next]_vars => IInv'
  BY TypeStep, FlowStep, KnowStep, OrderStep, DocStep, RedStep, GreenStep DEF IInv
<1> QED
  BY <1>1, <1>2, PTL DEF Spec

\* With a gate that may fail the build, exit code 0 of a command with one
\* target means the target holds nothing that a clause of the policy describes
\* and the scan covers.
THEOREM Green == Spec => []GreenIsHonestForOneTarget
<1>1. IInv => GreenIsHonestForOneTarget
  BY DEF IInv
<1> QED
  BY <1>1, Invariance, PTL

\* The policy's exit code is earned by a target that was scanned.
THEOREM Red == Spec => []RedIsEarned
<1>1. IInv => RedIsEarned
  BY DEF IInv, RedInv, RedIsEarned
<1> QED
  BY <1>1, Invariance, PTL

\* A document's compliance describes its own components, and a tree is edited
\* only when its documents are out.
THEOREM Agreement == Spec => []DocumentAgreesWithItself
<1>1. IInv => DocumentAgreesWithItself
  BY DEF IInv, DocInv, DocOf, OrderInv, DocumentAgreesWithItself
<1> QED
  BY <1>1, Invariance, PTL

\* A document of a format that counts the unchecked components is not silent on
\* an advisory without such a count.
THEOREM Silence == Spec => []SilenceIsExplained
<1>1. IInv => SilenceIsExplained
  BY DEF IInv, DocInv, DocOf, SilenceIsExplained
<1> QED
  BY <1>1, Invariance, PTL
=============================================================================
