------------------------------- MODULE Detect -------------------------------
(* The rule detector of one scan, from the packs on disk to the findings in   *)
(* one file: internal/app/rules.go and internal/app/scan.go load the rules,   *)
(* RuleEngine merges them, Catalog routes the file, Lexer and Matcher read    *)
(* it one rule at a time, and the scan may be cancelled between two rules.    *)
EXTENDS Matcher, FiniteSetsExt

CONSTANTS
  Kinds, Languages, RelTypes, KnownRisks,   \* the tables of the rule schema
  Builtins,                                 \* the detectors compiled in, in order
  RuleOrder,                                \* every rule identifier, sorted
  Worlds                                    \* what a scan can find on disk and in its configuration

ASSUME DetectAssumption ==
  \A w \in Worlds : \A files \in {w.embedded, w.bundle, w.overlays} :
    /\ files \in Seq(Range(files))
    /\ \A f \in Range(files) :
         f.rules \in Seq(Range(f.rules)) /\ \A r \in Range(f.rules) : {"id", "layer", "disable"} \subseteq DOMAIN r

R == INSTANCE RuleEngine
C == INSTANCE Catalog

VARIABLES
  world,      \* the packs, the overlays, the selection and the file
  stage,      \* "load", "fallback", "select", "read", "match", "done", "usage" or "cancelled"
  rules,      \* the effective rules, after RuleEngine.Load
  masks,      \* the file's text, masked for each set of regions a rule reads
  bindings,   \* the literals its statements assign to names
  todo,       \* the rules still to run over the file
  findings
dvars == <<world, stage, rules, masks, bindings, todo, findings>>

bundle == IF world.noCachedRules THEN <<>> ELSE world.bundle
ruleDetector ==
  [id |-> "ruleengine", tags |-> {"rules"},
   selector |-> [basenames |-> {}, extensions |-> {}, globs |-> {}, magic |-> {}, maxSize |-> 0,
                 languages |-> UNION {IF rules[id].languages = {} THEN Languages ELSE rules[id].languages :
                                        id \in DOMAIN rules}]]
catalog == IF DOMAIN rules = {} THEN Builtins ELSE Append(Builtins, ruleDetector)

DetectInit ==
  /\ world \in Worlds
  /\ stage = "load" /\ rules = R!none /\ masks = <<>> /\ bindings = {} /\ todo = <<>> /\ findings = <<>>

(* loadRuleset: a bundle that breaks the load is left out, with a warning; what
   is still broken without it is the user's error. *)
LoadRules ==
  /\ stage = "load"
  /\ LET loaded == R!Load(world.embedded, bundle, "bundle", world.overlays)
     IN /\ rules' = loaded.rules
        /\ stage' = CASE loaded.ok                   -> "select"
                      [] ~loaded.ok /\ bundle # <<>> -> "fallback"
                      [] OTHER                       -> "usage"
  /\ UNCHANGED <<world, masks, bindings, todo, findings>>
FallBack ==
  /\ stage = "fallback"
  /\ LET loaded == R!Load(world.embedded, <<>>, "", world.overlays)
     IN rules' = loaded.rules /\ stage' = IF loaded.ok THEN "select" ELSE "usage"
  /\ UNCHANGED <<world, masks, bindings, todo, findings>>

(* buildCatalog, Select, and the index the dispatcher asks about the file. *)
SelectDetectors ==
  /\ stage = "select"
  /\ LET chosen == C!Select(catalog, world.select)
         routed == C!Match(chosen.detectors, world.file)
     IN stage' = CASE ~chosen.ok                                   -> "usage"
                   [] chosen.ok /\ ruleDetector \in ToSet(routed)  -> "read"
                   [] OTHER                                        -> "done"
  /\ UNCHANGED <<world, rules, masks, bindings, todo, findings>>

(* DetectFile: the regions, and the rules whose keywords occur in them. *)
ReadFile ==
  /\ stage = "read"
  /\ LET content == world.file.content
     IN masks' = masksOf(content, Classify(world.file.language, content), rules)
  /\ bindings' = assignments(masks'[CaptureRegions], masks'[{"code"}])
  /\ todo' = admitted(rules, RuleOrder, world.file.language, masks')
  /\ stage' = "match"
  /\ UNCHANGED <<world, rules, findings>>
RunRule ==
  /\ stage = "match" /\ todo # <<>>
  /\ findings' = findings \o runRule(rules[Head(todo)], world.file.content, masks, bindings)
  /\ todo' = Tail(todo)
  /\ UNCHANGED <<world, stage, rules, masks, bindings>>
FileDone ==
  /\ stage = "match" /\ todo = <<>> /\ stage' = "done"
  /\ UNCHANGED <<world, rules, masks, bindings, todo, findings>>
(* A cancelled detector returns its error and none of what it found. *)
Cancel ==
  /\ stage = "match" /\ todo # <<>>
  /\ stage' = "cancelled" /\ findings' = <<>>
  /\ UNCHANGED <<world, rules, masks, bindings, todo>>

DetectNext == LoadRules \/ FallBack \/ SelectDetectors \/ ReadFile \/ RunRule \/ FileDone \/ Cancel
DetectSpec == DetectInit /\ [][DetectNext]_dvars

-----------------------------------------------------------------------------
(* A file is written as a sequence of parts, each of whole lines; what a part
   really contains is noted beside its text: the live occurrences of what a rule
   looks for, with the line in the part and the arguments a call passes, and the
   literals the part assigns to names. *)

content == world.file.content
firstLine(parts, k) == FoldLeft(LAMBDA n, p : n + p.lines, 1, SubSeq(parts, 1, k - 1))
Live(parts, what) ==
  FlattenSeq([k \in DOMAIN parts |->
    LET own == SelectSeq(parts[k].live, LAMBDA x : x.what = what)
    IN [j \in DOMAIN own |-> [own[j] EXCEPT !.line = firstLine(parts, k) + @ - 1]]])
Reads(id) ==
  /\ ruleDetector \in ToSet(C!Select(catalog, world.select).detectors)
  /\ world.file.language \in (IF rules[id].languages = {} THEN Languages ELSE rules[id].languages)
FoundBy(id) == SelectSeq(findings, LAMBDA f : f.rule = id)

(* What a rule in force finds is what the file really contains of it, in order
   and up to the cap: nothing in a comment or a docstring, nothing swallowed by
   an earlier literal, nothing missed because of case, spacing or line ends
   (lexer.go:119, matcher.go:195, langs.go:129). *)
LiveCallsOnly ==
  stage = "done" =>
    \A id \in DOMAIN rules :
      LET live == IF Reads(id) THEN Up(Live(world.file.parts, rules[id].finds), MaxMatches) ELSE <<>>
          mine == FoundBy(id)
      IN /\ Len(mine) = Len(live)
         /\ \A k \in DOMAIN live : mine[k].from.line = live[k].line /\ mine[k].name = live[k].name

(* A call that passes an argument on its own line or the next is described by
   that argument and not by a neighbour's, nor by one in a text or a comment;
   a name stands for the literal it is assigned only when the whole file agrees
   on it (matcher.go:388, matcher.go:436, matcher.go:509). *)
Assigned(parts, name) == {a[2] : a \in {x \in UNION {parts[k].assigns : k \in DOMAIN parts} : x[1] = name}}
Meaning(parts, arg) ==
  IF arg.named /\ Cardinality(Assigned(parts, arg.text)) = 1
  THEN CHOOSE l \in Assigned(parts, arg.text) : TRUE ELSE arg.text
OwnArguments ==
  stage = "done" =>
    \A id \in DOMAIN rules :
      LET live == Live(world.file.parts, rules[id].finds)  mine == FoundBy(id)
      IN rules[id].capture.within # 0 =>
           \A k \in DOMAIN mine : \A a \in live[k].args :
             a.name \in DOMAIN mine[k].fields /\ mine[k].fields[a.name] = <<Meaning(world.file.parts, a)>>

(* A quoted argument is claimed as it is written: only a bare word is taken for
   the name of a variable (matcher.go:407).  No configuration checks it, the
   code does not have it: the quotes are stripped before the question. *)
QuotedIsVerbatim ==
  stage = "done" =>
    \A id \in DOMAIN rules :
      LET live == Live(world.file.parts, rules[id].finds)  mine == FoundBy(id)
      IN rules[id].capture.within # 0 =>
           \A k \in DOMAIN mine : \A a \in live[k].args : ~a.named => mine[k].fields[a.name] = <<a.text>>

(* What the layers of a scan say of a rule, the last of them last. *)
Naming(file, id) == {n \in DOMAIN file.rules : file.rules[n].id = id}
Speaking(layer, id) ==
  {f \in DOMAIN layer.files : layer.files[f].dir \notin layer.skips /\ Naming(layer.files[f], id) # {}}
FromPacks(files, label) ==
  [files |-> files, skips |-> R!NonRulePackDirs, label |-> [k \in DOMAIN files |-> label]]
FromUser(files) == [files |-> files, skips |-> {}, label |-> [k \in DOMAIN files |-> files[k].path]]
LayersWith(used) ==
  << FromPacks(world.embedded, "embedded"), FromPacks(used, "bundle"), FromUser(world.overlays) >>
WordOf(file, id, label) == [file.rules[Max(Naming(file, id))] EXCEPT !.layer = label]
LastWord(layer, id) ==
  LET f == Max(Speaking(layer, id)) IN WordOf(layer.files[f], id, layer.label[f])
InForce(used) ==
  \A id \in ToSet(RuleOrder) :
    LET layers == LayersWith(used)
        said   == {k \in 1 .. 3 : Speaking(layers[k], id) # {}}
    IN IF said = {} \/ LastWord(layers[Max(said)], id).disable THEN id \notin DOMAIN rules
       ELSE id \in DOMAIN rules /\ rules[id] = LastWord(layers[Max(said)], id)
(* The last layer that names a rule decides it: its body, or its absence.  What
   a layer leaves out it leaves alone, so that a bundle without a pack takes no
   built-in rule away, and a bundle that cannot be merged is left out whole and
   never the reason a scan fails (ruleengine.go:180, rules.go:220). *)
RulesInForce ==
  /\ stage \in {"select", "read", "match", "done"} =>
       \/ InForce(bundle)
       \/ InForce(<<>>) /\ ~R!Load(world.embedded, bundle, "bundle", world.overlays).ok
  /\ stage = "usage" => \/ ~R!Load(world.embedded, <<>>, "", world.overlays).ok
                        \/ ~C!Select(catalog, world.select).ok
=============================================================================
