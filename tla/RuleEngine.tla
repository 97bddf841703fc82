---------------------------- MODULE RuleEngine ----------------------------
(* Rule packs, internal/ruleengine/ruleengine.go: parsing a pack, layering   *)
(* the built-in packs, the cached bundle and the --rules files into one      *)
(* effective rule set, and the checks a rule must pass before it may run.    *)
(*                                                                           *)
(* A file system of packs is a sequence of files in path order; an effective *)
(* rule set is a function from rule identifiers to rules.  An operation that *)
(* can fail returns the record of its result and whether it failed.          *)
EXTENDS Integers, Sequences, FiniteSets, Functions, SequencesExt

CONSTANTS Kinds, Languages, RelTypes, KnownRisks     \* the tables of the package

NonRulePackDirs == {"eol", "kev"}
none == <<>>                                          \* no rule in force

Loaded(rules) == [ok |-> TRUE, rules |-> rules]
Broken == [ok |-> FALSE, rules |-> none]

(* ParsePack: strict YAML, the pack's name, its version and at least one rule.
   An overlay file has no stem to agree with. *)
ParsePack(stem, file) ==
  /\ file.yaml
  /\ stem = "" \/ file.pack = stem
  /\ file.version >= 1
  /\ file.rules # <<>>

(* applyLayer: one rule of a pack joins the rules already in force. *)
applyRule(loaded, r, pack, layer, base) ==
  LET rules  == loaded.rules
      exists == r.id \in DOMAIN rules
      owned  == r.prefix = pack
  IN CASE ~loaded.ok -> loaded
       [] loaded.ok /\ r.disable ->
            IF ~base /\ exists THEN Loaded(Restrict(rules, DOMAIN rules \ {r.id})) ELSE Broken
       [] OTHER ->
            IF (base => ~exists /\ owned) /\ (~base /\ ~exists => owned)
            THEN Loaded([id \in DOMAIN rules \cup {r.id} |->
                           IF id = r.id THEN [r EXCEPT !.layer = layer] ELSE rules[id]])
            ELSE Broken
applyLayer(loaded, file, layer, base) ==
  LET upTo[n \in 0 .. Len(file.rules)] ==
        IF n = 0 THEN loaded ELSE applyRule(upTo[n - 1], file.rules[n], file.pack, layer, base)
  IN upTo[Len(file.rules)]

(* loadPackFS: every pack of a layer, other namespaces of a bundle skipped. *)
joinPack(loaded, file, label, base) ==
  CASE file.dir \in NonRulePackDirs -> loaded
    [] file.dir \notin NonRulePackDirs /\ ParsePack(file.stem, file) -> applyLayer(loaded, file, label, base)
    [] OTHER -> Broken
loadPackFS(loaded, fsys, label, base) ==
  LET upTo[n \in 0 .. Len(fsys)] == IF n = 0 THEN loaded ELSE joinPack(upTo[n - 1], fsys[n], label, base)
  IN upTo[Len(fsys)]

joinOverlay(loaded, file) ==
  IF file.readable /\ ParsePack("", file) THEN applyLayer(loaded, file, file.path, FALSE) ELSE Broken
loadOverlays(loaded, files) ==
  LET upTo[n \in 0 .. Len(files)] == IF n = 0 THEN loaded ELSE joinOverlay(upTo[n - 1], files[n])
  IN upTo[Len(files)]

-----------------------------------------------------------------------------
(* validateRule.  A template is a text or one group; a pattern is a sequence of
   elements, some of which name a group. *)

groups(r) == {r.pattern[k].group : k \in DOMAIN r.pattern} \ {""}
templates(r) == {r.name, r.version} \cup {t.name : t \in {x \in r.relations : x.form = "name"}}
templateVars(r) == {t.var : t \in templates(r)} \ {""}
fromFields(r) == {x.field : x \in {y \in r.relations : y.form = "from_field"}}
captureNames(r) == IF r.capture.within = 0 THEN {} ELSE r.capture.names

validCapture(r) ==
  r.capture.within # 0 => r.capture.within \in 1 .. 64 /\ r.capture.names # {}
validRelation(r, rel) ==
  /\ rel.type \in RelTypes
  /\ rel.form \in {"name", "from_field", "local_ref"}       \* exactly one form
  /\ rel.form = "from_field" =>
       \/ rel.field \in groups(r) \cup captureNames(r)
       \/ rel.field = "model" /\ r.capture.within # 0
  /\ rel.form # "local_ref" => rel.kind # ""
  /\ rel.kind # "" => rel.kind \in Kinds
validateRule(r) ==
  /\ r.kind \in Kinds
  /\ r.languages \subseteq Languages
  /\ r.keywords # {} /\ <<>> \notin r.keywords
  /\ r.compiles
  /\ r.regions \subseteq {"code", "string"}
  /\ r.confidence \in 1 .. 99
  /\ r.name.var # "" \/ r.name.text # <<>>
  /\ r.risk = "" \/ r.risk \in KnownRisks
  /\ validCapture(r)
  /\ templateVars(r) \subseteq groups(r)
  /\ \A rel \in r.relations : validRelation(r, rel)
  /\ groups(r) \subseteq templateVars(r) \cup fromFields(r) \cup {"model"}

validRules(loaded) ==
  IF loaded.ok /\ \A id \in DOMAIN loaded.rules : validateRule(loaded.rules[id]) THEN loaded ELSE Broken

bundleInstead(embedded, bundle, label, overlays) ==       \* a mutant: the bundle replaces the packs
  LET base == IF bundle = <<>> THEN loadPackFS(Loaded(none), embedded, "embedded", TRUE)
              ELSE loadPackFS(Loaded(none), bundle, label, FALSE)
  IN validRules(IF base.ok THEN loadOverlays(base, overlays) ELSE base)
(* Load: the built-in packs, then the bundle, then the overlays in flag order. *)
Load(embedded, bundle, label, overlays) ==
  LET base   == loadPackFS(Loaded(none), embedded, "embedded", TRUE)
      merged == IF base.ok THEN loadPackFS(base, bundle, label, FALSE) ELSE base
  IN validRules(IF merged.ok THEN loadOverlays(merged, overlays) ELSE merged)
=============================================================================
