------------------------------ MODULE MCDetect ------------------------------
(* Detect on files of up to three parts, written by hand with what they really *)
(* contain, and on rule packs in three layers.                                 *)
EXTENDS Detect

MCLower(s) == CASE s = "CREATE" -> "create" [] s = "LIB" -> "lib" [] OTHER -> s
MCIdentifiers == {"create", "CREATE", "import", "lib", "LIB", "model", "temp", "BASE", "PROMPT"}
MCWords == MCIdentifiers \cup {"gpt-4", "gpt-5", "1", "2"}

MCRuleOrder == <<"fresh/import", "sdk/call", "sdk/import", "text/model">>

(* Rules *)
base == [id |-> "", prefix |-> "sdk", layer |-> "", disable |-> FALSE, finds |-> "call",
         kind |-> "service", languages |-> {}, keywords |-> {<<"CREATE">>}, compiles |-> TRUE,
         pattern |-> <<One({"create", "CREATE"}), Some(White), One({"("})>>,
         regions |-> {"code"}, confidence |-> 90, name |-> [text |-> <<"sdk">>, var |-> ""],
         version |-> [text |-> <<>>, var |-> ""], risk |-> "",
         relations |-> {[type |-> "uses", form |-> "from_field", field |-> "model", kind |-> "hosted-llm"]},
         capture |-> [within |-> 2, names |-> {"temp"}]]
call == [base EXCEPT !.id = "sdk/call"]
import == [base EXCEPT !.id = "sdk/import", !.finds = "import", !.keywords = {<<"import", SP, "lib">>},
             !.pattern = <<One({"import"}), Run(White, 1, TRUE, ""), Run({"lib", "LIB"}, 1, FALSE, "pkg")>>,
             !.name = [text |-> <<>>, var |-> "pkg"], !.relations = {}, !.capture = [within |-> 0, names |-> {}]]
model == [base EXCEPT !.id = "text/model", !.prefix = "text", !.finds = "model", !.kind = "hosted-llm",
            !.regions = {}, !.keywords = {<<"gpt-4">>, <<"gpt-5">>}, !.languages = {"python"},
            !.pattern = <<Run({"gpt-4", "gpt-5"}, 1, FALSE, "id")>>, !.name = [text |-> <<>>, var |-> "id"],
            !.relations = {}, !.capture = [within |-> 0, names |-> {}]]
extra(id, prefix) == [import EXCEPT !.id = id, !.prefix = prefix]
off(id) == [base EXCEPT !.id = id, !.disable = TRUE]

file(dir, stem, rs) == [dir |-> dir, stem |-> stem, pack |-> stem, version |-> 1, yaml |-> TRUE,
                        readable |-> TRUE, path |-> stem, rules |-> rs]
Embedded == <<file("models", "sdk", <<call, import>>), file("models", "text", <<model>>)>>
NotRules == [file("eol", "openai", <<>>) EXCEPT !.yaml = FALSE]
wide == [call EXCEPT !.confidence = 50]
prose == [call EXCEPT !.regions = {"docstring"}]
Bundles ==
  { <<>>, <<NotRules>>,
    <<file("models", "sdk", <<wide>>), NotRules>>,
    <<file("models", "fresh", <<off("sdk/import"), extra("fresh/import", "fresh")>>)>>,
    <<file("models", "sdk", <<prose>>)>>,
    <<file("models", "fresh", <<off("sdk/gone")>>)>>,
    <<file("models", "fresh", <<off("sdk/call"), off("sdk/import"), off("text/model")>>)>>,
    <<[file("models", "fresh", <<wide>>) EXCEPT !.version = 0]>> }
Overlays ==
  { <<>>, <<file("", "mine", <<off("sdk/import")>>)>>,
    <<file("", "mine", <<[call EXCEPT !.confidence = 70]>>), file("", "yours", <<[call EXCEPT !.confidence = 60]>>)>>,
    <<file("", "mine", <<off("fresh/import")>>)>>,
    <<file("", "mine", <<extra("fresh/import", "fresh")>>)>>,
    <<file("", "mine", <<off("sdk/call")>>), file("", "sdk", <<wide>>)>>,
    <<[file("", "mine", <<wide>>) EXCEPT !.readable = FALSE]>> }

(* Files *)
part(lines, live, assigns, text) == [lines |-> lines, live |-> live, assigns |-> assigns, text |-> text]
at(what, line, name, args) == [what |-> what, line |-> line, name |-> <<name>>, args |-> args]
arg(name, text) == [name |-> name, text |-> text, named |-> text = "BASE"]
q(text) == <<DQ, text, DQ>>
TQ == Triple(DQ)
Parts(e, c) ==     \* e: the line end, c: what begins a line comment
  { part(1, <<at("call", 1, "sdk", {arg("model", "gpt-4"), arg("temp", "1")}), at("model", 1, "gpt-4", {})>>, {},
      <<"create", "(", "model", "=">> \o q("gpt-4") \o <<",", "temp", "=", "1", ")">> \o e),
    part(2, <<at("call", 1, "sdk", {arg("model", "gpt-5"), arg("temp", "2")}), at("model", 2, "gpt-5", {})>>, {},
      <<"CREATE", SP, "(">> \o e \o <<SP, "model", "=", SQ, "gpt-5", SQ, ",", SP, "temp", "=", "2", ")">> \o e),
    part(1, <<at("call", 1, "sdk", {arg("model", "BASE")})>>, {},
      <<"create", "(", "model", "=", "BASE", ")">> \o e),
    part(1, <<at("model", 1, "gpt-4", {})>>, {<<"BASE", "gpt-4">>}, <<"BASE", "=">> \o q("gpt-4") \o e),
    part(1, <<at("model", 1, "gpt-5", {})>>, {<<"BASE", "gpt-5">>}, <<"BASE", SP, "=", SP>> \o q("gpt-5") \o e),
    part(1, <<>>, {}, c \o <<SP, "create", "(", "model", "=">> \o q("gpt-4") \o <<")">> \o e),
    part(1, <<at("model", 1, "gpt-5", {})>>, {},
      <<"PROMPT", "=", DQ, BS, DQ, SP>> \o c \o <<"create", "(", "model", "=", "gpt-5", DQ>> \o e),
    part(1, <<at("import", 1, "LIB", {})>>, {}, <<"import", SP, SP, "LIB">> \o e) }
PythonParts(e) ==
  Parts(e, <<"#">>) \cup
  { part(3, <<>>, {}, TQ \o e \o <<"create", "(", SP, "model", "=", SQ, "gpt-5", SQ>> \o e \o TQ \o e),
    part(2, <<at("model", 1, "gpt-4", {})>>, {},
      <<"PROMPT", "=", "f">> \o TQ \o <<SP, "gpt-4", DQ>> \o e \o <<"create", "(", SP>> \o TQ \o e),
    part(1, <<at("model", 1, "gpt-4", {})>>, {}, <<"PROMPT", "=", "r", DQ, "gpt-4", BS, DQ>> \o e) }
ScriptParts(e) ==
  Parts(e, <<"/", "/">>) \cup
  { part(3, <<>>, {}, <<"/", "*", DQ>> \o e \o <<"create", "(">> \o e \o <<"*", "/">> \o e),
    part(2, <<>>, {}, <<"PROMPT", "=", BT, SQ, BS, BT>> \o e \o <<"create", "(", "/", "*", BT>> \o e) }

(* What is peculiar to the literals and comments of the other languages. *)
Call == <<"create", "(", ")", NL>>
live(text) == part(1, <<at("call", 1, "sdk", {})>>, {}, text \o Call)
dead(text) == part(1, <<>>, {}, text \o <<NL>>)
long(from, to) == part(2, <<>>, {}, from \o <<NL, "create", "(">> \o to \o <<NL>>)
Opened == <<"/", "*">>
Closed == <<"*", "/">>
OtherParts ==
  [go     |-> {live(<<BT, BS, BT>>), live(<<SQ, DQ, SQ>>), long(<<BT>>, <<BT>>), dead(Opened \o Opened \o Closed)},
   java   |-> {dead(TQ \o <<BS>> \o TQ \o <<SP, "create", "(">> \o TQ), live(TQ \o <<DQ, SP>> \o TQ), live(<<DQ, DQ>>)},
   rust   |-> {live(<<"fn", SQ, "a", SP>>), live(<<SQ, DQ, SQ>>), live(<<SQ, BS, SQ, SQ>>), long(<<"b", DQ>>, <<BS, DQ, DQ>>),
               dead(Opened \o Opened \o Closed \o <<"create", "(">> \o Closed),
               dead(<<"r", "#", DQ, "create", "(", DQ, BS, DQ, "#">>), live(<<"r", DQ, BS, DQ>>)},
   csharp |-> {live(<<"@", DQ, BS, DQ>>), dead(<<"@", DQ, DQ, DQ, "create", "(", DQ>>),
               long(<<"$">> \o TQ \o <<SP, DQ>>, TQ), dead(<<"$", DQ, BS, DQ, "create", "(", DQ>>)},
   kotlin |-> {live(TQ \o <<BS>> \o TQ), dead(Opened \o Opened \o Closed \o <<"create", "(">> \o Closed)},
   sql    |-> {dead(<<"-", "-", SP, SQ, "create", "(">>), live(<<DQ, "create", DQ>>), dead(<<SQ, "create", "(", SQ>>)}]
Borrowed(e) == part(1, <<at("call", 1, "sdk", {[name |-> "model", text |-> "BASE", named |-> FALSE]})>>, {},
                    <<"create", "(", "model", "=">> \o q("BASE") \o <<")">> \o e)

fileOf(lang, parts) ==
  [language |-> lang, parts |-> parts, content |-> FlattenSeq([k \in DOMAIN parts |-> parts[k].text]),
   path |-> <<"app", "main">>, ext |-> ".src", size |-> 1, header |-> ""]
UpTo(n, S) == UNION {[1 .. k -> S] : k \in 1 .. n}
Files ==
  {fileOf("python", p) : p \in UpTo(3, PythonParts(<<NL>>))} \cup
  {fileOf("python", p) : p \in UpTo(2, PythonParts(<<CR, NL>>))} \cup
  {fileOf("javascript", p) : p \in UpTo(2, ScriptParts(<<NL>>))} \cup
  {fileOf("javascript", p) : p \in UpTo(2, ScriptParts(<<CR, NL>>))} \cup
  UNION {{fileOf(lang, p) : p \in UpTo(2, OtherParts[lang])} : lang \in DOMAIN OtherParts}
OneFile ==
  CHOOSE f \in {fileOf("python", p) : p \in UpTo(2, PythonParts(<<NL>>))} :
    Live(f.parts, "call") # <<>> /\ Live(f.parts, "import") # <<>>

selector(b, e, g, m, s) == [basenames |-> b, extensions |-> e, globs |-> g, magic |-> m, maxSize |-> s, languages |-> {}]
MCBuiltins ==
  << [id |-> "manifest", tags |-> {"deps"}, selector |-> selector({"lock"}, {".toml"}, {}, {}, 0)],
     [id |-> "weights", tags |-> {"models"}, selector |-> selector({}, {}, {<<"**", "app", "*">>}, {"GGUF"}, 1)] >>
tok(op, text) == [op |-> op, text |-> text]
Selections ==
  {<<>>, <<tok("-", "rules")>>, <<tok("", "deps"), tok("+", "ruleengine")>>, <<tok("", "rules")>>,
   <<tok("", "all"), tok("-", "models")>>, <<tok("", "typo")>>}

world0 == [embedded |-> Embedded, bundle |-> <<>>, noCachedRules |-> FALSE, overlays |-> <<>>,
           select |-> <<>>, file |-> OneFile]
MCWorlds ==
  {[world0 EXCEPT !.file = f] : f \in Files} \cup
  {[world0 EXCEPT !.bundle = b, !.overlays = o, !.select = s, !.noCachedRules = n] :
     b \in Bundles, o \in Overlays, s \in Selections, n \in BOOLEAN}
=============================================================================
