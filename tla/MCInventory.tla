----------------------------- MODULE MCInventory -----------------------------
(* Findings a scan of a small repository yields: an SDK declared and used, a  *)
(* store declared in two ecosystems, a hosted model under several spellings   *)
(* and vendors, a weights file at two paths, a parameter at a call.           *)
EXTENDS Inventory

MCCanon == [x \in {"openai-sdk"} |-> "openai"] @@ [x \in {"gpt-4o-2024-08-06"} |-> "gpt-4o"]
MCDateOf == [x \in {"gpt-4o-2024-08-06"} |-> "2024-08-06"]
MCPublisher == [x \in {"st/minilm"} |-> "st"]
MCVendor == [x \in {"Hugging Face"} |-> "huggingface"]
MCLexicon == <<"1.0", "2.0", "2024-08-06", "^1", "aiconfig", "app.py", "binary", "chroma", "code",
  "conf.py", "gguf", "manifest", "model", "openai", "openai-sdk", "package.json", "req.txt",
  "source", "tests/t.py", "tests/w.gguf", "w1.gguf", "weights">>
MCTestPaths == {"tests/t.py", "tests/w.gguf"}
MCSlug == [x \in {"hugging face"} |-> "hugging-face"]
MCVersionOf == [x \in {"1.0"} |-> <<1, 0>>] @@ [x \in {"2.0"} |-> <<2, 0>>] @@ [x \in {"1.0.5"} |-> <<1, 0, 5>>]
MCCVEs == {"CVE-1", "CVE-2", "CVE-3"}

claim == [kind |-> "library", name |-> "openai", provider |-> "openai", eco |-> "", group |-> "",
          version |-> "", range |-> "", sha |-> "", licenses |-> {}, download |-> "",
          format |-> "", risk |-> {}]
occ == [path |-> "app.py", line |-> 1, column |-> 1, detector |-> "code", method |-> "source",
        confidence |-> 800, model |-> "", params |-> {}]
finding(c, o, rs) == [claim |-> c, occurrence |-> o, relations |-> rs]
atManifest(path, line) == [occ EXCEPT !.path = path, !.line = line, !.detector = "manifest",
                                      !.method = "manifest", !.confidence = 900]
rel(type, form, kind, arg) == [type |-> type, form |-> form, kind |-> kind, arg |-> arg]
usesModel == <<rel("uses", "name", "hosted-llm", "gpt-4o")>>
model(name, provider) == [claim EXCEPT !.kind = "hosted-llm", !.name = name, !.provider = provider]

Pool == {
  finding([claim EXCEPT !.eco = "pypi", !.version = "1.0", !.licenses = {"mit"}], atManifest("req.txt", 1), <<>>),
  finding([claim EXCEPT !.eco = "pypi", !.range = "^1"], atManifest("req.txt", 2), <<>>),
  finding([claim EXCEPT !.eco = "npm", !.version = "2.0"], atManifest("package.json", 1), <<>>),
  finding([claim EXCEPT !.name = "openai-sdk"], occ, usesModel),
  finding([claim EXCEPT !.name = "openai-sdk", !.kind = "framework"], [occ EXCEPT !.path = "tests/t.py"],
          <<rel("uses", "local", "", "model")>>),
  finding(model("gpt-4o-2024-08-06", "openai"),
          [occ EXCEPT !.line = 9, !.detector = "model", !.model = "gpt-4o",
                      !.params = {[name |-> "temperature", value |-> "1"]}], <<>>),
  finding(model("gpt-4o", ""), [occ EXCEPT !.path = "conf.py", !.detector = "model"], <<>>),
  finding(model("gpt-4o", "azure"), [occ EXCEPT !.line = 9, !.column = 7, !.detector = "model", !.confidence = 700], <<>>),
  finding(model("st/minilm", "Hugging Face"),
          [occ EXCEPT !.path = "tests/t.py", !.detector = "model"], <<rel("embeds-with", "field", "hosted-llm", "model")>>),
  finding([model("st/minilm", "st") EXCEPT !.kind = "embedding-model"],
          [occ EXCEPT !.path = "tests/t.py", !.line = 2, !.detector = "model"], <<>>),
  finding([claim EXCEPT !.kind = "ai-config", !.name = "temperature", !.provider = ""],
          [occ EXCEPT !.line = 21, !.detector = "aiconfig", !.confidence = 500], <<>>),
  finding([claim EXCEPT !.kind = "vector-db", !.name = "chroma", !.provider = "chroma", !.eco = "pypi", !.version = "1.0"],
          atManifest("req.txt", 3), <<>>),
  finding([claim EXCEPT !.kind = "vector-db", !.name = "chroma", !.provider = "chroma", !.eco = "npm", !.version = "2.0"],
          atManifest("package.json", 3), <<>>),
  finding([claim EXCEPT !.kind = "local-model-file", !.name = "w1.gguf", !.provider = "local", !.sha = "s", !.format = "gguf", !.risk = {"os"}],
          [occ EXCEPT !.path = "w1.gguf", !.detector = "weights", !.method = "binary", !.confidence = 900], <<>>),
  finding([claim EXCEPT !.kind = "local-model-file", !.name = "w1.gguf", !.provider = "local", !.sha = "s", !.format = "torch", !.risk = {"eval"}],
          [occ EXCEPT !.path = "tests/w.gguf", !.detector = "weights", !.method = "binary", !.confidence = 900], <<>>) }

MCCandidates == kSubset(2, Pool) \cup kSubset(3, Pool)

(* Catalogs around day 1000. *)
entry(line, dates, state, shutdown) ==
  [id |-> <<line, "">>, aliases |-> {<<line, d>> : d \in dates}, state |-> state,
   announced |-> IF shutdown = NoDate THEN NoDate ELSE 900, shutdown |-> shutdown,
   replacement |-> <<"gpt-5", "">>, verified |-> NoDate]
pages(provider, verified, models) ==
  [provider |-> provider, source |-> provider, verified |-> verified, models |-> models]
openaiPage == pages("openai", 950, {entry("gpt-4o", {}, "deprecated", 1020),
                                    [entry("gpt-5", {}, "supported", NoDate) EXCEPT !.replacement = <<"", "">>]})
azurePage  == pages("azure", 900, {entry("gpt-4o", {"2024-08-06"}, "retired", 990)})
freshPage  == pages("openai", 990, {entry("gpt-4o", {"2024-08-06"}, "deprecated", 1050)})
futurePage == pages("openai", 1060, {entry("gpt-4o", {}, "retired", 1000)})
listed(ids, generated, count) ==
  [released |-> generated, generated |-> generated, count |-> count, vulns |-> {[id |-> i, added |-> 800] : i \in ids}]
advisory(id, aliases, v3, text, fixes) ==
  [id |-> id, aliases |-> aliases, v3 |-> v3, text |-> text,
   fixes |-> [n \in DOMAIN fixes |-> [version |-> fixes[n], git |-> fixes[n] = "c0ffee"]]]
replies == [x \in {"openai"} |-> <<advisory("GHSA-1", <<"CVE-1">>, 50, 2, <<"c0ffee">>),
                                  advisory("PYSEC-1", <<"CVE-1">>, 90, 4, <<"1.0.5", "2.0">>),
                                  advisory("GHSA-2", <<"CVE-2", "CVE-3">>, 30, 1, <<>>),
                                  advisory("PYSEC-2", <<"CVE-2">>, NoScore, 4, <<>>)>>]
unscored == [x \in {"openai"} |-> <<advisory("GHSA-1", <<"CVE-1">>, NoScore, 2, <<"c0ffee">>),
                                   advisory("PYSEC-1", <<"CVE-1">>, NoScore, 3, <<"1.0.5">>),
                                   advisory("GHSA-2", <<"CVE-2", "CVE-3">>, NoScore, 4, <<>>)>>]
home == [eolFiles |-> {openaiPage, azurePage}, kevFiles |-> {listed({"CVE-3"}, 980, 1)}, bundle |-> NoBundle,
         noCachedRules |-> FALSE, osv |-> replies, down |-> {}, includeTests |-> FALSE,
         today |-> 1000, day |-> 1000]
updated == [version |-> "v2", eol |-> {freshPage}, kev |-> {listed({"CVE-1", "CVE-2"}, 995, 2)}]
MCWorlds == {home,
  [home EXCEPT !.bundle = updated, !.osv = unscored, !.day = 1049],
  [home EXCEPT !.bundle = [updated EXCEPT !.eol = {futurePage}, !.kev = {listed({"CVE-1"}, 995, 2)}],
               !.includeTests = TRUE, !.day = 1021],
  [home EXCEPT !.bundle = updated, !.noCachedRules = TRUE, !.down = {"openai"}, !.day = 1045]}
Samples == kSubset(3, {f \in Pool : f.claim.name \in {"openai", "gpt-4o", "gpt-4o-2024-08-06", "chroma"}})
MCScans == (MCCandidates \X {home}) \cup (Samples \X MCWorlds)

control(id, directive, expr) == [id |-> id, directive |-> directive, expr |-> expr]
MCFrameworks == {control("c1", "evidence", {{[on |-> "kind", arg |-> "hosted-llm"]}}),
                 control("c2", "gap", {{[on |-> "risk", arg |-> "high"], [on |-> "any", arg |-> ""]}}),
                 control("c3", "manual", {})}
MCPolicies == {p \in {
  {{[on |-> "cve", sel |-> ""]}, {[on |-> "hosted-llm"]}},
  {{[on |-> "eol", sel |-> "retired"]}},
  {{[on |-> "eol", sel |-> "before", date |-> 1030], [on |-> "hosted-llm"]}},
  {{[on |-> "risk", sel |-> "high"], [on |-> "local-model-file"]}, {[on |-> "vector-db"]}},
  {{[on |-> "cve", sel |-> ""], [on |-> "eol", sel |-> ""]}} } : ParsePolicy(p, {c.claim.kind : c \in Pool})}
=============================================================================
