------------------------------ MODULE Matcher ------------------------------
(* The rule matcher, internal/ruleengine/matcher.go: the keyword prefilter,   *)
(* the regular expressions over the regions a rule reads, and the arguments   *)
(* captured around a match.                                                   *)
(*                                                                            *)
(* A regular expression is a sequence of elements, each a run of symbols of a *)
(* set; neighbouring elements share no symbol, so a match needs no            *)
(* backtracking.  A keyword is a sequence of whole symbols.                   *)
EXTENDS Lexer, FiniteSets, Functions, SequencesExt

CONSTANTS
  Lower(_),                    \* the ASCII lower case of a symbol
  Words, Identifiers, Numbers, \* the word symbols; some are identifiers, some are numbers
  MaxMatches, MaxAssigns       \* maxMatchesPerRulePerFile, maxAssignBindings
ASSUME MatcherAssumption == MaxMatches \in Nat \ {0} /\ MaxAssigns \in Nat \ {0}

White == {SP, NL, CR}
Quotes == {DQ, SQ}

Run(set, min, many, group) == [set |-> set, min |-> min, many |-> many, group |-> group]
One(set) == Run(set, 1, FALSE, "")
Some(set) == Run(set, 0, TRUE, "")

elementEnd(e, buf, p) ==
  LET many == LeastOr({q \in p .. Len(buf) : buf[q] \notin e.set}, Past(buf))
      end  == IF e.many THEN many ELSE IF AtOr(buf, p, "") \in e.set THEN p + 1 ELSE p
  IN IF p = 0 \/ end - p < e.min THEN 0 ELSE end
(* Where each element starts when the pattern is matched from i, and where the
   match ends; 0: there is none. *)
starts(pattern, buf, i) ==
  LET from[k \in 1 .. Len(pattern) + 1, p \in 0 .. Past(buf)] ==
        IF p = 0 \/ k > Len(pattern) THEN <<p>> ELSE <<p>> \o from[k + 1, elementEnd(pattern[k], buf, p)]
  IN from[1, i]
matchEnd(pattern, buf, i) == Last(starts(pattern, buf, i))

(* FindAll: leftmost, not overlapping; the start positions. *)
FindAll(buf, end(_)) ==
  LET from[i \in 1 .. Past(buf)] ==
        IF i > Len(buf) THEN <<>> ELSE LET e == end(i) IN IF e > i THEN <<i>> \o from[e] ELSE from[i + 1]
  IN from[1]
Up(seq, n) == IF Len(seq) > n THEN SubSeq(seq, 1, n) ELSE seq

-----------------------------------------------------------------------------
(* Regions and the prefilter *)

regionMaskOf(regions) == IF regions = {} THEN {"code", "string"} ELSE regions
foldForPrefilter(buf) ==
  LET kept == SelectSeq([i \in DOMAIN buf |-> i], LAMBDA i : ~(buf[i] \in White /\ AtOr(buf, i - 1, "") \in White))
  IN SubSeq([k \in DOMAIN kept |-> IF buf[kept[k]] \in White THEN SP ELSE Lower(buf[kept[k]])], 1, Len(kept))
hitBy(keyword, folded) == \E i \in DOMAIN folded : hasAt(folded, i, foldForPrefilter(keyword))
candidate(r, folded) == \E k \in r.keywords : hitBy(k, folded)

lineOf(content, p) == 1 + Cardinality({i \in 1 .. p - 1 : content[i] = NL})
lineStart(content, p) == 1 + LeastOr({i \in 0 .. p - 1 : \A j \in i + 1 .. p - 1 : content[j] # NL}, 0)
lineCol(content, p) == [line |-> lineOf(content, p), col |-> p - lineStart(content, p) + 1]
(* lineRange: the positions of the lines from .. to, without the last line end. *)
lineRange(content, from, to) ==
  LET ends == SelectSeq([i \in DOMAIN content |-> i], LAMBDA i : content[i] = NL)
  IN [start |-> IF from = 1 THEN 1 ELSE ends[from - 1] + 1,
      stop  |-> IF to \in DOMAIN ends THEN ends[to] - 1 ELSE Len(content)]

-----------------------------------------------------------------------------
(* captureParams *)

paramRe(name) ==
  << One(White \cup {"{", ",", "("}), Run(Quotes, 0, FALSE, ""), Run({name}, 1, FALSE, "name"),
     Run(Quotes, 0, FALSE, ""), Some(White), One({":", "="}), Some(White) >>
(* A quoted text on one line, or a run of words of the set. *)
quotedEnd(buf, p) ==
  LET close == LeastOr({q \in p + 1 .. Len(buf) : buf[q] \in {buf[p], NL}}, 0)
  IN IF AtOr(buf, close, NL) = NL THEN 0 ELSE close + 1
valueEnd(buf, p, words) ==
  IF AtOr(buf, p, "") \in Quotes THEN quotedEnd(buf, p) ELSE elementEnd(Run(words, 1, TRUE, ""), buf, p)
bindingEnd(re, buf, i) == LET p == matchEnd(re, buf, i) IN IF p = 0 THEN 0 ELSE valueEnd(buf, p, Words)
unquoted(val) == SelectSeq(val, LAMBDA s : s \notin Quotes)

bound(re, window, i) == SubSeq(window, matchEnd(re, window, i), bindingEnd(re, window, i) - 1)
bindingsIn(re, window, keys) ==
  {i \in ToSet(FindAll(window, LAMBDA j : bindingEnd(re, window, j))) : starts(re, window, i)[3] \in keys}
FirstOf(found) == IF found = {} THEN <<>> ELSE (CHOOSE b \in found : \A c \in found : b.at <= c.at).value
NearestOf(found) ==
  IF found = {} THEN <<>>
  ELSE (CHOOSE b \in found : \A c \in found : b.far < c.far \/ (b.far = c.far /\ b.at <= c.at)).value
Score(dist) == IF dist < 0 THEN 1 - 2 * dist ELSE 2 * dist
firstBinding(re, window, startLine, matchLine, keys) ==     \* a mutant: first in the window
  FirstOf({[at |-> i, value |-> bound(re, window, i)] : i \in bindingsIn(re, window, keys)})
(* nearestBinding: the binding on the line nearest to the match, at or after it
   when two are equally near.  The line of a binding is that of the symbol
   before its name. *)
nearestBinding(re, window, startLine, matchLine, keys) ==
  NearestOf({[at |-> i, far |-> Score(startLine + lineOf(window, i) - 1 - matchLine),
              value |-> bound(re, window, i)] : i \in bindingsIn(re, window, keys)})

(* newAssignResolver: the literals each identifier is assigned in a statement of
   the file; one that is assigned two different ones stays unresolved.  A type
   annotation before the sign is left out. *)
assignRe == <<Some({SP}), Run(Identifiers, 1, FALSE, "name"), Some({SP}), One({"="}), Some({SP})>>
(* What may stand after a literal: the end of the line, a semicolon, a comment. *)
statementEnd(buf, stop, isText) ==
  CASE stop = 0                                     -> 0
    [] AtOr(buf, stop, NL) = NL                     -> stop
    [] buf[stop] \in {";", "#"}                     -> stop + 1
    [] isText /\ hasAt(buf, stop, <<"/", "/">>)     -> stop + 2
    [] OTHER                                        -> 0
assigned(buf, name, eq, end) ==
  [ past  |-> IF end = 0 THEN 0
              ELSE statementEnd(buf, elementEnd(Some({SP, CR}), buf, end), buf[eq] \in Quotes),
    name  |-> name,
    value |-> IF end = 0 THEN <<>> ELSE unquoted(SubSeq(buf, eq, end - 1)) ]
literalEnd(buf, statement, eq) == IF statement /\ eq # 0 THEN valueEnd(buf, eq, Numbers) ELSE 0
assignment(buf, i) ==
  LET semicolon == AtOr(buf, i, "") = ";"
      at == starts(assignRe, buf, IF semicolon THEN i + 1 ELSE i)
  IN assigned(buf, at[2], Last(at),
              literalEnd(buf, semicolon \/ AtOr(buf, i - 1, NL) = NL, Last(at)))
assignments(capBuf, codeBuf) ==
  LET found == Up(FindAll(capBuf, LAMBDA i : assignment(capBuf, i).past), MaxAssigns)
      made  == {assignment(capBuf, i) : i \in ToSet(found)}
  IN {<<capBuf[a.name], a.value>> : a \in {x \in made : codeBuf[x.name] = capBuf[x.name]}}
resolve(bindings, val) ==
  LET literals == {b[2] : b \in {x \in bindings : <<x[1]>> = val}}
  IN IF Cardinality(literals) = 1 /\ <<>> \notin literals THEN CHOOSE l \in literals : TRUE ELSE val
resolved(bindings, val) == IF Len(val) = 1 /\ val[1] \in Identifiers THEN resolve(bindings, val) ELSE val

(* What the window around a match binds name to; <<>>: nothing. *)
capture(r, content, buf, capBuf, bindings, line, name) ==
  LET from    == IF line > r.capture.within THEN line - r.capture.within ELSE 1
      range   == lineRange(content, from, line + r.capture.within)
      win(b)  == SubSeq(b, range.start, range.stop)
      keys    == {p \in 1 .. Len(win(buf)) : win(buf)[p] = win(capBuf)[p]}
  IN resolved(bindings, unquoted(nearestBinding(paramRe(name), win(capBuf), from, line, keys)))
captured(r, groups) == IF r.capture.within = 0 THEN {} ELSE r.capture.names \cup ({"model"} \ DOMAIN groups)
(* captureParams: what was caught is added to the groups of the match. *)
captureParams(groups, caught) ==
  LET got == {n \in DOMAIN caught : caught[n] # <<>>} IN [n \in got |-> caught[n]] @@ groups

-----------------------------------------------------------------------------
(* finding and DetectFile *)

expand(t, fields) == IF t.var = "" THEN t.text ELSE IF t.var \in DOMAIN fields THEN fields[t.var] ELSE <<>>
matchFields(pattern, buf, i) ==
  LET at == starts(pattern, buf, i)
      named == {k \in DOMAIN pattern : pattern[k].group # "" /\ at[k + 1] > at[k]}
  IN [g \in {pattern[k].group : k \in named} |->
        LET k == CHOOSE x \in named : pattern[x].group = g IN SubSeq(buf, at[k], at[k + 1] - 1)]
relationsOf(r, fields) ==
  {[type |-> x.type, form |-> x.form,
    target |-> CASE x.form = "name"       -> expand(x.name, fields)
                 [] x.form = "from_field" -> <<x.field>>
                 [] OTHER                 -> <<"local">>] : x \in r.relations}

claimed(r, groups, fields, from, to) ==
  [ rule |-> r.id, kind |-> r.kind, risk |-> r.risk, name |-> expand(r.name, groups),
    version |-> expand(r.version, fields), from |-> from, to |-> to, fields |-> fields,
    relations |-> {x \in relationsOf(r, fields) : x.target # <<>>} ]
finding(r, content, buf, capBuf, bindings, i) ==
  LET groups == matchFields(r.pattern, buf, i)
  IN claimed(r, groups,
             captureParams(groups, [n \in captured(r, groups) |->
               capture(r, content, buf, capBuf, bindings, lineOf(content, i), n)]),
             lineCol(content, i), lineCol(content, matchEnd(r.pattern, buf, i)))

(* The masked texts of a file, by the region types they keep. *)
CaptureRegions == {"code", "string"}
masksOf(content, kinds, rules) ==
  [m \in {CaptureRegions, {"code"}} \cup {regionMaskOf(rules[id].regions) : id \in DOMAIN rules} |->
     Mask(content, kinds, m)]

runRule(r, content, masks, bindings) ==
  LET buf == masks[regionMaskOf(r.regions)]
      at  == Up(FindAll(buf, LAMBDA i : matchEnd(r.pattern, buf, i)), MaxMatches)
      all == [k \in DOMAIN at |-> finding(r, content, buf, masks[CaptureRegions], bindings, at[k])]
  IN SelectSeq(all, LAMBDA f : f.name # <<>>)

(* The rules of the file's language that a keyword lets in, in identifier order. *)
admitted(rules, order, lang, masks) ==
  LET folded == foldForPrefilter(masks[CaptureRegions])
  IN SelectSeq(order, LAMBDA id : /\ id \in DOMAIN rules
                                  /\ candidate(rules[id], folded)
                                  /\ rules[id].languages # {} => lang \in rules[id].languages)
=============================================================================
