------------------------------- MODULE Lexer -------------------------------
(* The region lexer, internal/ruleengine/lexer: a source text is cut into    *)
(* code, comments, strings and docstrings, and the regions a rule must not   *)
(* see are blanked in place.                                                 *)
(*                                                                           *)
(* A text is a sequence of symbols: the delimiters one by one, a word whole. *)
(* Positions count from 1, and the end of a region is the position after it. *)
EXTENDS Integers, Sequences

NL == "nl"  CR == "cr"  SP == "sp"  DQ == "dq"  SQ == "sq"  BT == "bt"  BS == "bs"
EOL == {NL, CR}

hasAt(src, i, s) == i >= 1 /\ i + Len(s) - 1 <= Len(src) /\ SubSeq(src, i, i + Len(s) - 1) = s
AtOr(src, i, default) == IF i \in DOMAIN src THEN src[i] ELSE default
LeastOr(S, default) == IF S = {} THEN default ELSE CHOOSE j \in S : \A k \in S : j <= k
Past(src) == Len(src) + 1
Triple(q) == <<q, q, q>>

(* The symbol at j is not taken by the symbol c before it: the run of c that
   ends before j and starts at from or later has an even length. *)
EvenRun(src, from, j, c) ==
  LET start == LeastOr({k \in from .. j : \A m \in k .. j - 1 : src[m] = c}, j) IN (j - start) % 2 = 0
Visited(src, from, j, escapes) == ~escapes \/ EvenRun(src, from, j, BS)

-----------------------------------------------------------------------------
(* Tokens: the end of the one that starts at i, or 0 *)

lineComment(src, i, open) ==
  IF hasAt(src, i, open) THEN LeastOr({j \in i + Len(open) .. Len(src) : src[j] \in EOL}, Past(src)) ELSE 0

blockComment(src, i, nested) ==
  LET scan[j \in 1 .. Len(src) + 2, depth \in 0 .. Len(src)] ==
        CASE j > Len(src)                          -> Past(src)
          [] hasAt(src, j, <<"*", "/">>)           -> IF depth = 1 THEN j + 2 ELSE scan[j + 2, depth - 1]
          [] nested /\ hasAt(src, j, <<"/", "*">>) -> scan[j + 2, depth + 1]
          [] OTHER                                 -> scan[j + 1, depth]
  IN IF hasAt(src, i, <<"/", "*">>) THEN scan[i + 2, 1] ELSE 0

(* scanQuoted: to the closing delimiter, or to the end of the line, which is
   not part of the literal. *)
scanQuoted(src, from, delim, escapes, multiline) ==
  LET stop == LeastOr({j \in from .. Len(src) : /\ src[j] = delim \/ (~multiline /\ src[j] \in EOL)
                                               /\ Visited(src, from, j, escapes)}, Past(src))
  IN IF AtOr(src, stop, NL) = delim THEN stop + 1 ELSE stop
quoted(src, i, delim, escapes, multiline) ==
  IF src[i] = delim THEN scanQuoted(src, i + 1, delim, escapes, multiline) ELSE 0
scanTriple(src, from, q, escapes) ==
  LET stop == LeastOr({j \in from .. Len(src) : hasAt(src, j, Triple(q)) /\ Visited(src, from, j, escapes)},
                      Past(src))
  IN IF stop = Past(src) THEN stop ELSE stop + 3
tripleQuoted(src, i, escapes) ==
  IF hasAt(src, i, Triple(DQ)) THEN scanTriple(src, i + 3, DQ, escapes) ELSE 0

(* How many of the first two symbols from i are prefix letters. *)
prefixLength(src, i, letters) ==
  IF AtOr(src, i, NL) \notin letters THEN 0 ELSE IF AtOr(src, i + 1, NL) \notin letters THEN 1 ELSE 2

pythonQuote(src, i) == i + prefixLength(src, i, {"r", "b", "f", "u"})
pythonString(src, i) ==
  LET j == pythonQuote(src, i)  raw == "r" \in {src[k] : k \in i .. j - 1}  q == AtOr(src, j, NL)
  IN CASE q \notin {DQ, SQ}          -> 0
       [] hasAt(src, j, Triple(q))   -> scanTriple(src, j + 3, q, ~raw)
       [] OTHER                      -> scanQuoted(src, j + 1, q, ~raw, FALSE)
allStrings(src, i) == "string"        \* a mutant: documentation is read as a value
(* A triple-quoted string that begins its line is a docstring. *)
tripleKind(src, i) ==
  LET before == {k \in 1 .. i - 1 : src[k] \notin {SP, CR}}
  IN IF before = {} \/ (\A k \in before : \E m \in before : k <= m /\ src[m] = NL) THEN "docstring" ELSE "string"
pythonKind(src, i) ==
  IF \E q \in {DQ, SQ} : hasAt(src, pythonQuote(src, i), Triple(q)) THEN tripleKind(src, i) ELSE "string"

scanRustRaw(src, from, hashes) ==
  LET closes == {j \in from .. Len(src) : src[j] = DQ /\ hasAt(src, j + 1, [k \in 1 .. hashes |-> "#"])}
  IN IF closes = {} THEN Past(src) ELSE LeastOr(closes, 0) + 1 + hashes
rustPrefixedString(src, i) ==
  LET j == IF src[i] = "b" THEN i + 1 ELSE i
      k == LeastOr({m \in j + 1 .. Past(src) : AtOr(src, m, NL) # "#"}, j + 1)
  IN CASE AtOr(src, j, NL) = "r" /\ AtOr(src, k, NL) = DQ -> scanRustRaw(src, k + 1, k - j - 1)
       [] src[i] = "b" /\ AtOr(src, j, NL) = DQ           -> scanQuoted(src, j + 1, DQ, TRUE, TRUE)
       [] OTHER                                           -> 0
(* A quote is a character only when one symbol, or an escape of at most ten,
   and a quote follow; otherwise it is a lifetime. *)
rustChar(src, i) ==
  LET escape == LeastOr({k \in i + 3 .. i + 11 : AtOr(src, k, NL) \in {SQ, NL}}, Past(src))
  IN CASE src[i] # SQ                  -> 0
       [] AtOr(src, i + 1, NL) = BS    -> IF AtOr(src, escape, NL) = SQ THEN escape + 1 ELSE 0
       [] OTHER -> IF AtOr(src, i + 1, SQ) # SQ /\ AtOr(src, i + 2, NL) = SQ THEN i + 3 ELSE 0

scanCSharpVerbatim(src, from) ==
  LET stop == LeastOr({j \in from .. Len(src) : /\ src[j] = DQ /\ AtOr(src, j + 1, NL) # DQ
                                               /\ EvenRun(src, from, j, DQ)}, Past(src))
  IN IF stop = Past(src) THEN stop ELSE stop + 1
csharpString(src, i) ==
  LET j == i + prefixLength(src, i, {"@", "$"})  verbatim == "@" \in {src[k] : k \in i .. j - 1}
  IN CASE AtOr(src, j, NL) # DQ         -> 0
       [] verbatim                      -> scanCSharpVerbatim(src, j + 1)
       [] hasAt(src, j, Triple(DQ))     -> scanTriple(src, j + 3, DQ, FALSE)
       [] OTHER                         -> scanQuoted(src, j + 1, DQ, TRUE, FALSE)

-----------------------------------------------------------------------------
(* Languages *)

CStyle == <<[t |-> "line", open |-> <<"/", "/">>], [t |-> "block", nested |-> FALSE]>>
Nesting == <<CStyle[1], [t |-> "block", nested |-> TRUE]>>
Plain(q) == <<[t |-> "quoted", q |-> q, esc |-> TRUE, multi |-> FALSE]>>

(* buildConfigs: the token forms of a language, in the order they are tried. *)
configs(lang) ==
  CASE lang \in {"javascript", "typescript"} ->
         CStyle \o Plain(DQ) \o Plain(SQ) \o <<[t |-> "quoted", q |-> BT, esc |-> TRUE, multi |-> TRUE]>>
    [] lang = "sql"    -> <<[t |-> "line", open |-> <<"-", "-">>], CStyle[2]>> \o Plain(SQ)
    [] lang = "python" -> <<[t |-> "line", open |-> <<"#">>], [t |-> "python"]>>
    [] lang = "go"     -> CStyle \o Plain(DQ) \o <<[t |-> "quoted", q |-> BT, esc |-> FALSE, multi |-> TRUE]>> \o Plain(SQ)
    [] lang = "java"   -> CStyle \o <<[t |-> "triple", esc |-> TRUE]>> \o Plain(DQ) \o Plain(SQ)
    [] lang = "rust"   -> Nesting \o <<[t |-> "rustPrefixed"], [t |-> "quoted", q |-> DQ, esc |-> TRUE, multi |-> TRUE],
                                       [t |-> "rustChar"]>>
    [] lang = "csharp" -> CStyle \o <<[t |-> "csharp"]>> \o Plain(SQ)
    [] lang = "kotlin" -> Nesting \o <<[t |-> "triple", esc |-> FALSE]>> \o Plain(DQ) \o Plain(SQ)
    [] OTHER           -> <<>>

tokenEnd(src, i, d) ==
  CASE d.t = "line"         -> lineComment(src, i, d.open)
    [] d.t = "block"        -> blockComment(src, i, d.nested)
    [] d.t = "quoted"       -> quoted(src, i, d.q, d.esc, d.multi)
    [] d.t = "triple"       -> tripleQuoted(src, i, d.esc)
    [] d.t = "python"       -> pythonString(src, i)
    [] d.t = "rustPrefixed" -> rustPrefixedString(src, i)
    [] d.t = "rustChar"     -> rustChar(src, i)
    [] d.t = "csharp"       -> csharpString(src, i)
tokenKind(src, i, d) ==
  CASE d.t \in {"line", "block"} -> "comment" [] d.t = "python" -> pythonKind(src, i) [] OTHER -> "string"

(* classify: the first form that fits at a position takes a region; what none
   takes is code.  The region type of every position. *)
region(src, i, cfg, ends) ==
  LET n == LeastOr({m \in DOMAIN cfg : ends[m] > i}, 0)
  IN IF n = 0 THEN <<"code">>
     ELSE [k \in 1 .. LeastOr({ends[n], Past(src)}, 0) - i |-> tokenKind(src, i, cfg[n])]
classify(src, cfg) ==
  LET from[i \in 1 .. Past(src)] ==
        IF i > Len(src) THEN <<>>
        ELSE LET r == region(src, i, cfg, [n \in DOMAIN cfg |-> tokenEnd(src, i, cfg[n])])
             IN r \o from[i + Len(r)]
  IN from[1]
Classify(lang, src) == classify(src, configs(lang))

(* Mask: blanks, and line ends where they were. *)
Mask(src, kinds, keep) ==
  [i \in DOMAIN src |-> IF kinds[i] \in keep \/ src[i] \in EOL THEN src[i] ELSE SP]
=============================================================================
