------------------------------ MODULE Catalog ------------------------------
(* Which detectors see which file: the registry and the selection expression *)
(* of internal/engine/catalog.go, and the selector index and its globs of    *)
(* pkg/airom/detect.  Detectors are a sequence, in registration order; a      *)
(* path is the sequence of its segments.                                      *)
EXTENDS Integers, Sequences, FiniteSets, SequencesExt

(* Add and NewIndex panic, or refuse, on these. *)
WellFormed(detectors) ==
  /\ \A i \in DOMAIN detectors : detectors[i].id # ""
  /\ \A i, j \in DOMAIN detectors : detectors[i].id = detectors[j].id => i = j

matchesToken(d, t) == t = "all" \/ t = d.id \/ t \in d.tags

(* Select: bare tokens replace the default of everything, then the + and - ones
   are applied in the order written; a token nothing matches is an error. *)
Select(detectors, tokens) ==
  LET hits(t)  == {d.id : d \in {x \in ToSet(detectors) : matchesToken(x, t)}}
      bare     == {t \in ToSet(tokens) : t.op = ""}
      start    == IF bare = {} THEN {d.id : d \in ToSet(detectors)} ELSE UNION {hits(t.text) : t \in bare}
      chosen   == FoldLeft(LAMBDA acc, t : CASE t.op = "+" -> acc \cup hits(t.text)
                                             [] t.op = "-" -> acc \ hits(t.text)
                                             [] OTHER      -> acc, start, tokens)
      loud     == \E t \in ToSet(tokens) : t.text # "all" /\ hits(t.text) = {}
  IN IF loud \/ \E t \in ToSet(tokens) : t.text = ""
     THEN [ok |-> FALSE, detectors |-> <<>>]
     ELSE [ok |-> TRUE, detectors |-> SelectSeq(detectors, LAMBDA d : d.id \in chosen)]

(* A glob is a sequence of segments: "**" whole, "*" any one, or a name. *)
MatchGlob(pat, segs) ==
  LET m[i \in 1 .. Len(pat) + 1, j \in 1 .. Len(segs) + 1] ==
        CASE i > Len(pat)                  -> j > Len(segs)
          [] pat[i] = "**"                 -> i = Len(pat) \/ \E k \in j .. Len(segs) + 1 : m[i + 1, k]
          [] j > Len(segs)                 -> FALSE
          [] OTHER                         -> (pat[i] = "*" \/ pat[i] = segs[j]) /\ m[i + 1, j + 1]
  IN m[1, 1]

(* Match: one path dimension suffices, every other dimension must accept. *)
pathAccepts(sel, ref) ==
  \/ Last(ref.path) \in sel.basenames
  \/ ref.ext \in sel.extensions
  \/ \E g \in sel.globs : MatchGlob(g, ref.path)
  \/ sel.basenames = {} /\ sel.extensions = {} /\ sel.globs = {}
selectorRest(sel, ref) ==
  /\ sel.maxSize > 0 => ref.size <= sel.maxSize
  /\ sel.languages # {} => ref.language \in sel.languages
  /\ sel.magic # {} => ref.header \in sel.magic
Match(detectors, ref) ==
  SelectSeq(detectors, LAMBDA d : pathAccepts(d.selector, ref) /\ selectorRest(d.selector, ref))
=============================================================================
