--------------------------- MODULE DirWalk_proofs ---------------------------
(***************************************************************************)
(* Proofs about DirWalk, for any trees, ignore lines, globs, workers and    *)
(* pulls: the walk hands out what the rules leave, accounts for the rest,   *)
(* and the resolver agrees with it.                                         *)
(*                                                                          *)
(* The argument has three parts.  A node of the matcher is a sequence of    *)
(* patterns and the rules are about places in files: Lists says that a node *)
(* has the lines at a set of places, each once, in the order in which they  *)
(* override one another; childNode, lookup and the resolver's own gathering *)
(* all keep it, and then matches gives the verdict of the rules (Verdict).  *)
(* What is pending, in the queue or in a worker's hands, is apart: none of  *)
(* it is below another, so that every path is at or below at most one       *)
(* pending path (Once).  Hence a callback that is done with a path settles  *)
(* exactly what is at it and below it, and the files covered and the files  *)
(* counted are those no pending path stands before (Covered, Counted); when *)
(* nothing is pending they are all of the tree's.                           *)
(***************************************************************************)
EXTENDS DirWalk, FiniteSetTheorems, WellFoundedInduction, TLAPS


-----------------------------------------------------------------------------
(* Paths and their prefixes. *)

Path == Seq(STRING)

(* What a prefix of a path is. *)
LEMMA PrefixIs ==
  ASSUME NEW p \in Path, NEW q \in Prefixes(p)
  PROVE  /\ q \in Path /\ Len(q) \in 0 .. Len(p) /\ q = SubSeq(p, 1, Len(q))
         /\ \A i \in 1 .. Len(q) : q[i] = p[i]
<1>1. PICK l \in 0 .. Len(p) : q = SubSeq(p, 1, l)
  BY DEF Prefixes
<1>2. PICK X : X = STRING
  OBVIOUS
<1>3. p \in Seq(X) /\ Len(p) \in Nat
  BY <1>2 DEF Path
<1>4. q \in Seq(X) /\ Len(q) = l
  BY <1>1, <1>3
<1>5. \A i \in 1 .. l : q[i] = p[i]
  BY <1>1, <1>3
<1> QED
  BY <1>1, <1>2, <1>3, <1>4, <1>5 DEF Path

(* A shorter path that agrees with a path is a prefix of it. *)
LEMMA IsAPrefix ==
  ASSUME NEW p \in Path, NEW q \in Path, Len(q) <= Len(p), \A i \in 1 .. Len(q) : q[i] = p[i]
  PROVE  q \in Prefixes(p)
<1>1. PICK X : X = STRING
  OBVIOUS
<1>2. p \in Seq(X) /\ q \in Seq(X) /\ Len(p) \in Nat /\ Len(q) \in Nat
  BY <1>1 DEF Path
<1>3. SubSeq(p, 1, Len(q)) = q
  BY <1>2
<1>4. Len(q) \in 0 .. Len(p)
  BY <1>2
<1> QED
  BY <1>3, <1>4 DEF Prefixes

(* Two paths of the same names are the same. *)
LEMMA SamePath ==
  ASSUME NEW p \in Path, NEW q \in Path, Len(q) = Len(p), \A i \in 1 .. Len(q) : q[i] = p[i]
  PROVE  q = p
<1>1. PICK X : X = STRING
  OBVIOUS
<1>2. p \in Seq(X) /\ q \in Seq(X) /\ Len(p) \in Nat /\ Len(q) \in Nat
  BY <1>1 DEF Path
<1> QED
  BY <1>2

(* The length of a path. *)
LEMMA LenPath ==
  ASSUME NEW p \in Path
  PROVE  Len(p) \in Nat
  BY DEF Path

(* A path and the root are prefixes of it; only the root is empty. *)
LEMMA Self ==
  ASSUME NEW p \in Path
  PROVE  /\ p \in Prefixes(p) /\ Root \in Prefixes(p) /\ Root \in Path
         /\ Len(Root) = 0 /\ (p = Root <=> Len(p) = 0)
<1>1. PICK X : X = STRING
  OBVIOUS
<1>2. p \in Seq(X) /\ Root \in Seq(X) /\ Len(Root) = 0 /\ Len(p) \in Nat
  BY <1>1 DEF Path, Root
<1>3. Root \in Path
  BY <1>1, <1>2 DEF Path
<1>4. p = Root <=> Len(p) = 0
  BY <1>2 DEF Root
<1>5. p \in Prefixes(p)
  BY <1>2, IsAPrefix
<1>6. Root \in Prefixes(p)
  <2>1. Len(Root) <= Len(p) /\ \A i \in 1 .. Len(Root) : Root[i] = p[i]
    BY <1>2
  <2> QED
    BY <1>3, <2>1, IsAPrefix
<1> QED
  BY <1>2, <1>3, <1>4, <1>5, <1>6

(* Prefixes of prefixes are prefixes, and two of one path are comparable. *)
LEMMA Transitive ==
  ASSUME NEW p \in Path, NEW q \in Prefixes(p), NEW r \in Prefixes(q)
  PROVE  r \in Prefixes(p)
<1>1. q \in Path /\ Len(q) \in 0 .. Len(p) /\ \A i \in 1 .. Len(q) : q[i] = p[i]
  BY PrefixIs
<1>2. r \in Path /\ Len(r) \in 0 .. Len(q) /\ \A i \in 1 .. Len(r) : r[i] = q[i]
  BY <1>1, PrefixIs
<1>3. Len(r) <= Len(p) /\ \A i \in 1 .. Len(r) : r[i] = p[i]
  BY <1>1, <1>2, LenPath
<1> QED
  BY <1>2, <1>3, IsAPrefix

(* Of two prefixes of a path, the shorter is one of the longer. *)
LEMMA Comparable ==
  ASSUME NEW p \in Path, NEW q \in Prefixes(p), NEW r \in Prefixes(p), Len(q) <= Len(r)
  PROVE  q \in Prefixes(r)
<1>1. q \in Path /\ Len(q) \in 0 .. Len(p) /\ \A i \in 1 .. Len(q) : q[i] = p[i]
  BY PrefixIs
<1>2. r \in Path /\ Len(r) \in 0 .. Len(p) /\ \A i \in 1 .. Len(r) : r[i] = p[i]
  BY PrefixIs
<1>3. \A i \in 1 .. Len(q) : q[i] = r[i]
  BY <1>1, <1>2, LenPath
<1> QED
  BY <1>1, <1>2, <1>3, IsAPrefix

(* A prefix as long as its path is the path. *)
LEMMA Antisymmetric ==
  ASSUME NEW p \in Path, NEW q \in Prefixes(p), Len(q) = Len(p) \/ p \in Prefixes(q)
  PROVE  q = p
<1>1. q \in Path /\ Len(q) \in 0 .. Len(p) /\ \A i \in 1 .. Len(q) : q[i] = p[i]
  BY PrefixIs
<1>2. p \in Prefixes(q) => Len(p) \in 0 .. Len(q)
  BY <1>1, PrefixIs
<1>3. Len(q) = Len(p)
  BY <1>1, <1>2, LenPath
<1> QED
  BY <1>1, <1>3, SamePath

(* The directory of a path. *)
LEMMA FrontOf ==
  ASSUME NEW p \in Path, p # Root
  PROVE  /\ Front(p) \in Path /\ Len(Front(p)) = Len(p) - 1 /\ Len(p) \in Nat \ {0}
         /\ Prefixes(Front(p)) = Prefixes(p) \ {p} /\ Front(p) \in Prefixes(p)
<1>1. Len(p) \in Nat \ {0}
  BY LenPath, Self
<1>2. Len(p) - 1 \in 0 .. Len(p)
  BY <1>1
<1>3. Front(p) \in Prefixes(p)
  BY <1>2 DEF Front, Prefixes
<1>4. PICK X : X = STRING
  OBVIOUS
<1>5. Len(Front(p)) = Len(p) - 1
  <2>1. PICK n \in Nat : n = Len(p) - 1
    BY <1>2
  <2>2. p \in Seq(X) /\ n <= Len(p)
    BY <1>1, <1>4, <2>1 DEF Path
  <2>3. Len(SubSeq(p, 1, n)) = n
    BY <2>2
  <2> QED
    BY <2>1, <2>3 DEF Front
<1>6. Front(p) \in Path
  BY <1>3, PrefixIs
<1>7. ASSUME NEW q \in Prefixes(p), q # p PROVE q \in Prefixes(Front(p))
  <2>1. Len(q) \in 0 .. Len(p) /\ Len(q) # Len(p)
    BY <1>7, PrefixIs, Antisymmetric
  <2>2. Len(q) <= Len(Front(p))
    BY <1>1, <1>5, <2>1
  <2> QED
    BY <1>3, <2>2, Comparable
<1>8. ASSUME NEW q \in Prefixes(Front(p)) PROVE q \in Prefixes(p) /\ q # p
  <2>1. q \in Prefixes(p)
    BY <1>3, Transitive
  <2>2. Len(q) \in 0 .. Len(Front(p))
    BY <1>6, PrefixIs
  <2> QED
    BY <1>1, <1>5, <2>1, <2>2
<1> QED
  BY <1>1, <1>3, <1>5, <1>6, <1>7, <1>8

(* Below a prefix of a path, there is one that is one name longer. *)
LEMMA NextBelow ==
  ASSUME NEW p \in Path, NEW q \in Prefixes(p), q # p
  PROVE  \E c \in Prefixes(p) : c # Root /\ Front(c) = q
<1>1. q \in Path /\ Len(q) \in 0 .. Len(p) /\ Len(q) # Len(p)
  BY PrefixIs, Antisymmetric
<1>2. Len(q) + 1 \in 0 .. Len(p) /\ Len(p) \in Nat /\ Len(q) \in Nat
  BY <1>1, LenPath
<1>3. PICK c : c = SubSeq(p, 1, Len(q) + 1)
  OBVIOUS
<1>4. c \in Prefixes(p)
  BY <1>2, <1>3 DEF Prefixes
<1>5. PICK X : X = STRING
  OBVIOUS
<1>6. Len(c) = Len(q) + 1
  BY <1>2, <1>3, <1>5 DEF Path
<1>7. c \in Path
  BY <1>4, PrefixIs
<1>8. c # Root
  BY <1>2, <1>6, <1>7, Self
<1>9. Front(c) \in Path /\ Len(Front(c)) = Len(q) /\ Front(c) \in Prefixes(c)
  BY <1>2, <1>6, <1>7, <1>8, FrontOf
<1>10. Front(c) \in Prefixes(p)
  BY <1>4, <1>9, Transitive
<1>11. q \in Prefixes(Front(c))
  BY <1>2, <1>9, <1>10, Comparable
<1>12. q = Front(c)
  BY <1>9, <1>11, Antisymmetric
<1> QED
  BY <1>4, <1>8, <1>12

(* IsPrefix is membership of Prefixes. *)
LEMMA PrefixTest ==
  ASSUME NEW p \in Path, NEW q \in Path
  PROVE  IsPrefix(q, p) <=> q \in Prefixes(p)
<1>1. PICK X : X = STRING
  OBVIOUS
<1>2. p \in Seq(X) /\ q \in Seq(X) /\ Len(p) \in Nat /\ Len(q) \in Nat
  BY <1>1 DEF Path
<1>3. SubSeq(q, 1, Len(q)) = q
  BY <1>2
<1>4. ASSUME IsPrefix(q, p) PROVE q \in Prefixes(p)
  <2>1. Len(q) \in 0 .. Len(p) /\ q = SubSeq(p, 1, Len(q))
    BY <1>2, <1>3, <1>4 DEF IsPrefix
  <2> QED
    BY <2>1 DEF Prefixes
<1>5. ASSUME q \in Prefixes(p) PROVE IsPrefix(q, p)
  <2>1. Len(q) <= Len(p) /\ q = SubSeq(p, 1, Len(q))
    BY <1>2, <1>5, PrefixIs
  <2> QED
    BY <1>3, <2>1 DEF IsPrefix
<1> QED
  BY <1>4, <1>5

-----------------------------------------------------------------------------
(* Induction over the naturals, for sets and for functions, and what
   FlattenSeq computes. *)

(* Induction over the naturals, as a fact about sets. *)
Below == {p \in Nat \X Nat : p[1] < p[2]}

(* The order of the naturals is well founded. *)
LEMMA BelowWellFounded == IsWellFoundedOn(Below, Nat)
<1>1. OpToRel(<, Nat) = Below
  BY DEF OpToRel, Below
<1> QED
  BY <1>1, NatLessThanWellFounded

(* So every set of naturals that has an element has a first one. *)
LEMMA First ==
  ASSUME NEW T \in SUBSET Nat, T # {}
  PROVE  \E x \in T : \A y \in T : x <= y
<1>1. \E x \in T : \A y \in T : ~ (<<y, x>> \in Below)
  BY BelowWellFounded, WFMin
<1>2. PICK x \in T : \A y \in T : ~ (<<y, x>> \in Below)
  BY <1>1
<1>3. ASSUME NEW y \in T PROVE x <= y
  <2>1. <<y, x>> \in Nat \X Nat /\ <<y, x>>[1] = y /\ <<y, x>>[2] = x
    OBVIOUS
  <2>2. ~(y < x)
    BY <1>2, <2>1 DEF Below
  <2> QED
    BY <2>2
<1> QED
  BY <1>3

(* Induction over the naturals, for a set. *)
LEMMA Induction ==
  ASSUME NEW T, 0 \in T, \A n \in Nat : n \in T => n + 1 \in T
  PROVE  Nat \subseteq T
<1> SUFFICES ASSUME Nat \ T # {} PROVE FALSE
  OBVIOUS
<1>1. PICK x \in Nat \ T : \A y \in Nat \ T : x <= y
  BY First
<1>2. x - 1 \in Nat /\ x - 1 \in T
  BY <1>1
<1> QED
  BY <1>1, <1>2

Within(next, Y) == \A n \in Nat : \A y \in Y : next[n][y] \in Y
Chain(n, Y, y0, next) == \E F \in [0 .. n -> Y] : F[0] = y0 /\ \A i \in 1 .. n : F[i] = next[i][F[i - 1]]

(* What each value of a sequence is made of the one before has such a sequence. *)
LEMMA Iterates ==
  ASSUME NEW Y, NEW y0 \in Y, NEW next, Within(next, Y)
  PROVE  \A n \in Nat : Chain(n, Y, y0, next)
<1>1. PICK T : T = {n \in Nat : \E F \in [0 .. n -> Y] :
                      F[0] = y0 /\ \A i \in 1 .. n : F[i] = next[i][F[i - 1]]}
  OBVIOUS
<1>2. 0 \in T
  <2>1. PICK F : F = [i \in 0 .. 0 |-> y0]
    OBVIOUS
  <2>2. F \in [0 .. 0 -> Y] /\ F[0] = y0
    BY <2>1
  <2> QED
    BY <1>1, <2>2
<1>3. ASSUME NEW n \in Nat, n \in T PROVE n + 1 \in T
  <2>1. PICK F \in [0 .. n -> Y] : F[0] = y0 /\ \A i \in 1 .. n : F[i] = next[i][F[i - 1]]
    BY <1>1, <1>3
  <2>2. PICK new : new = next[n + 1][F[n]]
    OBVIOUS
  <2>3. new \in Y
    <3>1. F[n] \in Y /\ n + 1 \in Nat
      BY <2>1
    <3> QED
      BY <2>2, <3>1 DEF Within
  <2>4. PICK G : G = [i \in 0 .. n + 1 |-> IF i = n + 1 THEN new ELSE F[i]]
    OBVIOUS
  <2>5. G \in [0 .. n + 1 -> Y]
    <3>1. \A i \in 0 .. n + 1 : i # n + 1 => i \in 0 .. n
      OBVIOUS
    <3> QED
      BY <2>3, <2>4, <3>1
  <2>6. \A i \in 0 .. n : G[i] = F[i]
    BY <2>4
  <2>7. G[n + 1] = new
    BY <2>4
  <2>8. G[0] = y0
    BY <2>1, <2>6
  <2>9. ASSUME NEW i \in 1 .. n + 1 PROVE G[i] = next[i][G[i - 1]]
    <3>1. CASE i = n + 1
      <4>1. i - 1 = n /\ n \in 0 .. n
        BY <3>1
      <4> QED
        BY <2>2, <2>6, <2>7, <3>1, <4>1
    <3>2. CASE i # n + 1
      <4>1. i \in 1 .. n /\ i \in 0 .. n /\ i - 1 \in 0 .. n
        BY <3>2
      <4> QED
        BY <2>1, <2>6, <4>1
    <3> QED
      BY <3>1, <3>2
  <2> QED
    BY <1>1, <2>5, <2>8, <2>9
<1>4. Nat \subseteq T
  BY <1>2, <1>3, Induction
<1> QED
  BY <1>1, <1>4 DEF Chain


Parts(of, n, A) == DOMAIN of = 1 .. n /\ Len(of) = n /\ \A i \in 1 .. n : of[i] \in Seq(A)
Joined(F, of, n) == F[0] = <<>> /\ \A i \in 1 .. n : F[i] = F[i - 1] \o of[i]

(* What the concatenation of a sequence of sequences is. *)
LEMMA Flattened ==
  ASSUME NEW A, NEW n \in Nat \ {0}, NEW of, Parts(of, n, A)
  PROVE  \E F \in [0 .. n -> Seq(A)] : Joined(F, of, n) /\ FlattenSeq(of) = F[n]
<1> USE DEF Parts
<1>1. PICK X : X = Seq(A)
  OBVIOUS
<1>2. PICK step : step = [i \in Nat |-> [s \in X |-> IF i \in 1 .. n THEN s \o of[i] ELSE s]]
  OBVIOUS
<1>3. \A i \in 1 .. n : \A s \in X : s \o of[i] \in X
  BY <1>1
<1>4. Within(step, X)
  BY <1>2, <1>3 DEF Within
<1>5. PICK x0 : x0 = <<>>
  OBVIOUS
<1>6. x0 \in X
  BY <1>1, <1>5
<1>7. \A m \in Nat : Chain(m, X, x0, step)
  BY <1>4, <1>6, Iterates
<1>8. PICK E \in [0 .. n -> X] : E[0] = x0 /\ \A i \in 1 .. n : E[i] = step[i][E[i - 1]]
  BY <1>7 DEF Chain
<1>9. \A i \in 1 .. n : E[i] = E[i - 1] \o of[i] /\ E[i - 1] \in X
  <2> SUFFICES ASSUME NEW i \in 1 .. n PROVE E[i] = E[i - 1] \o of[i] /\ E[i - 1] \in X
    OBVIOUS
  <2>1. i \in Nat /\ i - 1 \in 0 .. n
    OBVIOUS
  <2>2. E[i - 1] \in X
    BY <1>8, <2>1
  <2> QED
    BY <1>2, <1>8, <2>1, <2>2
<1>10. \A s \in X : <<>> \o s = s
  BY <1>1
<1>11. E[1] = of[1]
  <2>1. 1 \in 1 .. n /\ 1 - 1 = 0
    OBVIOUS
  <2>2. E[1] = <<>> \o of[1]
    BY <1>5, <1>8, <1>9, <2>1
  <2>3. of[1] \in X
    BY <1>1, <2>1
  <2> QED
    BY <1>10, <2>2, <2>3
<1>12. \E H : H = [i \in 1 .. n |-> IF i = 1 THEN of[i] ELSE H[i - 1] \o of[i]]
  <2>1. PICK H : H = [i \in 1 .. n |-> E[i]]
    OBVIOUS
  <2>2. \A i \in 1 .. n : H[i] = IF i = 1 THEN of[i] ELSE H[i - 1] \o of[i]
    <3> SUFFICES ASSUME NEW i \in 1 .. n, i # 1 PROVE H[i] = H[i - 1] \o of[i]
      BY <1>11, <2>1
    <3>1. i - 1 \in 1 .. n
      OBVIOUS
    <3> QED
      BY <1>9, <2>1, <3>1
  <2>3. H = [i \in 1 .. n |-> IF i = 1 THEN of[i] ELSE H[i - 1] \o of[i]]
    BY <2>1, <2>2
  <2> QED
    BY <2>3
<1>13. PICK G : G = CHOOSE H : H = [i \in 1 .. n |-> IF i = 1 THEN of[i] ELSE H[i - 1] \o of[i]]
  OBVIOUS
<1>14. G = [i \in 1 .. n |-> IF i = 1 THEN of[i] ELSE G[i - 1] \o of[i]]
  BY <1>12, <1>13
<1>15. FlattenSeq(of) = G[n]
  BY <1>13 DEF FlattenSeq
<1>16. \A i \in 1 .. n : G[i] \in X
  <2>1. PICK T : T = {i \in Nat : i + 1 \in 1 .. n => G[i + 1] \in X}
    OBVIOUS
  <2>2. 0 \in T
    BY <1>1, <1>14, <2>1
  <2>3. ASSUME NEW i \in Nat, i \in T PROVE i + 1 \in T
    <3> SUFFICES ASSUME (i + 1) + 1 \in 1 .. n PROVE G[(i + 1) + 1] \in X
      BY <2>1
    <3>1. PICK j \in 1 .. n : j = i + 1 /\ j + 1 \in 1 .. n
      OBVIOUS
    <3>2. G[j] \in X
      BY <2>1, <2>3, <3>1
    <3>3. G[j + 1] = G[j] \o of[j + 1]
      <4>1. j + 1 # 1 /\ (j + 1) - 1 = j
        OBVIOUS
      <4>2. \A m \in 1 .. n : m # 1 => G[m] = G[m - 1] \o of[m]
        BY <1>14
      <4> QED
        BY <3>1, <4>1, <4>2
    <3> QED
      BY <1>3, <3>1, <3>2, <3>3
  <2>4. Nat \subseteq T
    BY <2>2, <2>3, Induction
  <2>5. ASSUME NEW i \in 1 .. n PROVE G[i] \in X
    <3>1. i - 1 \in Nat /\ (i - 1) + 1 = i
      OBVIOUS
    <3> QED
      BY <2>1, <2>4, <3>1
  <2> QED
    BY <2>5
<1>17. PICK F : F = [i \in 0 .. n |-> IF i = 0 THEN x0 ELSE G[i]]
  OBVIOUS
<1>18. F \in [0 .. n -> X]
  <2>1. \A i \in 0 .. n : i # 0 => i \in 1 .. n
    OBVIOUS
  <2> QED
    BY <1>6, <1>16, <1>17, <2>1
<1>19. F[0] = <<>> /\ F[n] = G[n]
  BY <1>5, <1>17
<1>20. ASSUME NEW i \in 1 .. n PROVE F[i] = F[i - 1] \o of[i]
  <2>1. F[i] = G[i]
    BY <1>17
  <2>2. CASE i = 1
    <3>1. G[i] = of[i] /\ F[i - 1] = <<>> /\ of[i] \in X
      BY <1>1, <1>5, <1>14, <1>17, <2>2
    <3> QED
      BY <1>10, <2>1, <3>1
  <2>3. CASE i # 1
    <3>1. i - 1 \in 1 .. n /\ i - 1 \in 0 .. n /\ i - 1 # 0
      BY <2>3
    <3>2. F[i - 1] = G[i - 1]
      BY <1>17, <3>1
    <3> QED
      BY <1>14, <2>1, <2>3, <3>2
  <2> QED
    BY <2>2, <2>3
<1> QED
  BY <1>1, <1>15, <1>18, <1>19, <1>20 DEF Joined

-----------------------------------------------------------------------------
(* Nodes and the lines they list. *)

Pattern == [line : Line, domain : Path]
Place == Path \X {1, 2} \X Nat

(* The lines of the ignore files of a directory and of those above it. *)
Own(d) == IF d \in DOMAIN tree.lines THEN PlacesIn(d) ELSE {}
Upto(dir) == UNION {Own(d) : d \in Prefixes(dir)}

(* A node lists the lines at S, each once, the one that beats another later. *)
Lists(node, S) ==
  /\ node \in Seq(Pattern)
  /\ S \subseteq Place
  /\ \E at \in [DOMAIN node -> S] :
       /\ \A n \in DOMAIN node : node[n].line = LineAt(at[n]) /\ node[n].domain = at[n][1]
       /\ \A m, n \in DOMAIN node : m < n => Beats(at[n], at[m])
       /\ \A a \in S : \E n \in DOMAIN node : at[n] = a

(* Of two lines at most one beats the other. *)
LEMMA BeatsIsStrict ==
  ASSUME NEW a \in Place, NEW b \in Place, Beats(a, b)
  PROVE  ~Beats(b, a)
<1>1. PICK m \in Nat : m = Len(a[1])
  BY LenPath DEF Place
<1>2. PICK n \in Nat : n = Len(b[1])
  BY LenPath DEF Place
<1>3. a[2] \in Nat /\ b[2] \in Nat /\ a[3] \in Nat /\ b[3] \in Nat
  BY DEF Place
<1>4. a[1] = b[1] => m = n
  BY <1>1, <1>2
<1> QED
  BY <1>1, <1>2, <1>3, <1>4 DEF Beats

(* The matcher's verdict is the one the rules state. *)
LEMMA Judged ==
  ASSUME NEW p \in Path, p # Root, NEW isDir, NEW node, Lists(node, Upto(Front(p)))
  PROVE  matches(node, p, isDir) <=>
           \E a \in Places(p) : /\ Applies(a, p, isDir) /\ ~LineAt(a).neg
                                /\ ~\E b \in Places(p) : Applies(b, p, isDir) /\ Beats(b, a)
<1>1. PICK S : S = Upto(Front(p))
  OBVIOUS
<1>2. Places(p) = S
  <2>1. Prefixes(Front(p)) = Prefixes(p) \ {p}
    BY FrontOf
  <2> QED
    BY <1>1, <2>1 DEF Places, Upto, Own
<1>3. S \subseteq Place
  BY <1>1 DEF Lists
<1>4. \A a \in S : a[1] \in Prefixes(p) /\ a[1] # p
  <2> SUFFICES ASSUME NEW a \in S PROVE a[1] \in Prefixes(p) /\ a[1] # p
    OBVIOUS
  <2>1. PICK d \in Prefixes(Front(p)) : a \in PlacesIn(d)
    BY <1>1 DEF Upto, Own
  <2>2. a[1] = d
    BY <2>1 DEF PlacesIn
  <2> QED
    BY <2>2, FrontOf
<1>5. PICK at \in [DOMAIN node -> S] :
        /\ \A n \in DOMAIN node : node[n].line = LineAt(at[n]) /\ node[n].domain = at[n][1]
        /\ \A m, n \in DOMAIN node : m < n => Beats(at[n], at[m])
        /\ \A a \in S : \E n \in DOMAIN node : at[n] = a
  BY <1>1 DEF Lists
<1>6. \A n \in DOMAIN node : patternMatches(node[n], p, isDir) <=> Applies(at[n], p, isDir)
  <2> SUFFICES ASSUME NEW n \in DOMAIN node
               PROVE  patternMatches(node[n], p, isDir) <=> Applies(at[n], p, isDir)
    OBVIOUS
  <2>1. node[n].domain = at[n][1] /\ node[n].line = LineAt(at[n]) /\ at[n] \in S
    BY <1>5
  <2>2. at[n][1] \in Prefixes(p) /\ at[n][1] # p /\ at[n][1] \in Path
    BY <1>4, <2>1, PrefixIs
  <2>3. IsStrictPrefix(node[n].domain, p)
    BY <2>1, <2>2, PrefixTest DEF IsStrictPrefix
  <2> QED
    BY <2>1, <2>3 DEF patternMatches, Applies
<1>7. PICK N \in Nat : DOMAIN node = 1 .. N /\ Len(node) = N
  BY DEF Lists
<1>8. ASSUME matches(node, p, isDir)
      PROVE  \E a \in S : /\ Applies(a, p, isDir) /\ ~LineAt(a).neg
                          /\ ~\E b \in S : Applies(b, p, isDir) /\ Beats(b, a)
  <2>1. PICK n \in DOMAIN node :
          /\ patternMatches(node[n], p, isDir)
          /\ ~node[n].line.neg
          /\ \A m \in n + 1 .. N : ~patternMatches(node[m], p, isDir)
    BY <1>7, <1>8 DEF matches
  <2>2. Applies(at[n], p, isDir) /\ ~LineAt(at[n]).neg /\ at[n] \in S
    BY <1>5, <1>6, <2>1
  <2>3. ASSUME NEW b \in S, Applies(b, p, isDir), Beats(b, at[n]) PROVE FALSE
    <3>1. PICK m \in DOMAIN node : at[m] = b
      BY <1>5
    <3>2. patternMatches(node[m], p, isDir)
      BY <1>6, <2>3, <3>1
    <3>3. ~(m \in n + 1 .. N)
      BY <2>1, <3>2
    <3>4. m < n \/ m = n
      BY <1>7, <3>3
    <3>5. Beats(at[n], b) \/ at[n] = b
      BY <1>5, <3>1, <3>4
    <3>6. at[n] \in Place /\ b \in Place
      BY <1>3, <2>2
    <3> QED
      BY <2>3, <3>5, <3>6, BeatsIsStrict
  <2> QED
    BY <2>2, <2>3
<1>9. ASSUME NEW a \in S, Applies(a, p, isDir), ~LineAt(a).neg,
             ~\E b \in S : Applies(b, p, isDir) /\ Beats(b, a)
      PROVE  matches(node, p, isDir)
  <2>1. PICK n \in DOMAIN node : at[n] = a
    BY <1>5
  <2>2. patternMatches(node[n], p, isDir) /\ ~node[n].line.neg
    BY <1>5, <1>6, <1>9, <2>1
  <2>3. ASSUME NEW m \in n + 1 .. N PROVE ~patternMatches(node[m], p, isDir)
    <3>1. m \in DOMAIN node /\ n < m
      BY <1>7
    <3>2. at[m] \in S /\ Beats(at[m], a)
      BY <1>5, <2>1, <3>1
    <3> QED
      BY <1>6, <1>9, <3>1, <3>2
  <2> QED
    BY <1>7, <2>2, <2>3 DEF matches
<1> QED
  BY <1>2, <1>8, <1>9

(* One list after another. *)
LEMMA Appended ==
  ASSUME NEW u, NEW v, NEW S, NEW R, Lists(u, S), Lists(v, R),
         \A a \in S : \A b \in R : Beats(b, a)
  PROVE  Lists(u \o v, S \cup R)
<1>1. PICK P : P = Pattern
  OBVIOUS
<1>2. u \in Seq(P) /\ v \in Seq(P) /\ S \cup R \subseteq Place
  BY <1>1 DEF Lists
<1>3. PICK f \in [DOMAIN u -> S] :
        /\ \A n \in DOMAIN u : u[n].line = LineAt(f[n]) /\ u[n].domain = f[n][1]
        /\ \A m, n \in DOMAIN u : m < n => Beats(f[n], f[m])
        /\ \A a \in S : \E n \in DOMAIN u : f[n] = a
  BY DEF Lists
<1>4. PICK g \in [DOMAIN v -> R] :
        /\ \A n \in DOMAIN v : v[n].line = LineAt(g[n]) /\ v[n].domain = g[n][1]
        /\ \A m, n \in DOMAIN v : m < n => Beats(g[n], g[m])
        /\ \A a \in R : \E n \in DOMAIN v : g[n] = a
  BY DEF Lists
<1>5. PICK M \in Nat, N \in Nat : DOMAIN u = 1 .. M /\ DOMAIN v = 1 .. N /\ Len(u) = M /\ Len(v) = N
  BY <1>2
<1>6. PICK w : w = u \o v
  OBVIOUS
<1>7. /\ w \in Seq(P) /\ DOMAIN w = 1 .. M + N
      /\ \A n \in 1 .. M : w[n] = u[n]
      /\ \A n \in 1 .. N : w[n + M] = v[n]
  <2>1. w \in Seq(P) /\ Len(w) = M + N
    <3>1. u \o v \in Seq(P) /\ Len(u \o v) = Len(u) + Len(v)
      BY <1>2
    <3> QED
      BY <1>5, <1>6, <3>1
  <2>2. DOMAIN w = 1 .. M + N
    BY <2>1
  <2>3. \A n \in 1 .. M + N : w[n] = IF n <= M THEN u[n] ELSE v[n - M]
    <3>1. \A n \in 1 .. Len(u) + Len(v) :
            (u \o v)[n] = IF n <= Len(u) THEN u[n] ELSE v[n - Len(u)]
      BY <1>2
    <3> QED
      BY <1>5, <1>6, <3>1
  <2>4. \A n \in 1 .. M : n \in 1 .. M + N /\ n <= M
    OBVIOUS
  <2>5. \A n \in 1 .. N : n + M \in 1 .. M + N /\ ~(n + M <= M) /\ (n + M) - M = n
    OBVIOUS
  <2> QED
    BY <2>1, <2>2, <2>3, <2>4, <2>5
<1>8. PICK h : h = [n \in 1 .. M + N |-> IF n <= M THEN f[n] ELSE g[n - M]]
  OBVIOUS
<1>9. \A n \in 1 .. M + N : (n <= M => n \in 1 .. M) /\ (~(n <= M) => n - M \in 1 .. N /\ (n - M) + M = n)
  OBVIOUS
<1>10. h \in [1 .. M + N -> S \cup R]
  BY <1>3, <1>4, <1>5, <1>8, <1>9
<1>11. \A n \in 1 .. M + N : w[n].line = LineAt(h[n]) /\ w[n].domain = h[n][1]
  <2> SUFFICES ASSUME NEW n \in 1 .. M + N PROVE w[n].line = LineAt(h[n]) /\ w[n].domain = h[n][1]
    OBVIOUS
  <2>1. CASE n <= M
    <3>1. n \in 1 .. M /\ w[n] = u[n] /\ h[n] = f[n]
      BY <1>7, <1>8, <1>9, <2>1
    <3> QED
      BY <1>3, <1>5, <3>1
  <2>2. CASE ~(n <= M)
    <3>1. PICK k \in 1 .. N : k = n - M /\ k + M = n
      BY <1>9, <2>2
    <3>2. w[n] = v[k] /\ h[n] = g[k]
      BY <1>7, <1>8, <2>2, <3>1
    <3> QED
      BY <1>4, <1>5, <3>2
  <2> QED
    BY <2>1, <2>2
<1>12. \A m, n \in 1 .. M + N : m < n => Beats(h[n], h[m])
  <2> SUFFICES ASSUME NEW m \in 1 .. M + N, NEW n \in 1 .. M + N, m < n PROVE Beats(h[n], h[m])
    OBVIOUS
  <2>1. CASE n <= M
    <3>1. m \in 1 .. M /\ n \in 1 .. M /\ h[n] = f[n] /\ h[m] = f[m]
      BY <1>8, <2>1
    <3> QED
      BY <1>3, <1>5, <3>1
  <2>2. CASE ~(n <= M) /\ m <= M
    <3>1. PICK k \in 1 .. N : k = n - M
      BY <1>9, <2>2
    <3>2. h[n] = g[k] /\ h[m] = f[m] /\ m \in 1 .. M
      BY <1>8, <2>2, <3>1
    <3>3. g[k] \in R /\ f[m] \in S
      BY <1>3, <1>4, <1>5, <3>2
    <3> QED
      BY <3>2, <3>3
  <2>3. CASE ~(n <= M) /\ ~(m <= M)
    <3>1. PICK k \in 1 .. N, l \in 1 .. N : k = n - M /\ l = m - M
      BY <1>9, <2>3
    <3>2. h[n] = g[k] /\ h[m] = g[l] /\ l < k
      BY <1>8, <2>3, <3>1
    <3> QED
      BY <1>4, <1>5, <3>2
  <2> QED
    BY <2>1, <2>2, <2>3
<1>13. \A a \in S \cup R : \E n \in 1 .. M + N : h[n] = a
  <2>1. ASSUME NEW a \in S PROVE \E n \in 1 .. M + N : h[n] = a
    <3>1. PICK n \in 1 .. M : f[n] = a
      BY <1>3, <1>5
    <3>2. n \in 1 .. M + N /\ n <= M
      OBVIOUS
    <3> QED
      BY <1>8, <3>1, <3>2
  <2>2. ASSUME NEW a \in R PROVE \E n \in 1 .. M + N : h[n] = a
    <3>1. PICK k \in 1 .. N : g[k] = a
      BY <1>4, <1>5
    <3>2. PICK n \in 1 .. M + N : n = k + M /\ ~(n <= M) /\ n - M = k
      OBVIOUS
    <3> QED
      BY <1>8, <3>1, <3>2
  <2> QED
    BY <2>1, <2>2
<1>14. w \in Seq(Pattern) /\ DOMAIN w = 1 .. M + N
  BY <1>1, <1>7
<1>15. \E at \in [DOMAIN w -> S \cup R] :
         /\ \A n \in DOMAIN w : w[n].line = LineAt(at[n]) /\ w[n].domain = at[n][1]
         /\ \A m, n \in DOMAIN w : m < n => Beats(at[n], at[m])
         /\ \A a \in S \cup R : \E n \in DOMAIN w : at[n] = a
  <2>1. h \in [DOMAIN w -> S \cup R]
    BY <1>10, <1>14
  <2>2. /\ \A n \in DOMAIN w : w[n].line = LineAt(h[n]) /\ w[n].domain = h[n][1]
        /\ \A m, n \in DOMAIN w : m < n => Beats(h[n], h[m])
        /\ \A a \in S \cup R : \E n \in DOMAIN w : h[n] = a
    BY <1>11, <1>12, <1>13, <1>14
  <2> QED
    BY <2>1, <2>2
<1>16. Lists(w, S \cup R)
  BY <1>2, <1>14, <1>15 DEF Lists
<1> QED
  BY <1>6, <1>16

(* No node, no lines. *)
LEMMA ListsNothing ==
  ASSUME NEW S, S = {}
  PROVE  Lists(<<>>, S)
<1>1. PICK P : P = Pattern
  OBVIOUS
<1>2. <<>> \in Seq(P) /\ DOMAIN <<>> = {}
  OBVIOUS
<1>3. PICK node : node = <<>>
  OBVIOUS
<1>4. node \in Seq(Pattern) /\ DOMAIN node = {}
  BY <1>1, <1>2, <1>3
<1>5. PICK at : at = [n \in {} |-> n]
  OBVIOUS
<1>6. at \in [DOMAIN node -> S]
  BY <1>4, <1>5
<1>7. Lists(node, S)
  BY <1>4, <1>6 DEF Lists
<1> QED
  BY <1>3, <1>7

(* What one file says. *)
LEMMA ListsFile ==
  ASSUME NEW d \in Path, NEW f \in {1, 2}, NEW ls \in Seq(Line),
         ls = tree.lines[d][ignoreFileNames[f]], NEW node,
         node = [n \in DOMAIN ls |-> [line |-> ls[n], domain |-> d]]
  PROVE  Lists(node, {<<d, f, n>> : n \in DOMAIN ls})
<1>1. PICK N \in Nat : DOMAIN ls = 1 .. N /\ \A n \in 1 .. N : ls[n] \in Line
  <2>1. PICK L : L = Line
    OBVIOUS
  <2> QED
    BY <2>1
<1>2. PICK S : S = {<<d, f, n>> : n \in DOMAIN ls}
  OBVIOUS
<1>3. S \subseteq Place
  BY <1>1, <1>2 DEF Place
<1>4. \A n \in 1 .. N : node[n] \in Pattern
  BY <1>1 DEF Pattern
<1>5. node \in Seq(Pattern) /\ DOMAIN node = 1 .. N
  <2>1. PICK P : P = Pattern
    OBVIOUS
  <2>2. node = [n \in 1 .. N |-> [line |-> ls[n], domain |-> d]]
    BY <1>1
  <2>3. \A n \in 1 .. N : [line |-> ls[n], domain |-> d] \in P
    BY <1>1, <2>1 DEF Pattern
  <2>4. [n \in 1 .. N |-> [line |-> ls[n], domain |-> d]] \in Seq(P)
    BY <2>3
  <2> QED
    BY <1>1, <2>1, <2>2, <2>4
<1>6. PICK at : at = [n \in 1 .. N |-> <<d, f, n>>]
  OBVIOUS
<1>7. at \in [DOMAIN node -> S]
  BY <1>1, <1>2, <1>5, <1>6
<1>8. \A n \in 1 .. N : node[n].line = LineAt(at[n]) /\ node[n].domain = at[n][1]
  BY <1>1, <1>6 DEF LineAt
<1>9. \A m, n \in 1 .. N : m < n => Beats(at[n], at[m])
  BY <1>6 DEF Beats
<1>10. \A a \in S : \E n \in 1 .. N : at[n] = a
  BY <1>1, <1>2, <1>6
<1>11. \E h \in [DOMAIN node -> S] :
         /\ \A n \in DOMAIN node : node[n].line = LineAt(h[n]) /\ node[n].domain = h[n][1]
         /\ \A m, n \in DOMAIN node : m < n => Beats(h[n], h[m])
         /\ \A a \in S : \E n \in DOMAIN node : h[n] = a
  <2>1. /\ \A n \in DOMAIN node : node[n].line = LineAt(at[n]) /\ node[n].domain = at[n][1]
        /\ \A m, n \in DOMAIN node : m < n => Beats(at[n], at[m])
        /\ \A a \in S : \E n \in DOMAIN node : at[n] = a
    BY <1>5, <1>8, <1>9, <1>10
  <2> QED
    BY <1>7, <2>1
<1> QED
  BY <1>2, <1>3, <1>5, <1>11 DEF Lists

-----------------------------------------------------------------------------
(* The node of a directory, and the verdict. *)

(* The ignore files of a directory are lines. *)
LEMMA TreeFiles ==
  ASSUME tree \in Trees, NEW d \in DOMAIN tree.lines, NEW f \in {1, 2}
  PROVE  tree.lines[d][ignoreFileNames[f]] \in Seq(Line)
<1>1. ignoreFileNames[f] \in {".gitignore", ".airomignore"}
  BY DEF ignoreFileNames
<1> QED
  BY <1>1, DirWalkAssumption

(* A directory's ignore files, one after the other. *)
LEMMA OwnLines ==
  ASSUME tree \in Trees, NEW d \in Path
  PROVE  Lists(readIgnoreFiles(d, d), Own(d))
<1>1. CASE d \notin DOMAIN tree.lines
  <2>1. readIgnoreFiles(d, d) = <<>> /\ Own(d) = {}
    BY <1>1 DEF readIgnoreFiles, Own
  <2> QED
    BY <2>1, ListsNothing
<1>2. CASE d \in DOMAIN tree.lines
  <2>1. PICK l1 \in Seq(Line) : l1 = tree.lines[d][ignoreFileNames[1]]
    BY <1>2, TreeFiles
  <2>2. PICK l2 \in Seq(Line) : l2 = tree.lines[d][ignoreFileNames[2]]
    BY <1>2, TreeFiles
  <2>3. PICK u : u = [n \in DOMAIN l1 |-> [line |-> l1[n], domain |-> d]]
    OBVIOUS
  <2>4. PICK v : v = [n \in DOMAIN l2 |-> [line |-> l2[n], domain |-> d]]
    OBVIOUS
  <2>5. PICK S : S = {<<d, 1, n>> : n \in DOMAIN l1}
    OBVIOUS
  <2>6. PICK R : R = {<<d, 2, n>> : n \in DOMAIN l2}
    OBVIOUS
  <2>7. Lists(u, S)
    BY <2>1, <2>3, <2>5, ListsFile
  <2>8. Lists(v, R)
    BY <2>2, <2>4, <2>6, ListsFile
  <2>9. \A a \in S : \A b \in R : Beats(b, a)
    BY <2>5, <2>6 DEF Beats
  <2>10. Lists(u \o v, S \cup R)
    BY <2>7, <2>8, <2>9, Appended
  <2>11. Own(d) = S \cup R
    <3>1. DOMAIN ignoreFileNames = {1, 2}
      BY DEF ignoreFileNames
    <3> QED
      BY <1>2, <2>1, <2>2, <2>5, <2>6, <3>1 DEF Own, PlacesIn
  <2>12. readIgnoreFiles(d, d) = u \o v
    <3>1. DOMAIN ignoreFileNames = 1 .. 2 /\ 1 \in DOMAIN ignoreFileNames /\ 2 \in DOMAIN ignoreFileNames
      BY DEF ignoreFileNames
    <3>2. PICK of : of = [f \in DOMAIN ignoreFileNames |->
                 LET ls == tree.lines[d][ignoreFileNames[f]]
                 IN  [n \in DOMAIN ls |-> [line |-> ls[n], domain |-> d]]]
      OBVIOUS
    <3>3. of[1] = u /\ of[2] = v
      BY <2>1, <2>2, <2>3, <2>4, <3>1, <3>2
    <3>4. DOMAIN of = 1 .. 2
      BY <3>1, <3>2
    <3>5. Len(of) = 2
      <4>1. of = [f \in 1 .. 2 |-> of[f]]
        BY <3>2, <3>4
      <4> QED
        BY <4>1
    <3>6. PICK A : A = Pattern
      OBVIOUS
    <3>7. u \in Seq(A) /\ v \in Seq(A)
      BY <2>7, <2>8, <3>6 DEF Lists
    <3>8. PICK n \in Nat \ {0} : n = 2
      OBVIOUS
    <3>9. \A i \in 1 .. n : i = 1 \/ i = 2
      BY <3>8
    <3>10. Parts(of, n, A)
      BY <3>3, <3>4, <3>5, <3>7, <3>8, <3>9 DEF Parts
    <3>11. PICK F \in [0 .. n -> Seq(A)] : Joined(F, of, n) /\ FlattenSeq(of) = F[n]
      BY <3>10, Flattened
    <3>12. F[1] = F[0] \o of[1] /\ F[2] = F[1] \o of[2]
      <4>1. 1 \in 1 .. n /\ 2 \in 1 .. n /\ 1 - 1 = 0 /\ 2 - 1 = 1
        BY <3>8
      <4> QED
        BY <3>11, <4>1 DEF Joined
    <3>13. <<>> \o u = u
      BY <3>7
    <3>14. FlattenSeq(of) = u \o v
      BY <3>3, <3>8, <3>11, <3>12, <3>13 DEF Joined
    <3> QED
      BY <1>2, <3>2, <3>14 DEF readIgnoreFiles
  <2> QED
    BY <2>10, <2>11, <2>12
<1> QED
  BY <1>1, <1>2

(* A directory adds its own lines to those of the directory above. *)
LEMMA UptoNext ==
  ASSUME NEW d \in Path
  PROVE  /\ d = Root => Upto(d) = Own(d)
         /\ d # Root => Upto(d) = Upto(Front(d)) \cup Own(d)
<1>1. CASE d = Root
  <2>1. \A q \in Prefixes(d) : q = d
    <3> SUFFICES ASSUME NEW q \in Prefixes(d) PROVE q = d
      OBVIOUS
    <3>1. Len(d) = 0 /\ Len(q) \in 0 .. Len(d)
      BY <1>1, PrefixIs, Self
    <3>2. Len(q) = Len(d)
      BY <3>1
    <3> QED
      BY <3>2, Antisymmetric
  <2>2. d \in Prefixes(d)
    BY Self
  <2> QED
    BY <1>1, <2>1, <2>2 DEF Upto
<1>2. CASE d # Root
  <2>1. Prefixes(Front(d)) = Prefixes(d) \ {d} /\ d \in Prefixes(d)
    BY <1>2, FrontOf, Self
  <2> QED
    BY <1>2, <2>1 DEF Upto
<1> QED
  BY <1>1, <1>2

(* A line of its own is a line of that directory. *)
LEMMA PlaceOf ==
  ASSUME NEW d, NEW a \in Own(d)
  PROVE  a[1] = d
  BY DEF Own, PlacesIn

(* childNode lists what the node of the directory above lists, and then the
   lines of the directory itself: a deeper line comes later. *)
LEMMA ChildLists ==
  ASSUME tree \in Trees, NEW d \in Path, d # Root, NEW parent, Lists(parent, Upto(Front(d)))
  PROVE  Lists(childNode(parent, d, d), Upto(d))
<1>1. PICK S : S = Upto(Front(d))
  OBVIOUS
<1>2. PICK R : R = Own(d)
  OBVIOUS
<1>3. PICK v : v = readIgnoreFiles(d, d)
  OBVIOUS
<1>4. Lists(parent, S) /\ Lists(v, R)
  BY <1>1, <1>2, <1>3, OwnLines
<1>5. ASSUME NEW a \in S, NEW b \in R PROVE Beats(b, a)
  <2>1. b[1] = d
    BY <1>2, PlaceOf
  <2>2. PICK e \in Prefixes(Front(d)) : a \in Own(e)
    BY <1>1 DEF Upto
  <2>3. a[1] = e
    BY <2>2, PlaceOf
  <2>4. Front(d) \in Path /\ Len(Front(d)) = Len(d) - 1 /\ Len(d) \in Nat \ {0}
    BY FrontOf
  <2>5. Len(e) \in 0 .. Len(Front(d))
    BY <2>4, PrefixIs
  <2>6. Len(d) > Len(e)
    BY <2>4, <2>5
  <2> QED
    BY <2>1, <2>3, <2>6 DEF Beats
<1>6. Lists(parent \o v, S \cup R)
  BY <1>4, <1>5, Appended
<1>7. Upto(d) = S \cup R
  BY <1>1, <1>2, UptoNext
<1> QED
  BY <1>3, <1>6, <1>7 DEF childNode

(* No node is stored for a directory only when it has no lines of its own. *)
LEMMA SameNode ==
  ASSUME tree \in Trees, NEW d \in Path, NEW parent \in Seq(Pattern), childNode(parent, d, d) = parent
  PROVE  Own(d) = {}
<1>1. PICK v : v = readIgnoreFiles(d, d)
  OBVIOUS
<1>2. Lists(v, Own(d))
  BY <1>1, OwnLines
<1>3. PICK P : P = Pattern
  OBVIOUS
<1>4. v \in Seq(P) /\ parent \in Seq(P)
  BY <1>2, <1>3 DEF Lists
<1>5. Len(parent \o v) = Len(parent) + Len(v) /\ Len(parent) \in Nat /\ Len(v) \in Nat
  BY <1>4
<1>6. Len(v) = 0
  BY <1>1, <1>5 DEF childNode
<1>7. DOMAIN v = {}
  BY <1>4, <1>6
<1> QED
  BY <1>2, <1>7 DEF Lists

-----------------------------------------------------------------------------
(* The stored nodes are those of the directories they are stored under. *)
NodesOk(nodes) ==
  Root \in DOMAIN nodes /\ \A r \in DOMAIN nodes : r \in Path /\ Lists(nodes[r], Upto(r))
(* Every directory on the way to q with lines of its own has one. *)
Settled(nodes, q) == \A r \in Prefixes(q) : Own(r) # {} => r \in DOMAIN nodes

(* lookup finds a node with all the lines up to q, once every directory on
   the way with lines of its own has stored its node. *)
LEMMA LookedUp ==
  ASSUME NEW nodes, NodesOk(nodes), NEW q \in Path, Settled(nodes, q)
  PROVE  Lists(lookup(nodes, q), Upto(q))
<1>1. PICK H : H = Prefixes(q) \cap DOMAIN nodes
  OBVIOUS
<1>2. \A r \in H : r \in Path /\ Len(r) \in 0 .. Len(q) /\ r \in Prefixes(q)
  BY <1>1, PrefixIs
<1>3. \E r \in H : \A t \in H : Len(t) <= Len(r)
  <2>1. PICK T : T = {n \in Nat : \E r \in H : n = Len(q) - Len(r)}
    OBVIOUS
  <2>2. Root \in H
    BY <1>1, Self DEF NodesOk
  <2>3. \A r \in H : Len(q) - Len(r) \in Nat
    BY <1>2, LenPath
  <2>4. T \in SUBSET Nat /\ T # {}
    BY <2>1, <2>2, <2>3
  <2>5. PICK n \in T : \A m \in T : n <= m
    BY <2>4, First
  <2>6. PICK r \in H : n = Len(q) - Len(r)
    BY <2>1, <2>5
  <2>7. ASSUME NEW t \in H PROVE Len(t) <= Len(r)
    <3>1. Len(q) - Len(t) \in T
      BY <2>1, <2>3
    <3>2. Len(q) - Len(r) <= Len(q) - Len(t)
      BY <2>5, <2>6, <3>1
    <3>3. Len(q) \in Int /\ Len(t) \in Int /\ Len(r) \in Int
      BY <1>2, LenPath
    <3> QED
      BY <3>2, <3>3
  <2> QED
    BY <2>7
<1>4. PICK r : r = CHOOSE x \in H : \A t \in H : Len(t) <= Len(x)
  OBVIOUS
<1>5. r \in H /\ \A t \in H : Len(t) <= Len(r)
  BY <1>3, <1>4
<1>6. lookup(nodes, q) = nodes[r]
  BY <1>1, <1>4 DEF lookup
<1>7. Upto(q) = Upto(r)
  <2>1. Prefixes(r) \subseteq Prefixes(q)
    BY <1>2, <1>5, Transitive
  <2>2. ASSUME NEW t \in Prefixes(q), Own(t) # {} PROVE t \in Prefixes(r)
    <3>1. t \in H
      BY <1>1, <2>2 DEF Settled
    <3>2. Len(t) <= Len(r) /\ r \in Prefixes(q)
      BY <1>2, <1>5, <3>1
    <3> QED
      BY <3>2, Comparable
  <2> QED
    BY <2>1, <2>2 DEF Upto
<1>8. Lists(nodes[r], Upto(r))
  BY <1>1, <1>5 DEF NodesOk
<1> QED
  BY <1>6, <1>7, <1>8

(* So what the code asks of a node is what the rules say of the path. *)
LEMMA Verdict ==
  ASSUME NEW p \in Path, p # Root, NEW isDir, NEW node, Lists(node, Upto(Front(p)))
  PROVE  TurnedAway(p, isDir) <=> defaultMatch(p, isDir) \/ matches(node, p, isDir) \/ userIgnored(p, isDir)
<1>1. matches(node, p, isDir) <=>
           \E a \in Places(p) : /\ Applies(a, p, isDir) /\ ~LineAt(a).neg
                                /\ ~\E b \in Places(p) : Applies(b, p, isDir) /\ Beats(b, a)
  BY Judged
<1> QED
  BY <1>1 DEF TurnedAway

-----------------------------------------------------------------------------
(* The tree. *)

(* What is assumed of a tree. *)
LEMMA TreeShape ==
  ASSUME tree \in Trees
  PROVE  /\ IsFiniteSet(DOMAIN tree.kind) /\ DOMAIN tree.kind \subseteq Path
         /\ Root \in DOMAIN tree.kind /\ tree.kind[Root] = "dir"
         /\ \A p \in DOMAIN tree.kind : p # Root =>
              Front(p) \in DOMAIN tree.kind /\ tree.kind[Front(p)] = "dir"
         /\ DOMAIN tree.link \subseteq DOMAIN tree.kind
         /\ \A p \in DOMAIN tree.link : tree.kind[p] = "link"
  BY DirWalkAssumption DEF Path

(* What is above a path of the tree is in it, and a directory. *)
LEMMA Ancestors ==
  ASSUME tree \in Trees, NEW p \in DOMAIN tree.kind, NEW q \in Prefixes(p)
  PROVE  q \in DOMAIN tree.kind /\ (q # p => tree.kind[q] = "dir")
<1> DEFINE Fine(r) == \A t \in Prefixes(r) : t \in DOMAIN tree.kind /\ (t # r => tree.kind[t] = "dir")
<1>1. PICK T : T = {n \in Nat : \A r \in DOMAIN tree.kind : Len(r) = n => Fine(r)}
  OBVIOUS
<1>2. 0 \in T
  <2>1. ASSUME NEW r \in DOMAIN tree.kind, Len(r) = 0, NEW t \in Prefixes(r) PROVE t = r
    <3>1. r \in Path
      BY TreeShape
    <3>2. Len(t) \in 0 .. Len(r)
      BY <3>1, PrefixIs
    <3>3. Len(t) = Len(r)
      BY <2>1, <3>2
    <3> QED
      BY <3>1, <3>3, Antisymmetric
  <2> QED
    BY <1>1, <2>1
<1>3. ASSUME NEW n \in Nat, n \in T PROVE n + 1 \in T
  <2>1. ASSUME NEW r \in DOMAIN tree.kind, Len(r) = n + 1 PROVE Fine(r)
    <3>1. r \in Path /\ r # Root
      BY <2>1, TreeShape, Self
    <3>2. /\ Front(r) \in DOMAIN tree.kind /\ tree.kind[Front(r)] = "dir" /\ Len(Front(r)) = n
          /\ Prefixes(Front(r)) = Prefixes(r) \ {r}
      BY <2>1, <3>1, TreeShape, FrontOf
    <3>3. Fine(Front(r))
      BY <1>1, <1>3, <3>2
    <3> QED
      BY <3>2, <3>3
  <2> QED
    BY <1>1, <2>1
<1>4. Nat \subseteq T
  BY <1>2, <1>3, Induction
<1>5. Len(p) \in T
  BY <1>4, TreeShape, LenPath
<1>6. Fine(p)
  BY <1>1, <1>5
<1> QED
  BY <1>6

(* The children of a directory, and what is below them. *)
LEMMA Child ==
  ASSUME tree \in Trees, NEW d \in DOMAIN tree.kind, NEW c \in children(d)
  PROVE  /\ c \in DOMAIN tree.kind /\ c \in Path /\ c # Root /\ c \notin gone /\ Front(c) = d
         /\ d \in Prefixes(c) /\ d # c /\ Prefixes(c) = Prefixes(d) \cup {c}
<1>1. c \in DOMAIN tree.kind /\ c # Root /\ c \notin gone /\ Front(c) = d
  BY DEF children
<1>2. c \in Path
  BY <1>1, TreeShape
<1>3. Prefixes(d) = Prefixes(c) \ {c} /\ d \in Prefixes(c) /\ c \in Prefixes(c)
  BY <1>1, <1>2, FrontOf, Self
<1>4. d # c
  BY <1>1, <1>2, FrontOf
<1> QED
  BY <1>1, <1>2, <1>3, <1>4

(* What is in a directory the walk enters and lists is met. *)
LEMMA MetChild ==
  ASSUME tree \in Trees, NEW d \in DOMAIN tree.kind, NEW c \in children(d),
         Met(d), d = Root \/ ~TurnedAway(d, TRUE), d \notin tree.closed
  PROVE  Met(c)
<1>1. /\ c \in Path /\ c # Root /\ d # c /\ Prefixes(c) = Prefixes(d) \cup {c}
  BY Child
<1>2. d \in Path
  BY TreeShape
<1>3. Above(c) \subseteq Above(d) \cup ({d} \ {Root})
  BY <1>1 DEF Above
<1> QED
  BY <1>1, <1>3 DEF Met, Listable

-----------------------------------------------------------------------------
(* What is pending, and what is through. *)

Held(h) ==
  IF h.at \in {"layer", "list"} THEN {h.dir}
  ELSE IF h.at = "visit" THEN h.left
  ELSE IF h.at = "emit" THEN {h.file} \cup h.left
  ELSE {}
Pend(s, hs) == s.queue \cup UNION {Held(hs[i]) : i \in Worker}

(* Nothing is pending twice, nor with what it is below. *)
Apart(P) == \A q, r \in P : q \in Prefixes(r) => q = r
Once(s, hs) ==
  /\ \A i \in Worker : s.queue \cap Held(hs[i]) = {}
  /\ \A i, j \in Worker : i # j => Held(hs[i]) \cap Held(hs[j]) = {}
  /\ Apart(Pend(s, hs))

Through(p, P) == \A q \in Prefixes(p) : q \notin P

Skipped(P) == {p \in DOMAIN tree.kind :
  tree.kind[p] = "file" /\ Met(p) /\ TurnedAway(p, FALSE) /\ Through(p, P)}
Pruned(P) == {p \in DOMAIN tree.kind \ {Root} :
  tree.kind[p] = "dir" /\ Met(p) /\ TurnedAway(p, TRUE) /\ Through(p, P)}

Hands(hs) == DOMAIN hs = Worker
Turned(hs, i, h, ht) == Hands(hs) /\ ht = [hs EXCEPT ![i] = h]

(* One worker's callback takes D from what is pending and adds nothing. *)
Taken(s, hs, i, t, h, D) ==
  /\ D \subseteq s.queue \cup Held(hs[i]) /\ t.queue \cap Held(h) = {}
  /\ t.queue \cup Held(h) = (s.queue \cup Held(hs[i])) \ D

(* A callback that takes D from what is pending leaves the rest apart. *)
LEMMA Moved ==
  ASSUME NEW s, NEW hs, NEW i \in Worker, NEW h, NEW t, NEW ht, NEW D,
         Turned(hs, i, h, ht), Once(s, hs), Taken(s, hs, i, t, h, D)
  PROVE  Once(t, ht) /\ Pend(t, ht) = Pend(s, hs) \ D
<1> USE DEF Taken, Turned, Hands
<1>1. PICK rest : rest = UNION {Held(hs[j]) : j \in Worker \ {i}}
  OBVIOUS
<1>2. ht[i] = h /\ \A j \in Worker \ {i} : ht[j] = hs[j]
  OBVIOUS
<1>3. Pend(s, hs) = (s.queue \cup Held(hs[i])) \cup rest
  BY <1>1 DEF Pend
<1>4. Pend(t, ht) = (t.queue \cup Held(h)) \cup rest
  <2>1. UNION {Held(ht[j]) : j \in Worker} = Held(h) \cup rest
    BY <1>1, <1>2
  <2> QED
    BY <2>1 DEF Pend
<1>5. (s.queue \cup Held(hs[i])) \cap rest = {}
  BY <1>1 DEF Once
<1>6. Pend(t, ht) = Pend(s, hs) \ D
  BY <1>3, <1>4, <1>5
<1>7. Apart(Pend(t, ht))
  BY <1>6 DEF Once, Apart
<1>8. ASSUME NEW j \in Worker \ {i} PROVE t.queue \cap Held(ht[j]) = {} /\ Held(h) \cap Held(ht[j]) = {}
  <2>1. Held(ht[j]) \subseteq rest
    BY <1>1, <1>2
  <2> QED
    BY <1>5, <2>1
<1>9. \A j \in Worker : t.queue \cap Held(ht[j]) = {}
  BY <1>2, <1>8
<1>10. \A j, l \in Worker : j # l => Held(ht[j]) \cap Held(ht[l]) = {}
  BY <1>2, <1>8 DEF Once
<1> QED
  BY <1>6, <1>7, <1>9, <1>10 DEF Once

(* A directory gives way to what is in it. *)
Opened(P, d, Q) == Q = (P \ {d}) \cup children(d)

(* So does a listing, which puts the children in the place of the directory. *)
LEMMA Listed ==
  ASSUME tree \in Trees, NEW s, NEW hs, NEW i \in Worker, NEW h, NEW t, NEW ht,
         NEW d \in DOMAIN tree.kind,
         Turned(hs, i, h, ht), Once(s, hs), Held(hs[i]) = {d}, Held(h) = children(d),
         t.queue = s.queue, Pend(s, hs) \subseteq Path
  PROVE  Once(t, ht) /\ Opened(Pend(s, hs), d, Pend(t, ht))
<1>1. PICK rest : rest = s.queue \cup UNION {Held(hs[j]) : j \in Worker \ {i}}
  OBVIOUS
<1>2. ht[i] = h /\ \A j \in Worker \ {i} : ht[j] = hs[j]
  BY DEF Turned, Hands
<1>3. Pend(s, hs) = rest \cup {d} /\ d \notin rest
  BY <1>1 DEF Pend, Once
<1>4. Pend(t, ht) = rest \cup children(d)
  BY <1>1, <1>2 DEF Pend
<1>5. PICK C : C = children(d)
  OBVIOUS
<1>6. \A c \in C : /\ c \in Path /\ d \in Prefixes(c) /\ d # c /\ Front(c) = d /\ c # Root
                   /\ Prefixes(c) = Prefixes(d) \cup {c}
  BY <1>5, Child
<1>7. d \in Path
  BY TreeShape
<1>8. ASSUME NEW c \in C, NEW q \in rest PROVE ~(q \in Prefixes(c)) /\ ~(c \in Prefixes(q)) /\ q # c
  <2>1. q \in Pend(s, hs) /\ d \in Pend(s, hs) /\ q # d /\ q \in Path
    BY <1>3
  <2>2. ~(d \in Prefixes(q)) /\ ~(q \in Prefixes(d))
    BY <2>1 DEF Once, Apart
  <2>3. q # c
    BY <1>6, <2>2
  <2>4. ~(q \in Prefixes(c))
    BY <1>6, <2>2, <2>3
  <2>5. ~(c \in Prefixes(q))
    BY <1>6, <2>1, <2>2, Transitive
  <2> QED
    BY <2>3, <2>4, <2>5
<1>9. ASSUME NEW c \in C, NEW e \in C, c \in Prefixes(e) PROVE c = e
  <2>1. c = e \/ c \in Prefixes(d)
    BY <1>6, <1>9
  <2>2. ~(c \in Prefixes(d))
    <3> SUFFICES ASSUME c \in Prefixes(d) PROVE FALSE
      OBVIOUS
    <3>1. d \in Prefixes(c)
      BY <1>6
    <3>2. c = d
      BY <1>7, <3>1, Antisymmetric
    <3> QED
      BY <1>6, <3>2
  <2> QED
    BY <2>1, <2>2
<1>10. Apart(Pend(t, ht))
  <2>1. \A q, r \in rest : q \in Prefixes(r) => q = r
    BY <1>3 DEF Once, Apart
  <2> QED
    BY <1>4, <1>5, <1>8, <1>9, <2>1 DEF Apart
<1>11. C \cap rest = {}
  BY <1>8
<1>12. \A j \in Worker : t.queue \cap Held(ht[j]) = {}
  <2>1. t.queue \cap C = {}
    BY <1>1, <1>11
  <2> QED
    BY <1>2, <1>5, <2>1 DEF Once
<1>13. \A j, l \in Worker : j # l => Held(ht[j]) \cap Held(ht[l]) = {}
  <2>1. \A j \in Worker \ {i} : C \cap Held(ht[j]) = {}
    BY <1>1, <1>2, <1>11
  <2> QED
    BY <1>2, <1>5, <2>1 DEF Once
<1> QED
  BY <1>3, <1>4, <1>10, <1>12, <1>13 DEF Once, Opened

-----------------------------------------------------------------------------
(* What is accounted for. *)

(* Every visible file is still ahead of the walk, or was handed out, or is
   gone, or something on the way to it is among the unknowns. *)
Reached(k, p, out, unknowns, g) ==
  \/ p \in g
  \/ wanted(k, p) => p \in out
  \/ \E u \in unknowns : u[1] \in Prefixes(p)
Covered(k, P, out, unknowns, g) ==
  \A p \in DOMAIN tree.kind : Visible(p) => ~Through(p, P) \/ Reached(k, p, out, unknowns, g)
Counted(P, ignored, pruned) ==
  ignored = Cardinality(Skipped(P)) /\ pruned = Cardinality(Pruned(P))

(* What gets through once d is no longer pending: what is at d or below it. *)
LEMMA Dropped ==
  ASSUME tree \in Trees, NEW P \in SUBSET DOMAIN tree.kind, Apart(P), NEW d \in P,
         NEW p \in DOMAIN tree.kind
  PROVE  /\ Through(p, P \ {d}) <=> Through(p, P) \/ d \in Prefixes(p)
         /\ d \in Prefixes(p) => ~Through(p, P)
<1>1. p \in Path
  BY TreeShape
<1>2. ASSUME d \in Prefixes(p), NEW q \in Prefixes(p), q \in P PROVE q = d
  <2>1. q \in Path /\ d \in Path
    <3>1. q \in DOMAIN tree.kind /\ d \in DOMAIN tree.kind
      BY <1>2
    <3> QED
      BY <3>1, TreeShape
  <2>2. Len(q) <= Len(d) \/ Len(d) <= Len(q)
    BY <2>1, LenPath
  <2>3. q \in Prefixes(d) \/ d \in Prefixes(q)
    BY <1>1, <1>2, <2>2, Comparable
  <2> QED
    BY <1>2, <2>3 DEF Apart
<1> QED
  BY <1>2 DEF Through

(* A path that is no directory has nothing below it. *)
LEMMA Leaf ==
  ASSUME tree \in Trees, NEW d \in DOMAIN tree.kind, tree.kind[d] # "dir",
         NEW p \in DOMAIN tree.kind, d \in Prefixes(p)
  PROVE  p = d
  BY Ancestors

(* Nothing is met below a directory that is not entered or not listed. *)
LEMMA Barred ==
  ASSUME tree \in Trees, NEW d \in DOMAIN tree.kind,
         (d # Root /\ TurnedAway(d, TRUE)) \/ d \in tree.closed,
         NEW p \in DOMAIN tree.kind, d \in Prefixes(p), p # d
  PROVE  ~Met(p)
<1>1. p \in Path
  BY TreeShape
<1>2. d = Root \/ d \in Above(p)
  BY DEF Above
<1> QED
  BY <1>2 DEF Met, Listable

(* What is counted is finite. *)
LEMMA FiniteCounts ==
  ASSUME tree \in Trees, NEW P
  PROVE  /\ IsFiniteSet(Skipped(P)) /\ Cardinality(Skipped(P)) \in Nat
         /\ IsFiniteSet(Pruned(P)) /\ Cardinality(Pruned(P)) \in Nat
<1>1. Skipped(P) \subseteq DOMAIN tree.kind /\ Pruned(P) \subseteq DOMAIN tree.kind
  BY DEF Skipped, Pruned
<1>2. IsFiniteSet(Skipped(P)) /\ IsFiniteSet(Pruned(P))
  BY <1>1, TreeShape, FS_Subset
<1> QED
  BY <1>2, FS_CardinalityType

(* One element more. *)
LEMMA OneMore ==
  ASSUME NEW S, IsFiniteSet(S), NEW d, d \notin S
  PROVE  Cardinality(S \cup {d}) = Cardinality(S) + 1
  BY FS_AddElement

(* A file or a link that is done with. *)
LEMMA LeafCounts ==
  ASSUME tree \in Trees, NEW P \in SUBSET DOMAIN tree.kind, Apart(P), NEW d \in P,
         tree.kind[d] # "dir", Met(d), NEW ignored, NEW pruned, Counted(P, ignored, pruned)
  PROVE  /\ tree.kind[d] = "file" /\ TurnedAway(d, FALSE) => Counted(P \ {d}, ignored + 1, pruned)
         /\ tree.kind[d] # "file" \/ ~TurnedAway(d, FALSE) => Counted(P \ {d}, ignored, pruned)
<1>1. PICK Q : Q = P \ {d}
  OBVIOUS
<1>2. d \in DOMAIN tree.kind
  OBVIOUS
<1>3. ASSUME NEW p \in DOMAIN tree.kind, p # d PROVE Through(p, Q) <=> Through(p, P)
  <2>1. ~(d \in Prefixes(p))
    BY <1>2, <1>3, Leaf
  <2> QED
    BY <1>1, <2>1, Dropped
<1>4. Through(d, Q) /\ ~Through(d, P)
  <2>1. d \in Prefixes(d)
    BY <1>2, TreeShape, Self
  <2> QED
    BY <1>1, <1>2, <2>1, Dropped
<1>5. Pruned(Q) = Pruned(P)
  <2>1. ASSUME NEW p \in DOMAIN tree.kind, tree.kind[p] = "dir" PROVE Through(p, Q) <=> Through(p, P)
    <3>1. p # d
      BY <2>1
    <3> QED
      BY <1>3, <3>1
  <2> QED
    BY <2>1 DEF Pruned
<1>6. CASE tree.kind[d] = "file" /\ TurnedAway(d, FALSE)
  <2>1. Skipped(Q) = Skipped(P) \cup {d} /\ d \notin Skipped(P)
    BY <1>2, <1>3, <1>4, <1>6 DEF Skipped
  <2>2. Cardinality(Skipped(Q)) = Cardinality(Skipped(P)) + 1
    BY <2>1, FiniteCounts, OneMore
  <2> QED
    BY <1>1, <1>5, <1>6, <2>2 DEF Counted
<1>7. CASE ~(tree.kind[d] = "file" /\ TurnedAway(d, FALSE))
  <2>1. ASSUME NEW p \in DOMAIN tree.kind, tree.kind[p] = "file", TurnedAway(p, FALSE)
        PROVE  Through(p, Q) <=> Through(p, P)
    <3>1. p # d
      BY <1>7, <2>1
    <3> QED
      BY <1>3, <3>1
  <2>2. Skipped(Q) = Skipped(P)
    BY <2>1 DEF Skipped
  <2> QED
    BY <1>1, <1>5, <1>7, <2>2 DEF Counted
<1> QED
  BY <1>6, <1>7

(* A directory that is left out. *)
LEMMA DirCounts ==
  ASSUME tree \in Trees, NEW P \in SUBSET DOMAIN tree.kind, Apart(P), NEW d \in P,
         tree.kind[d] = "dir", Met(d), d # Root, TurnedAway(d, TRUE) \/ d \in tree.closed,
         NEW ignored, NEW pruned, Counted(P, ignored, pruned)
  PROVE  /\ TurnedAway(d, TRUE) => Counted(P \ {d}, ignored, pruned + 1)
         /\ ~TurnedAway(d, TRUE) => Counted(P \ {d}, ignored, pruned)
<1>1. PICK Q : Q = P \ {d}
  OBVIOUS
<1>2. d \in DOMAIN tree.kind
  OBVIOUS
<1>3. ASSUME NEW p \in DOMAIN tree.kind, p # d, Met(p) PROVE Through(p, Q) <=> Through(p, P)
  <2>1. ~(d \in Prefixes(p))
    BY <1>2, <1>3, Barred
  <2> QED
    BY <1>1, <2>1, Dropped
<1>4. Through(d, Q) /\ ~Through(d, P)
  <2>1. d \in Prefixes(d)
    BY <1>2, TreeShape, Self
  <2> QED
    BY <1>1, <1>2, <2>1, Dropped
<1>5. Skipped(Q) = Skipped(P)
  BY <1>3 DEF Skipped
<1>6. CASE TurnedAway(d, TRUE)
  <2>1. Pruned(Q) = Pruned(P) \cup {d} /\ d \notin Pruned(P)
    BY <1>2, <1>3, <1>4, <1>6 DEF Pruned
  <2>2. Cardinality(Pruned(Q)) = Cardinality(Pruned(P)) + 1
    BY <2>1, FiniteCounts, OneMore
  <2> QED
    BY <1>1, <1>5, <1>6, <2>2 DEF Counted
<1>7. CASE ~TurnedAway(d, TRUE)
  <2>1. Pruned(Q) = Pruned(P)
    BY <1>2, <1>3, <1>7 DEF Pruned
  <2> QED
    BY <1>1, <1>5, <1>7, <2>1 DEF Counted
<1> QED
  BY <1>6, <1>7

(* A directory whose children take its place. *)
Intact == gone = {}

(* A listing lets nothing through but files that are gone, and holds up
   nothing new. *)
LEMMA ListedThrough ==
  ASSUME tree \in Trees, NEW P \in SUBSET DOMAIN tree.kind, Apart(P), NEW d \in P,
         NEW Q, Opened(P, d, Q), NEW p \in DOMAIN tree.kind, p # d,
         \A c \in gone : c \in DOMAIN tree.kind => tree.kind[c] = "file"
  PROVE  /\ Through(p, Q) /\ ~Through(p, P) => p \in gone
         /\ ~Through(p, Q) => ~Through(p, P)
<1> USE DEF Opened
<1>1. d \in DOMAIN tree.kind /\ p \in Path
  BY TreeShape
<1>2. CASE d \in Prefixes(p)
  <2>1. ~Through(p, P)
    BY <1>2, Dropped
  <2>2. PICK c \in Prefixes(p) : c # Root /\ Front(c) = d
    BY <1>1, <1>2, NextBelow
  <2>3. c \in DOMAIN tree.kind /\ (c # p => tree.kind[c] = "dir")
    BY Ancestors
  <2>4. c \in gone \/ c \in children(d)
    BY <2>2, <2>3 DEF children
  <2>5. c \in gone => p \in gone
    BY <2>3
  <2>6. c \in children(d) => ~Through(p, Q)
    BY <2>2 DEF Through
  <2> QED
    BY <2>1, <2>4, <2>5, <2>6
<1>3. CASE ~(d \in Prefixes(p))
  <2>1. Through(p, P \ {d}) <=> Through(p, P)
    BY <1>3, Dropped
  <2>2. ASSUME NEW c \in children(d), c \in Prefixes(p) PROVE FALSE
    <3>1. d \in Prefixes(c) /\ c \in Path
      BY <1>1, Child
    <3>2. d \in Prefixes(p)
      BY <1>1, <2>2, <3>1, Transitive
    <3> QED
      BY <1>3, <3>2
  <2>3. Through(p, Q) <=> Through(p, P \ {d})
    BY <2>2 DEF Through
  <2> QED
    BY <2>1, <2>3
<1> QED
  BY <1>2, <1>3

(* A listing leaves the counters right, while no file is gone. *)
LEMMA ListedCounts ==
  ASSUME tree \in Trees, NEW P \in SUBSET DOMAIN tree.kind, Apart(P), NEW d \in P,
         tree.kind[d] = "dir", d = Root \/ ~TurnedAway(d, TRUE), Intact,
         NEW Q, Opened(P, d, Q), NEW ignored, NEW pruned, Counted(P, ignored, pruned)
  PROVE  Counted(Q, ignored, pruned)
<1>1. \A p \in DOMAIN tree.kind : p # d => (Through(p, Q) <=> Through(p, P))
  BY ListedThrough DEF Intact
<1>2. Skipped(Q) = Skipped(P)
  BY <1>1 DEF Skipped
<1>3. Pruned(Q) = Pruned(P)
  BY <1>1 DEF Pruned
<1> QED
  BY <1>2, <1>3 DEF Counted

(* A listing loses no visible file. *)
LEMMA ListedCovers ==
  ASSUME tree \in Trees, NEW P \in SUBSET DOMAIN tree.kind, Apart(P), NEW d \in P,
         tree.kind[d] = "dir", NEW Q, Opened(P, d, Q),
         \A c \in gone : c \in DOMAIN tree.kind => tree.kind[c] = "file",
         NEW k, NEW out, NEW unknowns, Covered(k, P, out, unknowns, gone)
  PROVE  Covered(k, Q, out, unknowns, gone)
<1>1. \A p \in DOMAIN tree.kind : p # d => (Through(p, Q) /\ ~Through(p, P) => p \in gone)
  BY ListedThrough
<1>2. \A p \in DOMAIN tree.kind : Visible(p) => p # d
  BY DEF Visible
<1> QED
  BY <1>1, <1>2 DEF Covered, Reached

(* A path that is done with loses none either, if all that is visible at it
   or below it is accounted for. *)
LEMMA DroppedCovers ==
  ASSUME tree \in Trees, NEW P \in SUBSET DOMAIN tree.kind, Apart(P), NEW d \in P,
         NEW k, NEW out, NEW unknowns, NEW g, Covered(k, P, out, unknowns, g),
         NEW out2, out \subseteq out2, NEW unknowns2, unknowns \subseteq unknowns2,
         \A p \in DOMAIN tree.kind : Visible(p) /\ d \in Prefixes(p) => Reached(k, p, out2, unknowns2, g)
  PROVE  Covered(k, P \ {d}, out2, unknowns2, g)
<1>1. \A p \in DOMAIN tree.kind : Through(p, P \ {d}) => Through(p, P) \/ d \in Prefixes(p)
  BY Dropped
<1>2. \A p \in DOMAIN tree.kind : Reached(k, p, out, unknowns, g) => Reached(k, p, out2, unknowns2, g)
  BY DEF Reached
<1> QED
  BY <1>1, <1>2 DEF Covered

-----------------------------------------------------------------------------
(* The invariant of one walk. *)

Shaped(s) ==
  DOMAIN s = {"st", "err", "queue", "nodes", "out", "unknowns", "ignored", "pruned"}

Entered(d) == tree.kind[d] = "dir" /\ (d = Root \/ ~TurnedAway(d, TRUE))
HandOk(nodes, h) ==
  /\ h.at \in {"idle", "layer", "list", "visit", "emit"}
  /\ h.at = "idle" => h = Idle
  /\ h.at = "layer" => h.dir # Root /\ Entered(h.dir) /\ Lists(h.node, Upto(Front(h.dir)))
  /\ h.at = "list" => Entered(h.dir) /\ Settled(nodes, h.dir)
  /\ h.at = "emit" => h.file \notin h.left /\ Visible(h.file)

Life(s, hs) ==
  /\ s.st \in {"new", "running", "done"}
  /\ s.st = "new" => s = newState
  /\ s.st # "running" => \A i \in Worker : hs[i] = Idle
  /\ s.st = "done" /\ s.err = "none" => s.queue = {}
Ahead(P, nodes) ==
  \A q \in P : q \in DOMAIN tree.kind /\ (q # Root => Met(q) /\ Settled(nodes, Front(q)))
QueueOk(queue) == \A q \in queue : tree.kind[q] = "dir"
OutOk(out) == \A p \in out : Visible(p) /\ Met(p)
UnknownsOk(unknowns, g) ==
  \A u \in unknowns :
    /\ u[1] \in DOMAIN tree.kind
    /\ u[1] \in g \/ (tree.kind[u[1]] = "dir" /\ u[1] \in tree.closed)
Complete(k, s, P, g) ==
  s.err = "none" => /\ Covered(k, P, s.out, s.unknowns, g)
                    /\ g = {} => Counted(P, s.ignored, s.pruned)

WalkInv(k, s, hs, g) ==
  /\ Shaped(s) /\ Hands(hs)
  /\ Life(s, hs)
  /\ \A i \in Worker : HandOk(s.nodes, hs[i])
  /\ Ahead(Pend(s, hs), s.nodes)
  /\ QueueOk(s.queue)
  /\ s.st # "new" => NodesOk(s.nodes)
  /\ Once(s, hs)
  /\ OutOk(s.out)
  /\ UnknownsOk(s.unknowns, g)
  /\ s.st # "new" => Complete(k, s, Pend(s, hs), g)

(* Nodes are only ever added. *)
LEMMA Grown ==
  ASSUME NEW m, NEW n, DOMAIN m \subseteq DOMAIN n, NEW q, Settled(m, q)
  PROVE  Settled(n, q)
  BY DEF Settled

(* The callbacks of the other workers are as they were. *)
LEMMA OtherHands ==
  ASSUME NEW hs, Hands(hs), NEW i \in Worker, NEW h, NEW ht, ht = [hs EXCEPT ![i] = h],
         NEW m, NEW n, DOMAIN m \subseteq DOMAIN n, \A j \in Worker : HandOk(m, hs[j]), HandOk(n, h)
  PROVE  Hands(ht) /\ \A j \in Worker : HandOk(n, ht[j])
<1>1. Hands(ht) /\ ht[i] = h /\ \A j \in Worker \ {i} : ht[j] = hs[j]
  BY DEF Hands
<1>2. ASSUME NEW j \in Worker \ {i} PROVE HandOk(n, hs[j])
  BY Grown DEF HandOk
<1> QED
  BY <1>1, <1>2

(* A callback that adds nothing to what is ahead of its walk. *)
Kept(s, t) == DOMAIN s.nodes \subseteq DOMAIN t.nodes /\ NodesOk(t.nodes) /\ t.st = "running"
(* A callback that takes D from what is pending keeps the invariant of its
   walk, if the state it leaves accounts for D. *)
LEMMA Step ==
  ASSUME tree \in Trees, NEW k, NEW s, NEW hs, NEW g, WalkInv(k, s, hs, g), NEW i \in Worker,
         NEW t, NEW h, NEW D, Shaped(t), Kept(s, t), HandOk(t.nodes, h), Taken(s, hs, i, t, h, D),
         QueueOk(t.queue), OutOk(t.out), UnknownsOk(t.unknowns, g),
         Complete(k, t, Pend(s, hs) \ D, g)
  PROVE  WalkInv(k, t, [hs EXCEPT ![i] = h], g)
<1>1. PICK ht : ht = [hs EXCEPT ![i] = h]
  OBVIOUS
<1>2. Hands(hs) /\ Once(s, hs) /\ Ahead(Pend(s, hs), s.nodes)
  BY DEF WalkInv
<1>3. Once(t, ht) /\ Pend(t, ht) = Pend(s, hs) \ D
  <2>1. Turned(hs, i, h, ht)
    BY <1>1, <1>2 DEF Turned
  <2> QED
    BY <1>2, <2>1, Moved
<1>4. Ahead(Pend(t, ht), t.nodes)
  <2>1. DOMAIN s.nodes \subseteq DOMAIN t.nodes
    BY DEF Kept
  <2> QED
    BY <1>2, <1>3, <2>1, Grown DEF Ahead
<1>5. Hands(ht) /\ \A j \in Worker : HandOk(t.nodes, ht[j])
  <2>1. DOMAIN s.nodes \subseteq DOMAIN t.nodes /\ \A j \in Worker : HandOk(s.nodes, hs[j])
    BY DEF Kept, WalkInv
  <2> QED
    BY <1>1, <1>2, <2>1, OtherHands
<1>6. Life(t, ht)
  BY DEF Life, Kept
<1>7. NodesOk(t.nodes)
  BY DEF Kept
<1>8. Complete(k, t, Pend(t, ht), g)
  BY <1>3
<1>9. WalkInv(k, t, ht, g)
  BY <1>3, <1>4, <1>5, <1>6, <1>7, <1>8 DEF WalkInv
<1> QED
  BY <1>1, <1>9

-----------------------------------------------------------------------------
(* What a callback does to its walk: fail, go on, or be done with a path. *)

Fields(t, st, err, queue, nodes, out, unknowns, ignored, pruned) ==
  /\ Shaped(t) /\ t.st = st /\ t.err = err /\ t.queue = queue /\ t.nodes = nodes
  /\ t.out = out /\ t.unknowns = unknowns /\ t.ignored = ignored /\ t.pruned = pruned

(* What the invariant says of a walk that runs. *)
LEMMA Running ==
  ASSUME tree \in Trees, NEW k, NEW s, NEW hs, NEW g, WalkInv(k, s, hs, g), s.st = "running",
         NEW i \in Worker
  PROVE  /\ Shaped(s) /\ Hands(hs) /\ NodesOk(s.nodes) /\ HandOk(s.nodes, hs[i])
         /\ Ahead(Pend(s, hs), s.nodes) /\ QueueOk(s.queue) /\ OutOk(s.out) /\ UnknownsOk(s.unknowns, g)
         /\ Complete(k, s, Pend(s, hs), g)
         /\ Pend(s, hs) \in SUBSET DOMAIN tree.kind /\ Apart(Pend(s, hs))
         /\ s.queue \subseteq Pend(s, hs) /\ Held(hs[i]) \subseteq Pend(s, hs)
         /\ s.queue \cap Held(hs[i]) = {}
<1>1. Ahead(Pend(s, hs), s.nodes) /\ Once(s, hs)
  BY DEF WalkInv
<1>2. s.queue \subseteq Pend(s, hs) /\ Held(hs[i]) \subseteq Pend(s, hs)
  BY DEF Pend
<1>3. Apart(Pend(s, hs)) /\ s.queue \cap Held(hs[i]) = {}
  BY <1>1 DEF Once
<1>4. Pend(s, hs) \in SUBSET DOMAIN tree.kind
  BY <1>1 DEF Ahead
<1>5. /\ Shaped(s) /\ Hands(hs) /\ NodesOk(s.nodes) /\ HandOk(s.nodes, hs[i])
      /\ QueueOk(s.queue) /\ OutOk(s.out) /\ UnknownsOk(s.unknowns, g)
      /\ Complete(k, s, Pend(s, hs), g)
  BY DEF WalkInv
<1> QED
  BY <1>1, <1>2, <1>3, <1>4, <1>5

(* A worker without a callback holds nothing. *)
LEMMA IdleHand ==
  ASSUME NEW nodes
  PROVE  HandOk(nodes, Idle) /\ Held(Idle) = {}
<1>1. Idle.at = "idle"
  BY DEF Idle
<1> QED
  BY <1>1 DEF HandOk, Held

(* An error ends the walk, whatever was being done. *)
LEMMA Failure ==
  ASSUME tree \in Trees, NEW k, NEW s, NEW hs, NEW g, WalkInv(k, s, hs, g), s.st = "running",
         NEW i \in Worker, NEW t, NEW e, NEW Q,
         Fields(t, s.st, e, Q, s.nodes, s.out, s.unknowns, s.ignored, s.pruned),
         e # "none", Q \subseteq s.queue
  PROVE  WalkInv(k, t, [hs EXCEPT ![i] = Idle], g)
<1>1. PICK D : D = (s.queue \ Q) \cup Held(hs[i])
  OBVIOUS
<1>2. NodesOk(s.nodes) /\ QueueOk(s.queue) /\ OutOk(s.out) /\ UnknownsOk(s.unknowns, g) /\ s.queue \cap Held(hs[i]) = {}
  BY Running
<1>3. Shaped(t) /\ t.queue = Q /\ t.err = e /\ t.nodes = s.nodes /\ t.out = s.out /\ t.unknowns = s.unknowns /\ t.st = "running"
  BY DEF Fields
<1>4. Kept(s, t)
  BY <1>2, <1>3 DEF Kept
<1>5. HandOk(t.nodes, Idle)
  BY IdleHand
<1>6. Taken(s, hs, i, t, Idle, D)
  BY <1>1, <1>2, <1>3, IdleHand DEF Taken
<1>7. QueueOk(t.queue) /\ OutOk(t.out) /\ UnknownsOk(t.unknowns, g)
  BY <1>2, <1>3 DEF QueueOk
<1>8. Complete(k, t, Pend(s, hs) \ D, g)
  BY <1>3 DEF Complete
<1> QED
  BY <1>3, <1>4, <1>5, <1>6, <1>7, <1>8, Step

(* A callback that leaves what it found, to go on with it. *)
LEMMA Onward ==
  ASSUME tree \in Trees, NEW k, NEW s, NEW hs, NEW g, WalkInv(k, s, hs, g), s.st = "running",
         NEW i \in Worker, NEW t, NEW h, NEW Q, NEW nodes,
         Fields(t, s.st, s.err, Q, nodes, s.out, s.unknowns, s.ignored, s.pruned),
         DOMAIN s.nodes \subseteq DOMAIN nodes, NodesOk(nodes), QueueOk(Q),
         HandOk(nodes, h), Q \cap Held(h) = {}, Q \cup Held(h) = s.queue \cup Held(hs[i])
  PROVE  WalkInv(k, t, [hs EXCEPT ![i] = h], g)
<1>1. PICK D : D = {}
  OBVIOUS
<1>2. OutOk(s.out) /\ UnknownsOk(s.unknowns, g) /\ Complete(k, s, Pend(s, hs), g)
  BY Running
<1>3. /\ Shaped(t) /\ t.queue = Q /\ t.err = s.err /\ t.nodes = nodes /\ t.out = s.out
      /\ t.unknowns = s.unknowns /\ t.ignored = s.ignored /\ t.pruned = s.pruned /\ t.st = "running"
  BY DEF Fields
<1>4. Kept(s, t)
  BY <1>3 DEF Kept
<1>5. HandOk(t.nodes, h)
  BY <1>3
<1>6. Taken(s, hs, i, t, h, D)
  BY <1>1, <1>3 DEF Taken
<1>7. QueueOk(t.queue) /\ OutOk(t.out) /\ UnknownsOk(t.unknowns, g)
  BY <1>2, <1>3
<1>8. Complete(k, t, Pend(s, hs) \ D, g)
  <2>1. Pend(s, hs) \ D = Pend(s, hs)
    BY <1>1
  <2> QED
    BY <1>2, <1>3, <2>1 DEF Complete
<1> QED
  BY <1>3, <1>4, <1>5, <1>6, <1>7, <1>8, Step

(* A callback that is done with d. *)
LEMMA Done ==
  ASSUME tree \in Trees, NEW k, NEW s, NEW hs, NEW g, WalkInv(k, s, hs, g), s.st = "running",
         NEW i \in Worker, NEW t, NEW h, NEW Q, NEW d, NEW out, NEW unknowns, NEW ignored, NEW pruned,
         Fields(t, s.st, s.err, Q, s.nodes, out, unknowns, ignored, pruned),
         HandOk(s.nodes, h), Q \subseteq s.queue, Q \cap Held(h) = {}, d \in s.queue \cup Held(hs[i]),
         Q \cup Held(h) = (s.queue \cup Held(hs[i])) \ {d}, OutOk(out), UnknownsOk(unknowns, g),
         Complete(k, t, Pend(s, hs) \ {d}, g)
  PROVE  WalkInv(k, t, [hs EXCEPT ![i] = h], g)
<1>1. PICK D : D = {d}
  OBVIOUS
<1>2. NodesOk(s.nodes) /\ QueueOk(s.queue)
  BY Running
<1>3. /\ Shaped(t) /\ t.queue = Q /\ t.nodes = s.nodes /\ t.out = out
      /\ t.unknowns = unknowns /\ t.st = "running"
  BY DEF Fields
<1>4. Kept(s, t)
  BY <1>2, <1>3 DEF Kept
<1>5. HandOk(t.nodes, h)
  BY <1>3
<1>6. Taken(s, hs, i, t, h, D)
  BY <1>1, <1>3 DEF Taken
<1>7. QueueOk(t.queue) /\ OutOk(t.out) /\ UnknownsOk(t.unknowns, g)
  BY <1>2, <1>3 DEF QueueOk
<1>8. Complete(k, t, Pend(s, hs) \ D, g)
  BY <1>1
<1> QED
  BY <1>3, <1>4, <1>5, <1>6, <1>7, <1>8, Step

-----------------------------------------------------------------------------
(* The callback of a directory. *)

(* What each callback holds. *)
LEMMA HeldBy ==
  /\ \A d : Held([at |-> "list", dir |-> d]) = {d}
  /\ \A d, n : Held([at |-> "layer", dir |-> d, node |-> n]) = {d}
  /\ \A l : Held([at |-> "visit", left |-> l]) = l
  /\ \A f, l : Held([at |-> "emit", file |-> f, left |-> l]) = {f} \cup l
  BY DEF Held

(* What makes each callback a right one. *)
LEMMA HandIs ==
  ASSUME NEW nodes
  PROVE  /\ \A d : Entered(d) /\ Settled(nodes, d) => HandOk(nodes, [at |-> "list", dir |-> d])
         /\ \A d, n : d # Root /\ Entered(d) /\ Lists(n, Upto(Front(d))) =>
               HandOk(nodes, [at |-> "layer", dir |-> d, node |-> n])
         /\ \A l : HandOk(nodes, [at |-> "visit", left |-> l])
         /\ \A f, l : f \notin l /\ Visible(f) => HandOk(nodes, [at |-> "emit", file |-> f, left |-> l])
  BY DEF HandOk

(* The root's node is stored before the walk starts. *)
LEMMA RootSettled ==
  ASSUME NEW nodes, NodesOk(nodes)
  PROVE  Settled(nodes, Root)
<1>1. ASSUME NEW r \in Prefixes(Root) PROVE r = Root
  <2>1. Root \in Path /\ Len(Root) = 0
    <3>1. Root \in Path
      BY DEF Root, Path
    <3> QED
      BY <3>1, Self
  <2>2. Len(r) \in 0 .. Len(Root)
    BY <2>1, PrefixIs
  <2>3. Len(r) = Len(Root)
    BY <2>1, <2>2
  <2> QED
    BY <2>1, <2>3, Antisymmetric
<1> QED
  BY <1>1 DEF Settled, NodesOk

(* Enter, the root. *)
LEMMA EntersRoot ==
  ASSUME tree \in Trees, NEW k, NEW s, NEW hs, NEW g, WalkInv(k, s, hs, g), s.st = "running",
         NEW i \in Worker, hs[i] = Idle, NEW d \in s.queue, d = Root, NEW t,
         Fields(t, s.st, s.err, s.queue \ {d}, s.nodes, s.out, s.unknowns, s.ignored, s.pruned)
  PROVE  WalkInv(k, t, [hs EXCEPT ![i] = [at |-> "list", dir |-> d]], g)
<1>1. PICK h : h = [at |-> "list", dir |-> d]
  OBVIOUS
<1>2. PICK Q : Q = s.queue \ {d}
  OBVIOUS
<1>3. NodesOk(s.nodes) /\ QueueOk(s.queue)
  BY Running
<1>4. HandOk(s.nodes, h)
  <2>1. Entered(d)
    BY TreeShape DEF Entered
  <2>2. Settled(s.nodes, d)
    BY <1>3, RootSettled
  <2> QED
    BY <1>1, <2>1, <2>2, HandIs
<1>5. Held(h) = {d} /\ Held(hs[i]) = {}
  BY <1>1, HeldBy, IdleHand
<1>6. /\ QueueOk(Q) /\ Q \cap Held(h) = {} /\ Q \cup Held(h) = s.queue \cup Held(hs[i])
      /\ DOMAIN s.nodes \subseteq DOMAIN s.nodes
      /\ Fields(t, s.st, s.err, Q, s.nodes, s.out, s.unknowns, s.ignored, s.pruned)
  BY <1>2, <1>3, <1>5 DEF QueueOk
<1>7. WalkInv(k, t, [hs EXCEPT ![i] = h], g)
  BY <1>3, <1>4, <1>6, Onward
<1> QED
  BY <1>1, <1>7

(* Enter, below the root: the verdict is that of the rules. *)
LEMMA EntersBelow ==
  ASSUME tree \in Trees, NEW k, NEW s, NEW hs, NEW g, WalkInv(k, s, hs, g), s.st = "running",
         NEW i \in Worker, hs[i] = Idle, NEW d \in s.queue, d # Root, NEW node,
         node = lookup(s.nodes, Front(d))
  PROVE  /\ TurnedAway(d, TRUE) <=> defaultMatch(d, TRUE) \/ matches(node, d, TRUE) \/ userIgnored(d, TRUE)
         /\ Lists(node, Upto(Front(d)))
<1>1. d \in DOMAIN tree.kind /\ Settled(s.nodes, Front(d)) /\ NodesOk(s.nodes)
  BY Running DEF Ahead
<1>2. d \in Path
  BY <1>1, TreeShape
<1>3. Front(d) \in Path
  BY <1>2, FrontOf
<1>4. Lists(node, Upto(Front(d)))
  BY <1>1, <1>3, LookedUp
<1> QED
  BY <1>2, <1>4, Verdict

(* Enter, a directory the rules leave. *)
LEMMA EntersLayer ==
  ASSUME tree \in Trees, NEW k, NEW s, NEW hs, NEW g, WalkInv(k, s, hs, g), s.st = "running",
         NEW i \in Worker, hs[i] = Idle, NEW d \in s.queue, d # Root, ~TurnedAway(d, TRUE), NEW node,
         Lists(node, Upto(Front(d))), NEW t,
         Fields(t, s.st, s.err, s.queue \ {d}, s.nodes, s.out, s.unknowns, s.ignored, s.pruned)
  PROVE  WalkInv(k, t, [hs EXCEPT ![i] = [at |-> "layer", dir |-> d, node |-> node]], g)
<1>1. PICK h : h = [at |-> "layer", dir |-> d, node |-> node]
  OBVIOUS
<1>2. PICK Q : Q = s.queue \ {d}
  OBVIOUS
<1>3. NodesOk(s.nodes) /\ QueueOk(s.queue)
  BY Running
<1>4. HandOk(s.nodes, h)
  <2>1. Entered(d)
    BY <1>3 DEF Entered, QueueOk
  <2> QED
    BY <1>1, <2>1, HandIs
<1>5. Held(h) = {d} /\ Held(hs[i]) = {}
  BY <1>1, HeldBy, IdleHand
<1>6. /\ QueueOk(Q) /\ Q \cap Held(h) = {} /\ Q \cup Held(h) = s.queue \cup Held(hs[i])
      /\ DOMAIN s.nodes \subseteq DOMAIN s.nodes
      /\ Fields(t, s.st, s.err, Q, s.nodes, s.out, s.unknowns, s.ignored, s.pruned)
  BY <1>2, <1>3, <1>5 DEF QueueOk
<1>7. WalkInv(k, t, [hs EXCEPT ![i] = h], g)
  BY <1>3, <1>4, <1>6, Onward
<1> QED
  BY <1>1, <1>7

(* Nothing visible is below a directory that is turned away, or but through an unknown. *)
LEMMA NoneBelow ==
  ASSUME tree \in Trees, NEW d \in DOMAIN tree.kind, tree.kind[d] = "dir", d # Root, TurnedAway(d, TRUE),
         NEW p \in DOMAIN tree.kind, d \in Prefixes(p), Visible(p)
  PROVE  FALSE
<1>1. d # p /\ d \in Above(p)
  BY DEF Visible, Above
<1> QED
  BY <1>1 DEF Visible

(* Enter, a directory the rules turn away. *)
LEMMA EntersPruned ==
  ASSUME tree \in Trees, NEW k, NEW s, NEW hs, NEW g, WalkInv(k, s, hs, g), s.st = "running",
         NEW i \in Worker, hs[i] = Idle, NEW d \in s.queue, d # Root, TurnedAway(d, TRUE), NEW t,
         Fields(t, s.st, s.err, s.queue \ {d}, s.nodes, s.out, s.unknowns, s.ignored, s.pruned + 1)
  PROVE  WalkInv(k, t, [hs EXCEPT ![i] = Idle], g)
<1>1. PICK Q : Q = s.queue \ {d}
  OBVIOUS
<1>2. PICK P : P = Pend(s, hs)
  OBVIOUS
<1>3. /\ P \in SUBSET DOMAIN tree.kind /\ Apart(P) /\ d \in P /\ Ahead(P, s.nodes) /\ QueueOk(s.queue)
      /\ OutOk(s.out) /\ UnknownsOk(s.unknowns, g) /\ Complete(k, s, P, g)
  BY <1>2, Running
<1>4. d \in DOMAIN tree.kind /\ tree.kind[d] = "dir" /\ Met(d)
  BY <1>3 DEF Ahead, QueueOk
<1>5. Complete(k, t, P \ {d}, g)
  <2> SUFFICES ASSUME t.err = "none"
               PROVE  /\ Covered(k, P \ {d}, t.out, t.unknowns, g)
                      /\ g = {} => Counted(P \ {d}, t.ignored, t.pruned)
    BY DEF Complete
  <2>1. /\ t.out = s.out /\ t.unknowns = s.unknowns /\ t.ignored = s.ignored /\ t.pruned = s.pruned + 1
        /\ s.err = "none"
    BY DEF Fields
  <2>2. Covered(k, P, s.out, s.unknowns, g) /\ (g = {} => Counted(P, s.ignored, s.pruned))
    BY <1>3, <2>1 DEF Complete
  <2>3. Covered(k, P \ {d}, s.out, s.unknowns, g)
    <3>1. \A p \in DOMAIN tree.kind : Visible(p) /\ d \in Prefixes(p) => Reached(k, p, s.out, s.unknowns, g)
      BY <1>4, NoneBelow
    <3> QED
      BY <1>3, <2>2, <3>1, DroppedCovers
  <2>4. g = {} => Counted(P \ {d}, s.ignored, s.pruned + 1)
    BY <1>3, <1>4, <2>2, DirCounts
  <2> QED
    BY <2>1, <2>3, <2>4
<1>6. HandOk(s.nodes, Idle) /\ Held(Idle) = {} /\ Held(hs[i]) = {}
  BY IdleHand
<1>7. /\ Q \subseteq s.queue /\ Q \cap Held(Idle) = {} /\ d \in s.queue \cup Held(hs[i])
      /\ Q \cup Held(Idle) = (s.queue \cup Held(hs[i])) \ {d}
      /\ Complete(k, t, Pend(s, hs) \ {d}, g)
  BY <1>1, <1>2, <1>5, <1>6
<1>8. Fields(t, s.st, s.err, Q, s.nodes, s.out, s.unknowns, s.ignored, s.pruned + 1)
  BY <1>1
<1> QED
  BY <1>3, <1>6, <1>7, <1>8, Done

-----------------------------------------------------------------------------
(* Its ignore files and its listing. *)

(* Layer: the node stored, or the parent's that lists the same lines. *)
LEMMA Layered ==
  ASSUME tree \in Trees, NEW k, NEW s, NEW hs, NEW g, WalkInv(k, s, hs, g), s.st = "running",
         NEW i \in Worker, hs[i].at = "layer", NEW d, d = hs[i].dir, NEW child,
         child = childNode(hs[i].node, d, d), NEW nodes,
         nodes = IF child = hs[i].node THEN s.nodes ELSE store(s.nodes, d, child), NEW t,
         Fields(t, s.st, s.err, s.queue, nodes, s.out, s.unknowns, s.ignored, s.pruned)
  PROVE  WalkInv(k, t, [hs EXCEPT ![i] = [at |-> "list", dir |-> d]], g)
<1>1. PICK h : h = [at |-> "list", dir |-> d]
  OBVIOUS
<1>2. /\ NodesOk(s.nodes) /\ HandOk(s.nodes, hs[i]) /\ Ahead(Pend(s, hs), s.nodes) /\ QueueOk(s.queue)
      /\ s.queue \cap Held(hs[i]) = {} /\ Held(hs[i]) \subseteq Pend(s, hs)
  BY Running
<1>3. Held(hs[i]) = {d} /\ Held(h) = {d}
  BY <1>1, HeldBy DEF Held
<1>4. d # Root /\ Entered(d) /\ Lists(hs[i].node, Upto(Front(d)))
  BY <1>2 DEF HandOk
<1>5. d \in DOMAIN tree.kind /\ Settled(s.nodes, Front(d))
  BY <1>2, <1>3, <1>4 DEF Ahead
<1>6. d \in Path
  BY <1>5, TreeShape
<1>7. Lists(child, Upto(d))
  BY <1>4, <1>6, ChildLists
<1>8. Prefixes(d) = Prefixes(Front(d)) \cup {d}
  <2>1. Prefixes(Front(d)) = Prefixes(d) \ {d} /\ d \in Prefixes(d)
    BY <1>4, <1>6, FrontOf, Self
  <2> QED
    BY <2>1
<1>9. DOMAIN s.nodes \subseteq DOMAIN nodes /\ NodesOk(nodes) /\ Settled(nodes, d)
  <2>1. CASE child = hs[i].node
    <3>1. nodes = s.nodes
      BY <2>1
    <3>2. hs[i].node \in Seq(Pattern)
      BY <1>4 DEF Lists
    <3>3. Own(d) = {}
      BY <1>6, <2>1, <3>2, SameNode
    <3>4. Settled(s.nodes, d)
      BY <1>5, <1>8, <3>3 DEF Settled
    <3> QED
      BY <1>2, <3>1, <3>4
  <2>2. CASE child # hs[i].node
    <3>1. nodes = store(s.nodes, d, child)
      BY <2>2
    <3>2. DOMAIN nodes = DOMAIN s.nodes \cup {d}
      BY <3>1 DEF store
    <3>3. nodes[d] = child
      BY <3>1 DEF store
    <3>4. \A r \in DOMAIN s.nodes : r # d => nodes[r] = s.nodes[r]
      BY <3>1 DEF store
    <3>5. NodesOk(nodes)
      <4>1. ASSUME NEW r \in DOMAIN nodes PROVE r \in Path /\ Lists(nodes[r], Upto(r))
        BY <1>2, <1>6, <1>7, <3>2, <3>3, <3>4 DEF NodesOk
      <4>2. Root \in DOMAIN nodes
        BY <1>2, <3>2 DEF NodesOk
      <4> QED
        BY <4>1, <4>2 DEF NodesOk
    <3>6. Settled(nodes, d)
      BY <1>5, <1>8, <3>2 DEF Settled
    <3> QED
      BY <3>2, <3>5, <3>6
  <2> QED
    BY <2>1, <2>2
<1>10. HandOk(nodes, h)
  BY <1>1, <1>4, <1>9, HandIs
<1>11. /\ s.queue \cap Held(h) = {} /\ s.queue \cup Held(h) = s.queue \cup Held(hs[i])
       /\ DOMAIN s.nodes \subseteq DOMAIN nodes /\ NodesOk(nodes) /\ QueueOk(s.queue)
  BY <1>2, <1>3, <1>9
<1>12. WalkInv(k, t, [hs EXCEPT ![i] = h], g)
  BY <1>10, <1>11, Onward
<1> QED
  BY <1>1, <1>12

(* List, a directory that can be listed. *)
LEMMA ListsChildren ==
  ASSUME tree \in Trees, NEW k, NEW s, NEW hs, WalkInv(k, s, hs, gone), s.st = "running",
         \A c \in gone : c \in DOMAIN tree.kind /\ tree.kind[c] = "file",
         NEW i \in Worker, hs[i].at = "list", NEW d, d = hs[i].dir, d \notin tree.closed
  PROVE  WalkInv(k, s, [hs EXCEPT ![i] = [at |-> "visit", left |-> children(d)]], gone)
<1>1. PICK h : h = [at |-> "visit", left |-> children(d)]
  OBVIOUS
<1>2. PICK P : P = Pend(s, hs)
  OBVIOUS
<1>3. PICK ht : ht = [hs EXCEPT ![i] = h]
  OBVIOUS
<1>4. /\ Shaped(s) /\ Hands(hs) /\ NodesOk(s.nodes) /\ HandOk(s.nodes, hs[i]) /\ Ahead(P, s.nodes)
      /\ QueueOk(s.queue) /\ Complete(k, s, P, gone) /\ P \in SUBSET DOMAIN tree.kind /\ Apart(P)
      /\ Held(hs[i]) \subseteq P
  BY <1>2, Running
<1>5. Held(hs[i]) = {d} /\ Held(h) = children(d)
  BY <1>1, HeldBy DEF Held
<1>6. Entered(d) /\ Settled(s.nodes, d)
  BY <1>4 DEF HandOk
<1>7. d \in DOMAIN tree.kind /\ d \in P
  BY <1>4, <1>5
<1>8. Met(d)
  <2>1. CASE d = Root
    <3>1. Above(d) = {}
      <4>1. ASSUME NEW r \in Prefixes(Root) PROVE r = Root
        <5>1. Root \in Path
          BY DEF Root, Path
        <5>2. Len(Root) = 0 /\ Len(r) \in 0 .. Len(Root)
          BY <5>1, Self, PrefixIs
        <5>3. Len(r) = Len(Root)
          BY <5>2
        <5> QED
          BY <5>1, <5>3, Antisymmetric
      <4> QED
        BY <2>1, <4>1 DEF Above
    <3> QED
      BY <2>1, <3>1 DEF Met, Listable
  <2>2. CASE d # Root
    BY <1>4, <1>7, <2>2 DEF Ahead
  <2> QED
    BY <2>1, <2>2
<1>9. P \subseteq Path
  BY <1>4, TreeShape
<1>10. Once(s, hs)
  BY DEF WalkInv
<1>11. Turned(hs, i, h, ht)
  BY <1>3, <1>4 DEF Turned
<1>12. Once(s, ht) /\ Opened(P, d, Pend(s, ht))
  <2>1. /\ d \in DOMAIN tree.kind /\ Turned(hs, i, h, ht) /\ Once(s, hs) /\ Held(hs[i]) = {d}
        /\ Held(h) = children(d) /\ s.queue = s.queue /\ Pend(s, hs) \subseteq Path
    BY <1>2, <1>5, <1>7, <1>9, <1>10, <1>11
  <2> QED
    BY <1>2, <2>1, Listed
<1>13. PICK Q : Q = Pend(s, ht)
  OBVIOUS
<1>14. Ahead(Q, s.nodes)
  <2>1. ASSUME NEW c \in children(d) PROVE c \in DOMAIN tree.kind /\ Met(c) /\ Settled(s.nodes, Front(c))
    <3>1. c \in DOMAIN tree.kind /\ Front(c) = d
      BY <1>7, Child
    <3>2. Met(c)
      BY <1>6, <1>7, <1>8, MetChild DEF Entered
    <3> QED
      BY <1>6, <3>1, <3>2
  <2> QED
    BY <1>4, <1>12, <1>13, <2>1 DEF Ahead, Opened
<1>15. Complete(k, s, Q, gone)
  <2> SUFFICES ASSUME s.err = "none"
               PROVE  Covered(k, Q, s.out, s.unknowns, gone) /\ (gone = {} => Counted(Q, s.ignored, s.pruned))
    BY DEF Complete
  <2>1. Covered(k, P, s.out, s.unknowns, gone) /\ (gone = {} => Counted(P, s.ignored, s.pruned))
    BY <1>4 DEF Complete
  <2>2. tree.kind[d] = "dir" /\ (d = Root \/ ~TurnedAway(d, TRUE))
    BY <1>6 DEF Entered
  <2>3. Covered(k, Q, s.out, s.unknowns, gone)
    BY <1>4, <1>7, <1>12, <1>13, <2>1, <2>2, ListedCovers
  <2>4. gone = {} => Counted(Q, s.ignored, s.pruned)
    <3> SUFFICES ASSUME gone = {} PROVE Counted(Q, s.ignored, s.pruned)
      OBVIOUS
    <3>1. /\ P \in SUBSET DOMAIN tree.kind /\ Apart(P) /\ d \in P /\ Intact
          /\ Opened(P, d, Q) /\ Counted(P, s.ignored, s.pruned)
      BY <1>4, <1>7, <1>12, <1>13, <2>1 DEF Intact
    <3> QED
      BY <2>2, <3>1, ListedCounts
  <2> QED
    BY <2>3, <2>4
<1>16. Hands(ht) /\ \A j \in Worker : HandOk(s.nodes, ht[j])
  <2>1. HandOk(s.nodes, h)
    BY <1>1, HandIs
  <2>2. \A j \in Worker : HandOk(s.nodes, hs[j])
    BY DEF WalkInv
  <2> QED
    BY <1>3, <1>4, <2>1, <2>2, OtherHands
<1>17. Life(s, ht)
  BY DEF Life, WalkInv
<1>18. WalkInv(k, s, ht, gone)
  <2>1. Pend(s, ht) = Q
    BY <1>12, <1>13
  <2> QED
    BY <1>4, <1>12, <1>14, <1>15, <1>16, <1>17, <2>1 DEF WalkInv
<1> QED
  BY <1>1, <1>3, <1>18

(* List, one that cannot. *)
LEMMA ListFails ==
  ASSUME tree \in Trees, NEW k, NEW s, NEW hs, NEW g, WalkInv(k, s, hs, g), s.st = "running",
         NEW i \in Worker, hs[i].at = "list", NEW d, d = hs[i].dir, d \in tree.closed, d # Root, NEW t,
         Fields(t, s.st, s.err, s.queue, s.nodes, s.out, s.unknowns \cup {<<d, "walk">>}, s.ignored, s.pruned)
  PROVE  WalkInv(k, t, [hs EXCEPT ![i] = Idle], g)
<1>1. PICK U : U = s.unknowns \cup {<<d, "walk">>}
  OBVIOUS
<1>2. PICK P : P = Pend(s, hs)
  OBVIOUS
<1>3. /\ P \in SUBSET DOMAIN tree.kind /\ Apart(P) /\ Ahead(P, s.nodes) /\ HandOk(s.nodes, hs[i])
      /\ OutOk(s.out) /\ UnknownsOk(s.unknowns, g) /\ Complete(k, s, P, g) /\ Held(hs[i]) \subseteq P
      /\ s.queue \cap Held(hs[i]) = {}
  BY <1>2, Running
<1>4. Held(hs[i]) = {d}
  BY DEF Held
<1>5. d \in DOMAIN tree.kind /\ tree.kind[d] = "dir" /\ Met(d) /\ ~TurnedAway(d, TRUE) /\ d \in P
  <2>1. Entered(d)
    BY <1>3 DEF HandOk
  <2> QED
    BY <1>3, <1>4, <2>1 DEF Ahead, Entered
<1>6. Complete(k, t, P \ {d}, g)
  <2> SUFFICES ASSUME t.err = "none"
               PROVE  /\ Covered(k, P \ {d}, t.out, t.unknowns, g)
                      /\ g = {} => Counted(P \ {d}, t.ignored, t.pruned)
    BY DEF Complete
  <2>1. /\ t.out = s.out /\ t.unknowns = U /\ t.ignored = s.ignored /\ t.pruned = s.pruned
        /\ s.err = "none"
    BY <1>1 DEF Fields
  <2>2. Covered(k, P, s.out, s.unknowns, g) /\ (g = {} => Counted(P, s.ignored, s.pruned))
    BY <1>3, <2>1 DEF Complete
  <2>3. Covered(k, P \ {d}, s.out, U, g)
    <3>1. \A p \in DOMAIN tree.kind : Visible(p) /\ d \in Prefixes(p) => Reached(k, p, s.out, U, g)
      <4>1. <<d, "walk">> \in U /\ <<d, "walk">>[1] = d
        BY <1>1
      <4> QED
        BY <4>1 DEF Reached
    <3>2. s.unknowns \subseteq U
      BY <1>1
    <3> QED
      BY <1>3, <1>5, <2>2, <3>1, <3>2, DroppedCovers
  <2>4. g = {} => Counted(P \ {d}, s.ignored, s.pruned)
    BY <1>3, <1>5, <2>2, DirCounts
  <2> QED
    BY <2>1, <2>3, <2>4
<1>7. HandOk(s.nodes, Idle) /\ Held(Idle) = {}
  BY IdleHand
<1>8. UnknownsOk(U, g)
  <2>1. <<d, "walk">>[1] = d
    OBVIOUS
  <2> QED
    BY <1>1, <1>3, <1>5, <2>1 DEF UnknownsOk
<1>9. /\ s.queue \subseteq s.queue /\ s.queue \cap Held(Idle) = {} /\ d \in s.queue \cup Held(hs[i])
      /\ s.queue \cup Held(Idle) = (s.queue \cup Held(hs[i])) \ {d}
      /\ Complete(k, t, Pend(s, hs) \ {d}, g)
  BY <1>2, <1>3, <1>4, <1>6, <1>7
<1>10. Fields(t, s.st, s.err, s.queue, s.nodes, s.out, U, s.ignored, s.pruned)
  BY <1>1
<1> QED
  BY <1>3, <1>7, <1>8, <1>9, <1>10, Done

-----------------------------------------------------------------------------
(* Its children. *)

(* Visit, nothing left. *)
LEMMA VisitsEnd ==
  ASSUME tree \in Trees, NEW k, NEW s, NEW hs, NEW g, WalkInv(k, s, hs, g), s.st = "running",
         NEW i \in Worker, hs[i].at = "visit", hs[i].left = {}
  PROVE  WalkInv(k, s, [hs EXCEPT ![i] = Idle], g)
<1>1. Shaped(s) /\ NodesOk(s.nodes) /\ QueueOk(s.queue)
  BY Running
<1>2. HandOk(s.nodes, Idle) /\ Held(Idle) = {} /\ Held(hs[i]) = {}
  BY IdleHand DEF Held
<1>3. /\ Fields(s, s.st, s.err, s.queue, s.nodes, s.out, s.unknowns, s.ignored, s.pruned)
      /\ DOMAIN s.nodes \subseteq DOMAIN s.nodes
      /\ s.queue \cap Held(Idle) = {} /\ s.queue \cup Held(Idle) = s.queue \cup Held(hs[i])
  BY <1>1, <1>2 DEF Fields
<1> QED
  BY <1>1, <1>2, <1>3, Onward

(* Visit, a directory. *)
LEMMA VisitsDir ==
  ASSUME tree \in Trees, NEW k, NEW s, NEW hs, NEW g, WalkInv(k, s, hs, g), s.st = "running",
         NEW i \in Worker, hs[i].at = "visit", NEW p \in hs[i].left, tree.kind[p] = "dir", NEW t,
         Fields(t, s.st, s.err, s.queue \cup {p}, s.nodes, s.out, s.unknowns, s.ignored, s.pruned)
  PROVE  WalkInv(k, t, [hs EXCEPT ![i] = [at |-> "visit", left |-> hs[i].left \ {p}]], g)
<1>1. PICK h : h = [at |-> "visit", left |-> hs[i].left \ {p}]
  OBVIOUS
<1>2. PICK Q : Q = s.queue \cup {p}
  OBVIOUS
<1>3. NodesOk(s.nodes) /\ QueueOk(s.queue) /\ s.queue \cap Held(hs[i]) = {}
  BY Running
<1>4. HandOk(s.nodes, h) /\ Held(h) = hs[i].left \ {p} /\ Held(hs[i]) = hs[i].left
  BY <1>1, HandIs, HeldBy DEF Held
<1>5. /\ Fields(t, s.st, s.err, Q, s.nodes, s.out, s.unknowns, s.ignored, s.pruned)
      /\ DOMAIN s.nodes \subseteq DOMAIN s.nodes /\ QueueOk(Q)
      /\ Q \cap Held(h) = {} /\ Q \cup Held(h) = s.queue \cup Held(hs[i])
  BY <1>2, <1>3, <1>4 DEF QueueOk
<1>6. WalkInv(k, t, [hs EXCEPT ![i] = h], g)
  BY <1>3, <1>4, <1>5, Onward
<1> QED
  BY <1>1, <1>6

(* What is left of a listing is ahead of the walk, and its rules are settled. *)
LEMMA VisitsOne ==
  ASSUME tree \in Trees, NEW k, NEW s, NEW hs, NEW g, WalkInv(k, s, hs, g), s.st = "running",
         NEW i \in Worker, hs[i].at = "visit", NEW p \in hs[i].left, tree.kind[p] # "dir"
  PROVE  /\ p \in DOMAIN tree.kind /\ p \in Pend(s, hs) /\ Met(p) /\ p # Root
         /\ TurnedAway(p, FALSE) <=> \/ defaultMatch(p, FALSE)
                                     \/ matches(lookup(s.nodes, Front(p)), p, FALSE)
                                     \/ userIgnored(p, FALSE)
<1>1. Held(hs[i]) = hs[i].left
  BY DEF Held
<1>2. p \in DOMAIN tree.kind /\ p \in Pend(s, hs) /\ NodesOk(s.nodes) /\ Ahead(Pend(s, hs), s.nodes)
  BY <1>1, Running
<1>3. p # Root
  BY TreeShape
<1>4. Met(p) /\ Settled(s.nodes, Front(p))
  BY <1>2, <1>3 DEF Ahead
<1>5. p \in Path
  BY <1>2, TreeShape
<1>6. Front(p) \in Path
  BY <1>3, <1>5, FrontOf
<1>7. PICK node : node = lookup(s.nodes, Front(p))
  OBVIOUS
<1>8. Lists(node, Upto(Front(p)))
  BY <1>2, <1>4, <1>6, <1>7, LookedUp
<1>9. TurnedAway(p, FALSE) <=> defaultMatch(p, FALSE) \/ matches(node, p, FALSE) \/ userIgnored(p, FALSE)
  BY <1>3, <1>5, <1>8, Verdict
<1> QED
  BY <1>2, <1>3, <1>4, <1>7, <1>9

(* A file or a link is done with: it is counted, or was handed out, or is not wanted. *)
LEMMA LeafDone ==
  ASSUME tree \in Trees, NEW k, NEW s, NEW hs, NEW g, WalkInv(k, s, hs, g), s.st = "running",
         NEW i \in Worker, NEW p \in Held(hs[i]), NEW l, l = Held(hs[i]) \ {p},
         p \in DOMAIN tree.kind, tree.kind[p] # "dir", Met(p), NEW t, NEW out, NEW unknowns, NEW ignored,
         Fields(t, s.st, s.err, s.queue, s.nodes, out, unknowns, ignored, s.pruned),
         s.out \subseteq out, s.unknowns \subseteq unknowns, OutOk(out), UnknownsOk(unknowns, g),
         Visible(p) => Reached(k, p, out, unknowns, g),
         g = {} => IF tree.kind[p] = "file" /\ TurnedAway(p, FALSE)
                   THEN ignored = s.ignored + 1 ELSE ignored = s.ignored
  PROVE  WalkInv(k, t, [hs EXCEPT ![i] = [at |-> "visit", left |-> l]], g)
<1>1. PICK h : h = [at |-> "visit", left |-> l]
  OBVIOUS
<1>2. PICK P : P = Pend(s, hs)
  OBVIOUS
<1>3. /\ P \in SUBSET DOMAIN tree.kind /\ Apart(P) /\ p \in P /\ Complete(k, s, P, g)
      /\ s.queue \cap Held(hs[i]) = {}
  BY <1>2, Running
<1>4. Complete(k, t, P \ {p}, g)
  <2> SUFFICES ASSUME t.err = "none"
               PROVE  /\ Covered(k, P \ {p}, t.out, t.unknowns, g)
                      /\ g = {} => Counted(P \ {p}, t.ignored, t.pruned)
    BY DEF Complete
  <2>1. t.out = out /\ t.unknowns = unknowns /\ t.ignored = ignored /\ t.pruned = s.pruned /\ s.err = "none"
    BY DEF Fields
  <2>2. Covered(k, P, s.out, s.unknowns, g) /\ (g = {} => Counted(P, s.ignored, s.pruned))
    BY <1>3, <2>1 DEF Complete
  <2>3. Covered(k, P \ {p}, out, unknowns, g)
    <3>1. \A q \in DOMAIN tree.kind : Visible(q) /\ p \in Prefixes(q) => Reached(k, q, out, unknowns, g)
      BY Leaf
    <3> QED
      BY <1>3, <2>2, <3>1, DroppedCovers
  <2>4. g = {} => Counted(P \ {p}, ignored, s.pruned)
    <3> SUFFICES ASSUME g = {} PROVE Counted(P \ {p}, ignored, s.pruned)
      OBVIOUS
    <3>1. Counted(P, s.ignored, s.pruned)
      BY <2>2
    <3>2. CASE tree.kind[p] = "file" /\ TurnedAway(p, FALSE)
      <4>1. ignored = s.ignored + 1
        BY <3>2
      <4>2. Counted(P \ {p}, s.ignored + 1, s.pruned)
        BY <1>3, <3>1, <3>2, LeafCounts
      <4> QED
        BY <4>1, <4>2
    <3>3. CASE ~(tree.kind[p] = "file" /\ TurnedAway(p, FALSE))
      <4>1. ignored = s.ignored
        BY <3>3
      <4>2. Counted(P \ {p}, s.ignored, s.pruned)
        BY <1>3, <3>1, <3>3, LeafCounts
      <4> QED
        BY <4>1, <4>2
    <3> QED
      BY <3>2, <3>3
  <2> QED
    BY <2>1, <2>3, <2>4
<1>5. HandOk(s.nodes, h) /\ Held(h) = l
  BY <1>1, HandIs, HeldBy
<1>6. /\ s.queue \subseteq s.queue /\ s.queue \cap Held(h) = {} /\ p \in s.queue \cup Held(hs[i])
      /\ s.queue \cup Held(h) = (s.queue \cup Held(hs[i])) \ {p}
      /\ Complete(k, t, Pend(s, hs) \ {p}, g)
  BY <1>2, <1>3, <1>4, <1>5
<1>7. WalkInv(k, t, [hs EXCEPT ![i] = h], g)
  BY <1>5, <1>6, Done
<1> QED
  BY <1>1, <1>7

(* Visit, a file the rules leave. *)
LEMMA VisitsEmit ==
  ASSUME tree \in Trees, NEW k, NEW s, NEW hs, NEW g, WalkInv(k, s, hs, g), s.st = "running",
         NEW i \in Worker, hs[i].at = "visit", NEW p \in hs[i].left, tree.kind[p] = "file",
         ~TurnedAway(p, FALSE)
  PROVE  WalkInv(k, s, [hs EXCEPT ![i] = [at |-> "emit", file |-> p, left |-> hs[i].left \ {p}]], g)
<1>1. PICK l : l = hs[i].left \ {p}
  OBVIOUS
<1>2. PICK h : h = [at |-> "emit", file |-> p, left |-> l]
  OBVIOUS
<1>3. Shaped(s) /\ NodesOk(s.nodes) /\ QueueOk(s.queue) /\ s.queue \cap Held(hs[i]) = {}
  BY Running
<1>4. p \in DOMAIN tree.kind /\ Met(p)
  BY VisitsOne
<1>5. HandOk(s.nodes, h)
  <2>1. Visible(p)
    BY <1>4 DEF Visible, Met
  <2> QED
    BY <1>1, <1>2, <2>1, HandIs
<1>6. Held(h) = {p} \cup l /\ Held(hs[i]) = hs[i].left
  BY <1>2, HeldBy DEF Held
<1>7. /\ Fields(s, s.st, s.err, s.queue, s.nodes, s.out, s.unknowns, s.ignored, s.pruned)
      /\ DOMAIN s.nodes \subseteq DOMAIN s.nodes
      /\ s.queue \cap Held(h) = {} /\ s.queue \cup Held(h) = s.queue \cup Held(hs[i])
  BY <1>1, <1>3, <1>6 DEF Fields
<1>8. WalkInv(k, s, [hs EXCEPT ![i] = h], g)
  BY <1>3, <1>5, <1>7, Onward
<1> QED
  BY <1>1, <1>2, <1>8

(* Emit: the file is visible, and met. *)
LEMMA EmitsOne ==
  ASSUME tree \in Trees, NEW k, NEW s, NEW hs, NEW g, WalkInv(k, s, hs, g), s.st = "running",
         NEW i \in Worker, hs[i].at = "emit"
  PROVE  /\ hs[i].file \in Held(hs[i]) /\ hs[i].left = Held(hs[i]) \ {hs[i].file}
         /\ hs[i].file \in DOMAIN tree.kind /\ tree.kind[hs[i].file] = "file"
         /\ Visible(hs[i].file) /\ ~TurnedAway(hs[i].file, FALSE) /\ Met(hs[i].file)
<1> DEFINE p == hs[i].file
<1>1. Held(hs[i]) = {p} \cup hs[i].left
  BY DEF Held
<1>2. HandOk(s.nodes, hs[i]) /\ Ahead(Pend(s, hs), s.nodes) /\ Held(hs[i]) \subseteq Pend(s, hs)
  BY Running
<1>3. p \notin hs[i].left /\ Visible(p)
  BY <1>2 DEF HandOk
<1>4. p \in DOMAIN tree.kind /\ tree.kind[p] = "file" /\ ~TurnedAway(p, FALSE)
  BY <1>3 DEF Visible
<1>5. p # Root
  BY <1>4, TreeShape
<1>6. Met(p)
  BY <1>1, <1>2, <1>5 DEF Ahead
<1> QED
  BY <1>1, <1>3, <1>4, <1>6

-----------------------------------------------------------------------------
(* The operators that read only the tree, which no step changes, mean after a
   step what they meant before it. *)

(* The line at a place. *)
LEMMA LineAtFixed ==
  ASSUME tree' = tree, NEW a
  PROVE  LineAt(a)' = LineAt(a)
  BY DEF LineAt

(* The lines of a directory. *)
LEMMA PlacesInFixed ==
  ASSUME tree' = tree, NEW d
  PROVE  PlacesIn(d)' = PlacesIn(d)
  BY DEF PlacesIn

(* The lines that bear on a path. *)
LEMMA PlacesFixed ==
  ASSUME tree' = tree, NEW p
  PROVE  Places(p)' = Places(p)
  BY PlacesInFixed DEF Places

(* Whether a line applies. *)
LEMMA AppliesFixed ==
  ASSUME tree' = tree, NEW a, NEW p, NEW isDir
  PROVE  Applies(a, p, isDir)' <=> Applies(a, p, isDir)
  BY LineAtFixed DEF Applies

(* What the rules turn away. *)
LEMMA TurnedAwayFixed ==
  ASSUME tree' = tree, NEW p, NEW isDir
  PROVE  TurnedAway(p, isDir)' <=> TurnedAway(p, isDir)
  BY LineAtFixed, PlacesFixed, AppliesFixed DEF TurnedAway

(* What is visible. *)
LEMMA VisibleFixed ==
  ASSUME tree' = tree, NEW p
  PROVE  Visible(p)' <=> Visible(p)
  BY TurnedAwayFixed DEF Visible

(* What can be listed. *)
LEMMA ListableFixed ==
  ASSUME tree' = tree, NEW p
  PROVE  Listable(p)' <=> Listable(p)
  BY DEF Listable

(* What is met. *)
LEMMA MetFixed ==
  ASSUME tree' = tree, NEW p
  PROVE  Met(p)' <=> Met(p)
  BY ListableFixed, TurnedAwayFixed DEF Met

(* The lines of a directory that has files. *)
LEMMA OwnFixed ==
  ASSUME tree' = tree, NEW d
  PROVE  Own(d)' = Own(d)
  BY PlacesInFixed DEF Own

(* The lines up to a directory. *)
LEMMA UptoFixed ==
  ASSUME tree' = tree, NEW d
  PROVE  Upto(d)' = Upto(d)
  BY OwnFixed DEF Upto

(* What a node lists. *)
LEMMA ListsFixed ==
  ASSUME tree' = tree, NEW node, NEW S
  PROVE  Lists(node, S)' <=> Lists(node, S)
  BY LineAtFixed DEF Lists

(* What is entered. *)
LEMMA EnteredFixed ==
  ASSUME tree' = tree, NEW d
  PROVE  Entered(d)' <=> Entered(d)
  BY TurnedAwayFixed DEF Entered

(* What is settled. *)
LEMMA SettledFixed ==
  ASSUME tree' = tree, NEW nodes, NEW q
  PROVE  Settled(nodes, q)' <=> Settled(nodes, q)
  BY OwnFixed DEF Settled

(* The callbacks. *)
LEMMA HandOkFixed ==
  ASSUME tree' = tree, NEW nodes, NEW h
  PROVE  HandOk(nodes, h)' <=> HandOk(nodes, h)
  BY EnteredFixed, ListsFixed, UptoFixed, SettledFixed, VisibleFixed DEF HandOk

(* The nodes. *)
LEMMA NodesOkFixed ==
  ASSUME tree' = tree, NEW nodes
  PROVE  NodesOk(nodes)' <=> NodesOk(nodes)
  BY ListsFixed, UptoFixed DEF NodesOk

(* What is ahead. *)
LEMMA AheadFixed ==
  ASSUME tree' = tree, NEW P, NEW nodes
  PROVE  Ahead(P, nodes)' <=> Ahead(P, nodes)
  BY MetFixed, SettledFixed DEF Ahead

(* The queue. *)
LEMMA QueueOkFixed ==
  ASSUME tree' = tree, NEW queue
  PROVE  QueueOk(queue)' <=> QueueOk(queue)
  BY DEF QueueOk

(* What was handed out. *)
LEMMA OutOkFixed ==
  ASSUME tree' = tree, NEW out
  PROVE  OutOk(out)' <=> OutOk(out)
  BY VisibleFixed, MetFixed DEF OutOk

(* The unknowns. *)
LEMMA UnknownsOkFixed ==
  ASSUME tree' = tree, NEW unknowns, NEW g
  PROVE  UnknownsOk(unknowns, g)' <=> UnknownsOk(unknowns, g)
  BY DEF UnknownsOk

(* What is covered. *)
LEMMA CoveredFixed ==
  ASSUME tree' = tree, NEW k, NEW P, NEW out, NEW unknowns, NEW g
  PROVE  Covered(k, P, out, unknowns, g)' <=> Covered(k, P, out, unknowns, g)
  BY VisibleFixed DEF Covered

(* What is skipped. *)
LEMMA SkippedFixed ==
  ASSUME tree' = tree, NEW P
  PROVE  Skipped(P)' = Skipped(P)
  BY MetFixed, TurnedAwayFixed DEF Skipped

(* What is pruned. *)
LEMMA PrunedFixed ==
  ASSUME tree' = tree, NEW P
  PROVE  Pruned(P)' = Pruned(P)
  BY MetFixed, TurnedAwayFixed DEF Pruned

(* The counters. *)
LEMMA CountedFixed ==
  ASSUME tree' = tree, NEW P, NEW ignored, NEW pruned
  PROVE  Counted(P, ignored, pruned)' <=> Counted(P, ignored, pruned)
  BY SkippedFixed, PrunedFixed DEF Counted

(* The account of a walk. *)
LEMMA CompleteFixed ==
  ASSUME tree' = tree, NEW k, NEW s, NEW P, NEW g
  PROVE  Complete(k, s, P, g)' <=> Complete(k, s, P, g)
  BY CoveredFixed, CountedFixed DEF Complete

(* The invariant of a walk. *)
LEMMA WalkInvFixed ==
  ASSUME tree' = tree, NEW k, NEW s, NEW hs, NEW g
  PROVE  WalkInv(k, s, hs, g)' <=> WalkInv(k, s, hs, g)
  BY HandOkFixed, NodesOkFixed, AheadFixed, QueueOkFixed, OutOkFixed, UnknownsOkFixed, CompleteFixed DEF WalkInv

-----------------------------------------------------------------------------
(* The invariant of the source. *)

Report(s) == [unknowns |-> s.unknowns, ignored |-> s.ignored, pruned |-> s.pruned]

GoneOk(g) == \A c \in g : c \in DOMAIN tree.kind /\ tree.kind[c] = "file"

WalkInvs == \A k \in Walk : WalkInv(k, ws[k], hand[k], gone)
PullInv == \A k \in Pull : /\ ws[k].st # "new" => Succeeded(Top)
                           /\ ws[k].out \subseteq ws[Top].out
ReportInv == Succeeded(Top) => published = Report(ws[Top])

SourceInv ==
  /\ tree \in Trees /\ GoneOk(gone)
  /\ DOMAIN ws = Walk /\ DOMAIN hand = Walk
  /\ WalkInvs
  /\ PullInv
  /\ ReportInv

(* A walk that succeeded has nothing pending, so that all it covers is
   reached and what it counted is all there is to count. *)
LEMMA Exhausted ==
  ASSUME NEW k, NEW s, NEW hs, NEW g, WalkInv(k, s, hs, g), s.st = "done", s.err = "none"
  PROVE  /\ \A p \in DOMAIN tree.kind : Visible(p) => Reached(k, p, s.out, s.unknowns, g)
         /\ g = {} => Counted({}, s.ignored, s.pruned)
<1>1. \A i \in Worker : hs[i] = Idle
  BY DEF WalkInv, Life
<1>2. s.queue = {}
  BY DEF WalkInv, Life
<1>3. Pend(s, hs) = {}
  BY <1>1, <1>2, IdleHand DEF Pend
<1>4. Complete(k, s, {}, g)
  BY <1>3 DEF WalkInv
<1>5. \A p : Through(p, {})
  BY DEF Through
<1> QED
  BY <1>4, <1>5 DEF Complete, Covered

(* A file the walk met cannot hide behind an unknown. *)
LEMMA FoundAll ==
  ASSUME tree \in Trees, NEW k, NEW s, NEW hs, NEW g, GoneOk(g), WalkInv(k, s, hs, g),
         s.st = "done", s.err = "none", NEW p, Visible(p), Met(p), p \notin g, wanted(k, p)
  PROVE  p \in s.out
<1>1. p \in DOMAIN tree.kind /\ tree.kind[p] = "file"
  BY DEF Visible
<1>2. Reached(k, p, s.out, s.unknowns, g)
  BY <1>1, Exhausted
<1>3. ASSUME NEW u \in s.unknowns, u[1] \in Prefixes(p) PROVE FALSE
  <2>1. UnknownsOk(s.unknowns, g)
    BY DEF WalkInv
  <2>2. CASE u[1] \in g
    <3>1. u[1] \in DOMAIN tree.kind /\ tree.kind[u[1]] = "file"
      BY <2>2 DEF GoneOk
    <3>2. p = u[1]
      BY <1>1, <1>3, <3>1, Leaf
    <3> QED
      BY <2>2, <3>2
  <2>3. CASE tree.kind[u[1]] = "dir" /\ u[1] \in tree.closed
    <3>1. u[1] \in Above(p) \cup {Root}
      BY <1>1, <1>3, <2>3 DEF Above
    <3> QED
      BY <2>3, <3>1 DEF Met, Listable
  <2> QED
    BY <2>1, <2>2, <2>3 DEF UnknownsOk
<1> QED
  BY <1>2, <1>3 DEF Reached

-----------------------------------------------------------------------------
(* The steps. *)

(* What the invariant says of one walk. *)
LEMMA Current ==
  ASSUME SourceInv, NEW k \in Walk
  PROVE  /\ tree \in Trees /\ GoneOk(gone) /\ WalkInv(k, ws[k], hand[k], gone)
         /\ Shaped(ws[k]) /\ Hands(hand[k])
         /\ \A i \in Worker : hand[k][i] # Idle => ws[k].st = "running"
<1>1. WalkInv(k, ws[k], hand[k], gone)
  BY DEF SourceInv, WalkInvs
<1>2. Shaped(ws[k]) /\ Hands(hand[k]) /\ Life(ws[k], hand[k])
  BY <1>1 DEF WalkInv
<1> QED
  BY <1>1, <1>2 DEF SourceInv, Life

(* The functions of the walks, before and after a step of walk k. *)
Replaced(f, k, v, f2) ==
  DOMAIN f2 = Walk /\ f2[k] = v /\ \A j \in Walk : j # k => f2[j] = f[j]

(* A step of one walk, whatever it is.  Nothing is pulled before the walk has
   succeeded, and nothing of the walk changes after it. *)
LEMMA OneWalk ==
  ASSUME SourceInv, NEW k \in Walk, NEW t, NEW hs,
         tree' = tree, gone' = gone, Replaced(ws, k, t, ws'), Replaced(hand, k, hs, hand'),
         WalkInv(k, t, hs, gone),
         k \in Pull => Succeeded(Top) /\ t.out \subseteq ws[Top].out /\ published' = published,
         k = Top => ~Succeeded(Top) /\ (t.st = "done" /\ t.err = "none" => published' = Report(t))
  PROVE  SourceInv'
<1>1. DOMAIN ws' = Walk /\ DOMAIN hand' = Walk
  BY DEF Replaced
<1>2. /\ ws'[k] = t /\ hand'[k] = hs
      /\ \A j \in Walk : j # k => ws'[j] = ws[j] /\ hand'[j] = hand[j]
  BY DEF Replaced
<1>3. tree' \in Trees /\ GoneOk(gone)'
  BY DEF SourceInv, GoneOk
<1>4. WalkInvs'
  <2>1. ASSUME NEW j \in Walk PROVE WalkInv(j, ws'[j], hand'[j], gone)
    BY <1>2 DEF SourceInv, WalkInvs
  <2>2. ASSUME NEW j \in Walk PROVE WalkInv(j, ws[j], hand[j], gone)'
    BY <2>1, WalkInvFixed
  <2> QED
    BY <2>2 DEF WalkInvs
<1>5. Top \in Walk /\ Pull \subseteq Walk /\ Top \notin Pull
  BY DirWalkAssumption DEF Walk
<1>6. PullInv'
  <2>1. CASE k = Top
    <3>1. ASSUME NEW j \in Pull PROVE ws'[j].st = "new" /\ ws'[j].out = {}
      <4>1. ws'[j] = ws[j] /\ ws[j].st = "new"
        BY <1>2, <1>5, <2>1 DEF SourceInv, PullInv
      <4>2. Life(ws[j], hand[j])
        BY <1>5 DEF SourceInv, WalkInvs, WalkInv
      <4>3. ws[j].out = {}
        BY <4>1, <4>2 DEF Life, newState
      <4> QED
        BY <4>1, <4>3
    <3> QED
      BY <3>1 DEF PullInv
  <2>2. CASE k # Top
    <3>1. k \in Pull /\ ws'[Top] = ws[Top] /\ (Succeeded(Top)' <=> Succeeded(Top))
      BY <1>2, <1>5, <2>2 DEF Walk, Succeeded
    <3>2. ASSUME NEW j \in Pull PROVE ws'[j].out \subseteq ws'[Top].out
      BY <1>2, <1>5, <3>1 DEF SourceInv, PullInv
    <3> QED
      BY <3>1, <3>2 DEF PullInv
  <2> QED
    BY <2>1, <2>2
<1>7. ReportInv'
  <2>1. CASE k = Top
    BY <1>2, <2>1 DEF ReportInv, Succeeded
  <2>2. CASE k # Top
    <3>1. ws'[Top] = ws[Top] /\ k \in Pull
      BY <1>2, <1>5, <2>2 DEF Walk
    <3> QED
      BY <3>1 DEF ReportInv, Succeeded, SourceInv
  <2> QED
    BY <2>1, <2>2
<1> QED
  BY <1>1, <1>3, <1>4, <1>6, <1>7 DEF SourceInv

(* What a callback does to its own walk is all it does. *)
LEMMA Callback ==
  ASSUME SourceInv, NEW k \in Walk, NEW i \in Worker, NEW h, NEW t, returns(k, i, h, t),
         ws[k].st = "running", t.st = "running", WalkInv(k, t, [hand[k] EXCEPT ![i] = h], gone),
         k \in Pull => t.out \subseteq ws[Top].out
  PROVE  SourceInv'
<1>1. PICK hs : hs = [hand[k] EXCEPT ![i] = h]
  OBVIOUS
<1>2. /\ tree' = tree /\ gone' = gone /\ published' = published
      /\ Replaced(ws, k, t, ws') /\ Replaced(hand, k, hs, hand')
  BY <1>1 DEF returns, SourceInv, Replaced
<1>3. k \in Pull => Succeeded(Top)
  BY DEF SourceInv, PullInv
<1>4. k = Top => ~Succeeded(Top)
  BY DEF Succeeded
<1> QED
  BY <1>1, <1>2, <1>3, <1>4, OneWalk

-----------------------------------------------------------------------------
(* The actions. *)

(* The records the callbacks make of their walk's state. *)
LEMMA Changed ==
  ASSUME NEW s, Shaped(s)
  PROVE  /\ \A Q : Fields([s EXCEPT !.queue = Q], s.st, s.err, Q, s.nodes, s.out, s.unknowns, s.ignored, s.pruned)
         /\ \A n : Fields([s EXCEPT !.nodes = n], s.st, s.err, s.queue, n, s.out, s.unknowns, s.ignored, s.pruned)
         /\ \A u : Fields([s EXCEPT !.unknowns = u], s.st, s.err, s.queue, s.nodes, s.out, u, s.ignored, s.pruned)
         /\ \A n : Fields([s EXCEPT !.ignored = n], s.st, s.err, s.queue, s.nodes, s.out, s.unknowns, n, s.pruned)
         /\ \A o : Fields([s EXCEPT !.out = o], s.st, s.err, s.queue, s.nodes, o, s.unknowns, s.ignored, s.pruned)
         /\ \A e : Fields([s EXCEPT !.err = e], s.st, e, s.queue, s.nodes, s.out, s.unknowns, s.ignored, s.pruned)
         /\ \A Q, n : Fields([[s EXCEPT !.queue = Q] EXCEPT !.pruned = n], s.st, s.err, Q, s.nodes, s.out, s.unknowns, s.ignored, n)
         /\ \A Q, e : Fields([[s EXCEPT !.err = e] EXCEPT !.queue = Q], s.st, e, Q, s.nodes, s.out, s.unknowns, s.ignored, s.pruned)
         /\ Fields(s, s.st, s.err, s.queue, s.nodes, s.out, s.unknowns, s.ignored, s.pruned)
  BY DEF Shaped, Fields

(* A callback that hands out nothing. *)
LEMMA Quiet ==
  ASSUME SourceInv, NEW k \in Walk, NEW i \in Worker, NEW h, NEW t, returns(k, i, h, t),
         ws[k].st = "running", NEW err, NEW queue, NEW nodes, NEW unknowns, NEW ignored, NEW pruned,
         Fields(t, ws[k].st, err, queue, nodes, ws[k].out, unknowns, ignored, pruned),
         WalkInv(k, t, [hand[k] EXCEPT ![i] = h], gone)
  PROVE  SourceInv'
<1>1. t.st = "running" /\ t.out = ws[k].out
  BY DEF Fields
<1>2. k \in Pull => t.out \subseteq ws[Top].out
  BY <1>1 DEF SourceInv, PullInv
<1> QED
  BY <1>1, <1>2, Callback

(* The callback of a directory. *)
LEMMA EnterKeeps ==
  ASSUME SourceInv, NEW k \in Walk, NEW i \in Worker, Enter(k, i)
  PROVE  SourceInv'
<1>1. PICK s : s = ws[k]
  OBVIOUS
<1>2. PICK hs : hs = hand[k]
  OBVIOUS
<1>3. tree \in Trees /\ WalkInv(k, s, hs, gone) /\ Shaped(s)
  BY <1>1, <1>2, Current
<1>4. s.st = "running" /\ s.err = "none" /\ hs[i] = Idle
  BY <1>1, <1>2 DEF Enter
<1>5. PICK d \in s.queue :
        LET r == [s EXCEPT !.queue = @ \ {d}]
            node == lookup(s.nodes, Front(d))
        IN  IF cancelled THEN returns(k, i, Idle, [failed(k, "ctx") EXCEPT !.queue = r.queue])
            ELSE IF d = Root THEN returns(k, i, [at |-> "list", dir |-> d], r)
            ELSE IF defaultMatch(d, TRUE) \/ matches(node, d, TRUE) \/ userIgnored(d, TRUE)
                 THEN returns(k, i, Idle, [r EXCEPT !.pruned = @ + 1])
            ELSE returns(k, i, [at |-> "layer", dir |-> d, node |-> node], r)
  BY <1>1, <1>2 DEF Enter
<1>6. PICK r : r = [s EXCEPT !.queue = s.queue \ {d}]
  OBVIOUS
<1>7. PICK node : node = lookup(s.nodes, Front(d))
  OBVIOUS
<1>8. Fields(r, s.st, s.err, s.queue \ {d}, s.nodes, s.out, s.unknowns, s.ignored, s.pruned)
  BY <1>3, <1>6, Changed
<1>9. CASE cancelled
  <2>0. PICK Q : Q = s.queue \ {d}
    OBVIOUS
  <2>1. PICK t : t = [[s EXCEPT !.err = "ctx"] EXCEPT !.queue = Q]
    OBVIOUS
  <2>2. returns(k, i, Idle, t)
    <3>1. failed(k, "ctx") = [s EXCEPT !.err = "ctx"]
      BY <1>1, <1>4 DEF failed
    <3>2. r.queue = s.queue \ {d}
      BY <1>8 DEF Fields
    <3> QED
      BY <1>5, <1>6, <1>9, <2>0, <2>1, <3>1, <3>2
  <2>3. Fields(t, s.st, "ctx", Q, s.nodes, s.out, s.unknowns, s.ignored, s.pruned)
    BY <1>3, <2>1, Changed
  <2>4. WalkInv(k, t, [hs EXCEPT ![i] = Idle], gone)
    <3>1. "ctx" # "none" /\ Q \subseteq s.queue
      BY <2>0
    <3> QED
      BY <1>3, <1>4, <2>3, <3>1, Failure
  <2> QED
    BY <1>1, <1>2, <1>4, <2>2, <2>3, <2>4, Quiet
<1>10. CASE ~cancelled /\ d = Root
  <2>1. returns(k, i, [at |-> "list", dir |-> d], r)
    BY <1>5, <1>6, <1>10
  <2>2. WalkInv(k, r, [hs EXCEPT ![i] = [at |-> "list", dir |-> d]], gone)
    BY <1>3, <1>4, <1>8, <1>10, EntersRoot
  <2> QED
    BY <1>1, <1>2, <1>4, <1>8, <2>1, <2>2, Quiet
<1>11. CASE ~cancelled /\ d # Root /\ TurnedAway(d, TRUE)
  <2>1. PICK t : t = [r EXCEPT !.pruned = s.pruned + 1]
    OBVIOUS
  <2>2. returns(k, i, Idle, t)
    <3>1. defaultMatch(d, TRUE) \/ matches(node, d, TRUE) \/ userIgnored(d, TRUE)
      BY <1>3, <1>4, <1>7, <1>11, EntersBelow
    <3>2. r.pruned = s.pruned
      BY <1>8 DEF Fields
    <3>3. t = [r EXCEPT !.pruned = r.pruned + 1]
      BY <2>1, <3>2
    <3> QED
      BY <1>5, <1>6, <1>7, <1>11, <3>1, <3>3
  <2>3. Fields(t, s.st, s.err, s.queue \ {d}, s.nodes, s.out, s.unknowns, s.ignored, s.pruned + 1)
    BY <1>3, <1>6, <2>1, Changed
  <2>4. WalkInv(k, t, [hs EXCEPT ![i] = Idle], gone)
    BY <1>3, <1>4, <1>11, <2>3, EntersPruned
  <2> QED
    BY <1>1, <1>2, <1>4, <2>2, <2>3, <2>4, Quiet
<1>12. CASE ~cancelled /\ d # Root /\ ~TurnedAway(d, TRUE)
  <2>1. ~(defaultMatch(d, TRUE) \/ matches(node, d, TRUE) \/ userIgnored(d, TRUE)) /\ Lists(node, Upto(Front(d)))
    BY <1>3, <1>4, <1>7, <1>12, EntersBelow
  <2>2. returns(k, i, [at |-> "layer", dir |-> d, node |-> node], r)
    BY <1>5, <1>6, <1>7, <1>12, <2>1
  <2>3. WalkInv(k, r, [hs EXCEPT ![i] = [at |-> "layer", dir |-> d, node |-> node]], gone)
    BY <1>3, <1>4, <1>8, <1>12, <2>1, EntersLayer
  <2> QED
    BY <1>1, <1>2, <1>4, <1>8, <2>2, <2>3, Quiet
<1> QED
  BY <1>9, <1>10, <1>11, <1>12

(* Only a walk that runs has callbacks. *)
LEMMA Busy ==
  ASSUME SourceInv, NEW k \in Walk, NEW i \in Worker, hand[k][i].at # "idle"
  PROVE  ws[k].st = "running"
<1>1. hand[k][i] # Idle
  BY DEF Idle
<1> QED
  BY <1>1, Current

(* The ignore files of a directory. *)
LEMMA LayerKeeps ==
  ASSUME SourceInv, NEW k \in Walk, NEW i \in Worker, Layer(k, i)
  PROVE  SourceInv'
<1>1. PICK s : s = ws[k]
  OBVIOUS
<1>2. PICK hs : hs = hand[k]
  OBVIOUS
<1>3. tree \in Trees /\ WalkInv(k, s, hs, gone) /\ Shaped(s)
  BY <1>1, <1>2, Current
<1>4. s.st = "running" /\ hs[i].at = "layer"
  BY <1>1, <1>2, Busy DEF Layer
<1>5. PICK d : d = hs[i].dir
  OBVIOUS
<1>6. PICK child : child = childNode(hs[i].node, d, d)
  OBVIOUS
<1>7. PICK nodes : nodes = IF child = hs[i].node THEN s.nodes ELSE store(s.nodes, d, child)
  OBVIOUS
<1>8. PICK t : t = IF child = hs[i].node THEN s ELSE [s EXCEPT !.nodes = store(s.nodes, d, child)]
  OBVIOUS
<1>9. returns(k, i, [at |-> "list", dir |-> d], t)
  BY <1>1, <1>2, <1>5, <1>6, <1>8 DEF Layer
<1>10. Fields(t, s.st, s.err, s.queue, nodes, s.out, s.unknowns, s.ignored, s.pruned)
  BY <1>3, <1>7, <1>8, Changed
<1>11. WalkInv(k, t, [hs EXCEPT ![i] = [at |-> "list", dir |-> d]], gone)
  BY <1>3, <1>4, <1>5, <1>6, <1>7, <1>10, Layered
<1> QED
  BY <1>1, <1>2, <1>4, <1>9, <1>10, <1>11, Quiet

(* The listing of a directory. *)
LEMMA ListKeeps ==
  ASSUME SourceInv, NEW k \in Walk, NEW i \in Worker, List(k, i)
  PROVE  SourceInv'
<1>1. PICK s : s = ws[k]
  OBVIOUS
<1>2. PICK hs : hs = hand[k]
  OBVIOUS
<1>3. tree \in Trees /\ WalkInv(k, s, hs, gone) /\ Shaped(s) /\ GoneOk(gone)
  BY <1>1, <1>2, Current
<1>4. s.st = "running" /\ hs[i].at = "list"
  BY <1>1, <1>2, Busy DEF List
<1>5. PICK d : d = hs[i].dir
  OBVIOUS
<1>6. CASE d \notin tree.closed
  <2>1. returns(k, i, [at |-> "visit", left |-> children(d)], s)
    BY <1>1, <1>2, <1>5, <1>6 DEF List
  <2>2. WalkInv(k, s, [hs EXCEPT ![i] = [at |-> "visit", left |-> children(d)]], gone)
    BY <1>3, <1>4, <1>5, <1>6, ListsChildren DEF GoneOk
  <2>3. Fields(s, s.st, s.err, s.queue, s.nodes, s.out, s.unknowns, s.ignored, s.pruned)
    BY <1>3, Changed
  <2> QED
    BY <1>1, <1>2, <1>4, <2>1, <2>2, <2>3, Quiet
<1>7. CASE d \in tree.closed /\ (cancelled \/ d = Root)
  <2>1. PICK e : e = IF s.err # "none" THEN s.err ELSE IF cancelled THEN "ctx" ELSE "root"
    OBVIOUS
  <2>2. PICK t : t = [s EXCEPT !.err = e]
    OBVIOUS
  <2>3. returns(k, i, Idle, t)
    BY <1>1, <1>2, <1>5, <1>7, <2>1, <2>2 DEF List, failed
  <2>4. Fields(t, s.st, e, s.queue, s.nodes, s.out, s.unknowns, s.ignored, s.pruned)
    BY <1>3, <2>2, Changed
  <2>5. WalkInv(k, t, [hs EXCEPT ![i] = Idle], gone)
    <3>1. e # "none" /\ s.queue \subseteq s.queue
      BY <2>1
    <3> QED
      BY <1>3, <1>4, <2>4, <3>1, Failure
  <2> QED
    BY <1>1, <1>2, <1>4, <2>3, <2>4, <2>5, Quiet
<1>8. CASE d \in tree.closed /\ ~cancelled /\ d # Root
  <2>1. PICK t : t = [s EXCEPT !.unknowns = s.unknowns \cup {<<d, "walk">>}]
    OBVIOUS
  <2>2. returns(k, i, Idle, t)
    BY <1>1, <1>2, <1>5, <1>8, <2>1 DEF List
  <2>3. Fields(t, s.st, s.err, s.queue, s.nodes, s.out, s.unknowns \cup {<<d, "walk">>}, s.ignored, s.pruned)
    BY <1>3, <2>1, Changed
  <2>4. WalkInv(k, t, [hs EXCEPT ![i] = Idle], gone)
    BY <1>3, <1>4, <1>5, <1>8, <2>3, ListFails
  <2> QED
    BY <1>1, <1>2, <1>4, <2>2, <2>3, <2>4, Quiet
<1> QED
  BY <1>6, <1>7, <1>8

(* The next child. *)
LEMMA VisitKeeps ==
  ASSUME SourceInv, NEW k \in Walk, NEW i \in Worker, Visit(k, i)
  PROVE  SourceInv'
<1>1. PICK s : s = ws[k]
  OBVIOUS
<1>2. PICK hs : hs = hand[k]
  OBVIOUS
<1>3. tree \in Trees /\ WalkInv(k, s, hs, gone) /\ Shaped(s)
  BY <1>1, <1>2, Current
<1>4. s.st = "running" /\ hs[i].at = "visit"
  BY <1>1, <1>2, Busy DEF Visit
<1>5. Fields(s, s.st, s.err, s.queue, s.nodes, s.out, s.unknowns, s.ignored, s.pruned)
  BY <1>3, Changed
<1>6. CASE hs[i].left = {}
  <2>1. returns(k, i, Idle, s)
    BY <1>1, <1>2, <1>6 DEF Visit
  <2>2. WalkInv(k, s, [hs EXCEPT ![i] = Idle], gone)
    BY <1>3, <1>4, <1>6, VisitsEnd
  <2> QED
    BY <1>1, <1>2, <1>4, <1>5, <2>1, <2>2, Quiet
<1>7. CASE hs[i].left # {}
  <2>1. PICK p \in hs[i].left :
          LET rest == [at |-> "visit", left |-> hs[i].left \ {p}]
          IN  IF tree.kind[p] = "dir"
              THEN returns(k, i, rest, [s EXCEPT !.queue = @ \cup {p}])
              ELSE IF cancelled THEN returns(k, i, Idle, failed(k, "ctx"))
              ELSE IF tree.kind[p] # "file" THEN returns(k, i, rest, s)
              ELSE IF \/ defaultMatch(p, FALSE)
                      \/ matches(lookup(s.nodes, Front(p)), p, FALSE)
                      \/ userIgnored(p, FALSE)
                   THEN returns(k, i, rest, [s EXCEPT !.ignored = @ + 1])
              ELSE returns(k, i, [at |-> "emit", file |-> p, left |-> rest.left], s)
    BY <1>1, <1>2, <1>7 DEF Visit
  <2>2. PICK l : l = hs[i].left \ {p}
    OBVIOUS
  <2>3. PICK rest : rest = [at |-> "visit", left |-> l]
    OBVIOUS
  <2>4. CASE tree.kind[p] = "dir"
    <3>1. PICK t : t = [s EXCEPT !.queue = s.queue \cup {p}]
      OBVIOUS
    <3>2. returns(k, i, rest, t)
      BY <2>1, <2>2, <2>3, <2>4, <3>1
    <3>3. Fields(t, s.st, s.err, s.queue \cup {p}, s.nodes, s.out, s.unknowns, s.ignored, s.pruned)
      BY <1>3, <3>1, Changed
    <3>4. WalkInv(k, t, [hs EXCEPT ![i] = rest], gone)
      BY <1>3, <1>4, <2>2, <2>3, <2>4, <3>3, VisitsDir
    <3> QED
      BY <1>1, <1>2, <1>4, <3>2, <3>3, <3>4, Quiet
  <2>5. CASE tree.kind[p] # "dir" /\ cancelled
    <3>1. PICK e : e = IF s.err = "none" THEN "ctx" ELSE s.err
      OBVIOUS
    <3>2. PICK t : t = [s EXCEPT !.err = e]
      OBVIOUS
    <3>3. returns(k, i, Idle, t)
      <4>1. failed(k, "ctx") = t
        BY <1>1, <3>1, <3>2 DEF failed
      <4> QED
        BY <2>1, <2>5, <4>1
    <3>4. Fields(t, s.st, e, s.queue, s.nodes, s.out, s.unknowns, s.ignored, s.pruned)
      BY <1>3, <3>2, Changed
    <3>5. WalkInv(k, t, [hs EXCEPT ![i] = Idle], gone)
      <4>1. e # "none" /\ s.queue \subseteq s.queue
        BY <3>1
      <4> QED
        BY <1>3, <1>4, <3>4, <4>1, Failure
    <3> QED
      BY <1>1, <1>2, <1>4, <3>3, <3>4, <3>5, Quiet
  <2>6. ASSUME tree.kind[p] # "dir"
        PROVE  /\ p \in Held(hs[i]) /\ l = Held(hs[i]) \ {p} /\ p \in DOMAIN tree.kind /\ Met(p)
               /\ OutOk(s.out) /\ UnknownsOk(s.unknowns, gone)
               /\ s.out \subseteq s.out /\ s.unknowns \subseteq s.unknowns
               /\ TurnedAway(p, FALSE) <=> \/ defaultMatch(p, FALSE)
                                           \/ matches(lookup(s.nodes, Front(p)), p, FALSE)
                                           \/ userIgnored(p, FALSE)
    <3>1. Held(hs[i]) = hs[i].left
      BY <1>4 DEF Held
    <3>2. p \in DOMAIN tree.kind /\ Met(p)
      BY <1>3, <1>4, <2>6, VisitsOne
    <3>3. TurnedAway(p, FALSE) <=> \/ defaultMatch(p, FALSE)
                                   \/ matches(lookup(s.nodes, Front(p)), p, FALSE)
                                   \/ userIgnored(p, FALSE)
      BY <1>3, <1>4, <2>6, VisitsOne
    <3>4. OutOk(s.out) /\ UnknownsOk(s.unknowns, gone)
      BY <1>3, <1>4, Running
    <3> QED
      BY <2>2, <3>1, <3>2, <3>3, <3>4
  <2>7. CASE tree.kind[p] \notin {"dir", "file"} /\ ~cancelled
    <3>1. returns(k, i, rest, s)
      BY <2>1, <2>2, <2>3, <2>7
    <3>2. WalkInv(k, s, [hs EXCEPT ![i] = rest], gone)
      <4>1. /\ Visible(p) => Reached(k, p, s.out, s.unknowns, gone)
            /\ gone = {} => IF tree.kind[p] = "file" /\ TurnedAway(p, FALSE)
                            THEN s.ignored = s.ignored + 1 ELSE s.ignored = s.ignored
        BY <2>7 DEF Visible
      <4> QED
        BY <1>3, <1>4, <1>5, <2>3, <2>6, <2>7, <4>1, LeafDone
    <3> QED
      BY <1>1, <1>2, <1>4, <1>5, <3>1, <3>2, Quiet
  <2>8. CASE tree.kind[p] = "file" /\ ~cancelled /\ TurnedAway(p, FALSE)
    <3>1. PICK t : t = [s EXCEPT !.ignored = s.ignored + 1]
      OBVIOUS
    <3>2. returns(k, i, rest, t)
      BY <2>1, <2>2, <2>3, <2>6, <2>8, <3>1
    <3>3. Fields(t, s.st, s.err, s.queue, s.nodes, s.out, s.unknowns, s.ignored + 1, s.pruned)
      BY <1>3, <3>1, Changed
    <3>4. WalkInv(k, t, [hs EXCEPT ![i] = rest], gone)
      <4>1. PICK n : n = s.ignored + 1
        OBVIOUS
      <4>2. /\ Visible(p) => Reached(k, p, s.out, s.unknowns, gone)
            /\ gone = {} => IF tree.kind[p] = "file" /\ TurnedAway(p, FALSE)
                            THEN n = s.ignored + 1 ELSE n = s.ignored
        BY <2>8, <4>1 DEF Visible
      <4>3. tree.kind[p] # "dir"
        BY <2>8
      <4>4. Fields(t, s.st, s.err, s.queue, s.nodes, s.out, s.unknowns, n, s.pruned)
        BY <3>3, <4>1
      <4> QED
        BY <1>3, <1>4, <2>3, <2>6, <4>2, <4>3, <4>4, LeafDone
    <3> QED
      BY <1>1, <1>2, <1>4, <3>2, <3>3, <3>4, Quiet
  <2>9. CASE tree.kind[p] = "file" /\ ~cancelled /\ ~TurnedAway(p, FALSE)
    <3>1. PICK h : h = [at |-> "emit", file |-> p, left |-> l]
      OBVIOUS
    <3>2. returns(k, i, h, s)
      <4>1. rest.left = l
        BY <2>3
      <4> QED
        BY <2>1, <2>2, <2>3, <2>6, <2>9, <3>1, <4>1
    <3>3. WalkInv(k, s, [hs EXCEPT ![i] = h], gone)
      BY <1>3, <1>4, <2>2, <2>9, <3>1, VisitsEmit
    <3> QED
      BY <1>1, <1>2, <1>4, <1>5, <3>2, <3>3, Quiet
  <2> QED
    BY <2>4, <2>5, <2>7, <2>8, <2>9
<1> QED
  BY <1>6, <1>7

(* A file for fn.  A pull finds it among the files of the walk: it is visible
   and met, and the walk covers it. *)
LEMMA EmitKeeps ==
  ASSUME SourceInv, NEW k \in Walk, NEW i \in Worker, Emit(k, i)
  PROVE  SourceInv'
<1>1. PICK s : s = ws[k]
  OBVIOUS
<1>2. PICK hs : hs = hand[k]
  OBVIOUS
<1>3. tree \in Trees /\ WalkInv(k, s, hs, gone) /\ Shaped(s) /\ GoneOk(gone)
  BY <1>1, <1>2, Current
<1>4. s.st = "running" /\ hs[i].at = "emit"
  BY <1>1, <1>2, Busy DEF Emit
<1>5. PICK p : p = hs[i].file
  OBVIOUS
<1>6. PICK l : l = hs[i].left
  OBVIOUS
<1>7. PICK rest : rest = [at |-> "visit", left |-> l]
  OBVIOUS
<1>8. /\ p \in Held(hs[i]) /\ l = Held(hs[i]) \ {p} /\ p \in DOMAIN tree.kind
      /\ tree.kind[p] = "file" /\ Visible(p) /\ ~TurnedAway(p, FALSE) /\ Met(p)
  <2>1. /\ hs[i].file \in Held(hs[i]) /\ hs[i].left = Held(hs[i]) \ {hs[i].file}
        /\ hs[i].file \in DOMAIN tree.kind /\ tree.kind[hs[i].file] = "file"
        /\ Visible(hs[i].file) /\ ~TurnedAway(hs[i].file, FALSE) /\ Met(hs[i].file)
    BY <1>3, <1>4, EmitsOne
  <2> QED
    BY <1>5, <1>6, <2>1
<1>9. OutOk(s.out) /\ UnknownsOk(s.unknowns, gone)
  BY <1>3, <1>4, Running
<1>10. \/ /\ p \in gone
          /\ returns(k, i, rest, [s EXCEPT !.unknowns = @ \cup {<<p, "stat">>}])
       \/ /\ p \notin gone
          /\ returns(k, i, rest, [s EXCEPT !.out = IF wanted(k, p) THEN @ \cup {p} ELSE @])
       \/ /\ p \notin gone /\ k = Top /\ cancelled
          /\ returns(k, i, Idle, failed(k, "ctx"))
  BY <1>1, <1>2, <1>5, <1>6, <1>7 DEF Emit
<1>11. CASE p \in gone /\ returns(k, i, rest, [s EXCEPT !.unknowns = @ \cup {<<p, "stat">>}])
  <2>1. PICK U : U = s.unknowns \cup {<<p, "stat">>}
    OBVIOUS
  <2>2. PICK t : t = [s EXCEPT !.unknowns = U]
    OBVIOUS
  <2>3. returns(k, i, rest, t)
    BY <1>11, <2>1, <2>2
  <2>4. Fields(t, s.st, s.err, s.queue, s.nodes, s.out, U, s.ignored, s.pruned)
    BY <1>3, <2>2, Changed
  <2>5. WalkInv(k, t, [hs EXCEPT ![i] = rest], gone)
    <3>1. <<p, "stat">>[1] = p /\ p \in Prefixes(p)
      BY <1>8, TreeShape, Self, <1>3
    <3>2. UnknownsOk(U, gone)
      BY <1>8, <1>9, <1>11, <2>1, <3>1 DEF UnknownsOk
    <3>3. /\ tree.kind[p] # "dir" /\ s.out \subseteq s.out /\ s.unknowns \subseteq U
          /\ Visible(p) => Reached(k, p, s.out, U, gone)
          /\ gone = {} => IF tree.kind[p] = "file" /\ TurnedAway(p, FALSE)
                          THEN s.ignored = s.ignored + 1 ELSE s.ignored = s.ignored
      BY <1>8, <1>11, <2>1 DEF Reached
    <3> QED
      BY <1>3, <1>4, <1>7, <1>8, <1>9, <2>4, <3>2, <3>3, LeafDone
  <2> QED
    BY <1>1, <1>2, <1>4, <2>3, <2>4, <2>5, Quiet
<1>12. CASE p \notin gone /\ returns(k, i, rest, [s EXCEPT !.out = IF wanted(k, p) THEN @ \cup {p} ELSE @])
  <2>1. PICK out : out = IF wanted(k, p) THEN s.out \cup {p} ELSE s.out
    OBVIOUS
  <2>2. PICK t : t = [s EXCEPT !.out = out]
    OBVIOUS
  <2>3. returns(k, i, rest, t)
    BY <1>12, <2>1, <2>2
  <2>4. Fields(t, s.st, s.err, s.queue, s.nodes, out, s.unknowns, s.ignored, s.pruned)
    BY <1>3, <2>2, Changed
  <2>5. WalkInv(k, t, [hs EXCEPT ![i] = rest], gone)
    <3>1. OutOk(out)
      BY <1>8, <1>9, <2>1 DEF OutOk
    <3>2. /\ tree.kind[p] # "dir" /\ s.out \subseteq out /\ s.unknowns \subseteq s.unknowns
          /\ Visible(p) => Reached(k, p, out, s.unknowns, gone)
          /\ gone = {} => IF tree.kind[p] = "file" /\ TurnedAway(p, FALSE)
                          THEN s.ignored = s.ignored + 1 ELSE s.ignored = s.ignored
      BY <1>8, <2>1 DEF Reached
    <3> QED
      BY <1>3, <1>4, <1>7, <1>8, <1>9, <2>4, <3>1, <3>2, LeafDone
  <2>6. t.st = "running" /\ t.out = out
    BY <1>4, <2>4 DEF Fields
  <2>7. k \in Pull => out \subseteq ws[Top].out
    <3> SUFFICES ASSUME k \in Pull PROVE out \subseteq ws[Top].out
      OBVIOUS
    <3>1. Succeeded(Top) /\ s.out \subseteq ws[Top].out
      BY <1>1, <1>4 DEF SourceInv, PullInv
    <3>2. Top \in Walk /\ wanted(Top, p)
      BY DEF Walk, wanted
    <3>3. WalkInv(Top, ws[Top], hand[Top], gone) /\ ws[Top].st = "done" /\ ws[Top].err = "none"
      BY <3>1, <3>2, Current DEF Succeeded
    <3>4. p \in ws[Top].out
      BY <1>3, <1>8, <1>12, <3>2, <3>3, FoundAll
    <3> QED
      BY <2>1, <3>1, <3>4
  <2> QED
    BY <1>1, <1>2, <1>4, <2>3, <2>5, <2>6, <2>7, Callback
<1>13. CASE returns(k, i, Idle, failed(k, "ctx"))
  <2>1. PICK e : e = IF s.err = "none" THEN "ctx" ELSE s.err
    OBVIOUS
  <2>2. PICK t : t = [s EXCEPT !.err = e]
    OBVIOUS
  <2>3. returns(k, i, Idle, t)
    <3>1. failed(k, "ctx") = t
      BY <1>1, <2>1, <2>2 DEF failed
    <3> QED
      BY <1>13, <3>1
  <2>4. Fields(t, s.st, e, s.queue, s.nodes, s.out, s.unknowns, s.ignored, s.pruned)
    BY <1>3, <2>2, Changed
  <2>5. WalkInv(k, t, [hs EXCEPT ![i] = Idle], gone)
    <3>1. e # "none" /\ s.queue \subseteq s.queue
      BY <2>1
    <3> QED
      BY <1>3, <1>4, <2>4, <3>1, Failure
  <2> QED
    BY <1>1, <1>2, <1>4, <2>3, <2>4, <2>5, Quiet
<1> QED
  BY <1>10, <1>11, <1>12, <1>13

-----------------------------------------------------------------------------
(* Start, return and the world. *)

(* A walk that starts has the root ahead of it, and nothing else. *)
LEMMA Launched ==
  ASSUME tree \in Trees, NEW k, NEW hs, Hands(hs), \A i \in Worker : hs[i] = Idle, NEW t, NEW g,
         Fields(t, "running", "none", {Root}, store(<<>>, Root, rootNode), {}, {}, 0, 0)
  PROVE  WalkInv(k, t, hs, g)
<1>1. /\ Shaped(t) /\ t.st = "running" /\ t.err = "none" /\ t.queue = {Root}
      /\ t.nodes = store(<<>>, Root, rootNode) /\ t.out = {} /\ t.unknowns = {} /\ t.ignored = 0 /\ t.pruned = 0
  BY DEF Fields
<1>2. NodesOk(t.nodes)
  <2>1. Root \in Path
    BY DEF Root, Path
  <2>2. Lists(rootNode, Upto(Root))
    BY <2>1, OwnLines, UptoNext DEF rootNode
  <2>3. DOMAIN t.nodes = {Root} /\ t.nodes[Root] = rootNode
    BY <1>1 DEF store
  <2> QED
    BY <2>1, <2>2, <2>3 DEF NodesOk
<1>3. Life(t, hs) /\ \A i \in Worker : HandOk(t.nodes, hs[i]) /\ Held(hs[i]) = {}
  BY <1>1, IdleHand DEF Life
<1>4. Pend(t, hs) = {Root}
  BY <1>1, <1>3 DEF Pend
<1>5. Root \in DOMAIN tree.kind /\ tree.kind[Root] = "dir"
  BY TreeShape
<1>6. Ahead({Root}, t.nodes) /\ QueueOk(t.queue)
  BY <1>1, <1>5 DEF Ahead, QueueOk
<1>7. Once(t, hs)
  BY <1>1, <1>3, <1>4 DEF Once, Apart
<1>8. ASSUME NEW p \in DOMAIN tree.kind PROVE ~Through(p, {Root})
  <2>1. p \in Path
    BY TreeShape
  <2>2. Root \in Prefixes(p)
    BY <2>1, Self
  <2> QED
    BY <2>2 DEF Through
<1>9. Complete(k, t, {Root}, g)
  <2>1. Covered(k, {Root}, t.out, t.unknowns, g)
    BY <1>8 DEF Covered
  <2>2. Skipped({Root}) = {} /\ Pruned({Root}) = {}
    BY <1>8 DEF Skipped, Pruned
  <2>3. Counted({Root}, 0, 0)
    BY <2>2, FS_EmptySet DEF Counted
  <2> QED
    BY <1>1, <2>1, <2>3 DEF Complete
<1>10. OutOk(t.out) /\ UnknownsOk(t.unknowns, g)
  BY <1>1 DEF OutOk, UnknownsOk
<1> QED
  BY <1>1, <1>2, <1>3, <1>4, <1>6, <1>7, <1>9, <1>10 DEF WalkInv

(* A walk starts. *)
LEMMA StartKeeps ==
  ASSUME SourceInv, NEW k \in Walk, Start(k)
  PROVE  SourceInv'
<1>1. PICK s : s = ws[k]
  OBVIOUS
<1>2. PICK hs : hs = hand[k]
  OBVIOUS
<1>3. tree \in Trees /\ WalkInv(k, s, hs, gone) /\ Shaped(s) /\ Hands(hs)
  BY <1>1, <1>2, Current
<1>4. s = newState /\ \A i \in Worker : hs[i] = Idle
  BY <1>1, <1>3 DEF Start, WalkInv, Life
<1>5. PICK t : t = [s EXCEPT !.st = "running", !.queue = {Root}, !.nodes = store(@, Root, rootNode)]
  OBVIOUS
<1>6. Fields(t, "running", "none", {Root}, store(<<>>, Root, rootNode), {}, {}, 0, 0)
  BY <1>4, <1>5 DEF newState, Fields, Shaped
<1>7. WalkInv(k, t, hs, gone)
  BY <1>3, <1>4, <1>6, Launched
<1>8. tree' = tree /\ gone' = gone /\ published' = published
  BY DEF Start
<1>9. Replaced(ws, k, t, ws') /\ Replaced(hand, k, hs, hand')
  <2>1. Replaced(ws, k, t, ws')
    BY <1>1, <1>5 DEF Start, SourceInv, Replaced
  <2>2. Replaced(hand, k, hs, hand')
    BY <1>2 DEF Start, SourceInv, Replaced
  <2> QED
    BY <2>1, <2>2
<1>10. t.st = "running" /\ t.out = {}
  BY <1>6 DEF Fields
<1>11. k \in Pull => Succeeded(Top) /\ t.out \subseteq ws[Top].out
  BY <1>10 DEF Start, Succeeded
<1>12. k = Top => ~Succeeded(Top)
  BY DEF Start, Succeeded
<1> QED
  BY <1>7, <1>8, <1>9, <1>10, <1>11, <1>12, OneWalk

(* A walk returns; Walk publishes what it counted. *)
LEMMA ReturnKeeps ==
  ASSUME SourceInv, NEW k \in Walk, Return(k)
  PROVE  SourceInv'
<1>1. PICK s : s = ws[k]
  OBVIOUS
<1>2. PICK hs : hs = hand[k]
  OBVIOUS
<1>3. tree \in Trees /\ WalkInv(k, s, hs, gone) /\ Shaped(s) /\ Hands(hs)
  BY <1>1, <1>2, Current
<1>4. s.st = "running" /\ (\A i \in Worker : hs[i] = Idle) /\ (s.queue = {} \/ s.err # "none")
  BY <1>1, <1>2 DEF Return
<1>5. PICK e : e = IF s.err # "none" /\ cancelled THEN "ctx" ELSE s.err
  OBVIOUS
<1>6. PICK t : t = [s EXCEPT !.st = "done", !.err = e]
  OBVIOUS
<1>7. Fields(t, "done", e, s.queue, s.nodes, s.out, s.unknowns, s.ignored, s.pruned)
  BY <1>3, <1>6 DEF Fields, Shaped
<1>8. /\ Shaped(t) /\ t.st = "done" /\ t.err = e /\ t.queue = s.queue /\ t.nodes = s.nodes /\ t.out = s.out
      /\ t.unknowns = s.unknowns /\ t.ignored = s.ignored /\ t.pruned = s.pruned
  BY <1>7 DEF Fields
<1>9. e = "none" => s.err = "none"
  BY <1>5
<1>10. WalkInv(k, t, hs, gone)
  <2>1. Pend(t, hs) = Pend(s, hs)
    BY <1>8 DEF Pend
  <2>2. Life(t, hs)
    BY <1>4, <1>8, <1>9 DEF Life
  <2>3. Once(t, hs)
    BY <1>3, <1>8, <2>1 DEF WalkInv, Once
  <2>4. Complete(k, t, Pend(t, hs), gone)
    BY <1>3, <1>4, <1>8, <1>9, <2>1 DEF WalkInv, Complete
  <2>5. /\ \A i \in Worker : HandOk(t.nodes, hs[i])
        /\ Ahead(Pend(t, hs), t.nodes) /\ QueueOk(t.queue) /\ NodesOk(t.nodes)
        /\ OutOk(t.out) /\ UnknownsOk(t.unknowns, gone)
    BY <1>3, <1>4, <1>8, <2>1 DEF WalkInv
  <2> QED
    BY <1>3, <1>8, <2>2, <2>3, <2>4, <2>5 DEF WalkInv
<1>11. tree' = tree /\ gone' = gone
  BY DEF Return
<1>12. Replaced(ws, k, t, ws') /\ Replaced(hand, k, hs, hand')
  <2>1. Replaced(ws, k, t, ws')
    BY <1>1, <1>5, <1>6 DEF Return, SourceInv, Replaced
  <2>2. Replaced(hand, k, hs, hand')
    BY <1>2 DEF Return, SourceInv, Replaced
  <2> QED
    BY <2>1, <2>2
<1>13. k \in Pull => Succeeded(Top) /\ t.out \subseteq ws[Top].out /\ published' = published
  BY <1>1, <1>4, <1>8 DEF SourceInv, PullInv, Return
<1>14. k = Top => ~Succeeded(Top) /\ published' = Report(t)
  BY <1>1, <1>4, <1>8, DirWalkAssumption DEF Return, Succeeded, Report
<1> QED
  BY <1>10, <1>11, <1>12, <1>13, <1>14, OneWalk

(* A file that disappears is accounted for. *)
LEMMA GoneMore ==
  ASSUME NEW k, NEW s, NEW hs, NEW g, WalkInv(k, s, hs, g), NEW g2, g \subseteq g2, g2 # {}
  PROVE  WalkInv(k, s, hs, g2)
<1>1. UnknownsOk(s.unknowns, g2)
  BY DEF WalkInv, UnknownsOk
<1>2. s.st # "new" => Complete(k, s, Pend(s, hs), g2)
  BY DEF WalkInv, Complete, Covered, Reached
<1> QED
  BY <1>1, <1>2 DEF WalkInv

(* A file disappears. *)
LEMMA VanishKeeps ==
  ASSUME SourceInv, Vanish
  PROVE  SourceInv'
<1>1. PICK p \in DOMAIN tree.kind \ gone : tree.kind[p] = "file" /\ gone' = gone \cup {p}
  BY DEF Vanish
<1>2. tree' = tree /\ ws' = ws /\ hand' = hand /\ published' = published
  BY DEF Vanish
<1>3. GoneOk(gone)'
  BY <1>1, <1>2 DEF GoneOk, SourceInv
<1>4. WalkInvs'
  <2>1. PICK g2 : g2 = gone'
    OBVIOUS
  <2>2. ASSUME NEW j \in Walk PROVE WalkInv(j, ws[j], hand[j], g2)
    <3>1. WalkInv(j, ws[j], hand[j], gone) /\ gone \subseteq g2 /\ g2 # {}
      BY <1>1, <2>1 DEF SourceInv, WalkInvs
    <3> QED
      BY <3>1, GoneMore
  <2>3. ASSUME NEW j \in Walk PROVE WalkInv(j, ws[j], hand[j], gone)'
    BY <1>2, <2>1, <2>2, WalkInvFixed
  <2> QED
    BY <2>3 DEF WalkInvs
<1>5. PullInv'
  BY <1>2 DEF SourceInv, PullInv, Succeeded
<1>6. ReportInv'
  BY <1>2 DEF SourceInv, ReportInv, Succeeded
<1> QED
  BY <1>2, <1>3, <1>4, <1>5, <1>6 DEF SourceInv

(* A step that changes none of this. *)
LEMMA StandsStill ==
  ASSUME SourceInv, UNCHANGED <<tree, gone, ws, hand, published>>
  PROVE  SourceInv'
<1>1. GoneOk(gone)'
  BY DEF GoneOk, SourceInv
<1>2. WalkInvs'
  <2>1. ASSUME NEW j \in Walk PROVE WalkInv(j, ws[j], hand[j], gone)'
    <3>1. WalkInv(j, ws[j], hand[j], gone)
      BY DEF SourceInv, WalkInvs
    <3> QED
      BY <3>1, WalkInvFixed
  <2> QED
    BY <2>1 DEF WalkInvs
<1>3. PullInv'
  BY DEF SourceInv, PullInv, Succeeded
<1>4. ReportInv'
  BY DEF SourceInv, ReportInv, Succeeded
<1> QED
  BY <1>1, <1>2, <1>3, <1>4 DEF SourceInv

(* Before any walk. *)
LEMMA InitHolds == Init => SourceInv
<1> SUFFICES ASSUME Init PROVE SourceInv
  OBVIOUS
<1>1. tree \in Trees /\ gone = {} /\ DOMAIN ws = Walk /\ DOMAIN hand = Walk
  BY DEF Init
<1>2. \A k \in Walk : ws[k] = newState /\ hand[k] = [i \in Worker |-> Idle]
  BY DEF Init
<1>3. ASSUME NEW k \in Walk PROVE WalkInv(k, ws[k], hand[k], gone)
  <2>1. PICK s : s = ws[k]
    OBVIOUS
  <2>2. PICK hs : hs = hand[k]
    OBVIOUS
  <2>3. Shaped(s) /\ Hands(hs)
    BY <1>2, <2>1, <2>2 DEF Shaped, Hands, newState
  <2>4. s.st = "new" /\ s.queue = {} /\ s.out = {} /\ s.unknowns = {} /\ s = newState
    BY <1>2, <2>1 DEF newState
  <2>5. \A i \in Worker : hs[i] = Idle /\ HandOk(s.nodes, hs[i]) /\ Held(hs[i]) = {}
    BY <1>2, <2>2, IdleHand
  <2>6. Pend(s, hs) = {}
    BY <2>4, <2>5 DEF Pend
  <2>7. Life(s, hs)
    BY <2>4, <2>5 DEF Life
  <2>8. Once(s, hs) /\ Ahead(Pend(s, hs), s.nodes) /\ QueueOk(s.queue)
    BY <2>4, <2>5, <2>6 DEF Once, Apart, Ahead, QueueOk
  <2>9. OutOk(s.out) /\ UnknownsOk(s.unknowns, gone)
    BY <2>4 DEF OutOk, UnknownsOk
  <2> QED
    BY <2>1, <2>2, <2>3, <2>4, <2>5, <2>7, <2>8, <2>9 DEF WalkInv
<1>4. GoneOk(gone) /\ WalkInvs
  BY <1>1, <1>3 DEF GoneOk, WalkInvs
<1>5. Top \in Walk /\ Pull \subseteq Walk
  BY DEF Walk
<1>6. PullInv /\ ReportInv
  BY <1>2, <1>5 DEF PullInv, ReportInv, Succeeded, newState
<1> QED
  BY <1>1, <1>4, <1>6 DEF SourceInv

(* The invariant holds of every behaviour. *)
THEOREM Invariance == Spec => []SourceInv
<1>1. SourceInv /\ [Next]_vars => SourceInv'
  <2> SUFFICES ASSUME SourceInv, [Next]_vars PROVE SourceInv'
    OBVIOUS
  <2>1. CASE \E k \in Walk : Start(k) \/ Return(k)
    BY <2>1, StartKeeps, ReturnKeeps
  <2>2. CASE \E k \in Walk, i \in Worker : Enter(k, i) \/ Layer(k, i) \/ List(k, i) \/ Visit(k, i) \/ Emit(k, i)
    BY <2>2, EnterKeeps, LayerKeeps, ListKeeps, VisitKeeps, EmitKeeps
  <2>3. CASE Cancel
    BY <2>3, StandsStill DEF Cancel
  <2>4. CASE Vanish
    BY <2>4, VanishKeeps
  <2>5. CASE UNCHANGED vars
    BY <2>5, StandsStill DEF vars
  <2> QED
    BY <2>1, <2>2, <2>3, <2>4, <2>5 DEF Next
<1> QED
  BY <1>1, InitHolds, PTL DEF Spec

-----------------------------------------------------------------------------
(* The resolver. *)

Part(p, n) == SubSeq(p, 1, n)

(* The prefixes of a path by their length. *)
LEMMA Parting ==
  ASSUME NEW p \in Path, NEW n \in 0 .. Len(p)
  PROVE  /\ Part(p, n) \in Path /\ Len(Part(p, n)) = n /\ Part(p, n) \in Prefixes(p)
         /\ n = 0 <=> Part(p, n) = Root
         /\ n = Len(p) <=> Part(p, n) = p
         /\ n > 0 => Front(Part(p, n)) = Part(p, n - 1)
<1>1. Len(p) \in Nat
  BY LenPath
<1>2. Part(p, n) \in Path /\ Len(Part(p, n)) = n /\ \A i \in 1 .. n : Part(p, n)[i] = p[i]
  BY <1>1 DEF Part, Path
<1>3. Part(p, n) \in Prefixes(p)
  BY <1>1, <1>2, IsAPrefix
<1>4. n = 0 <=> Part(p, n) = Root
  BY <1>2, Self
<1>5. n = Len(p) <=> Part(p, n) = p
  BY <1>1, <1>2, SamePath
<1>6. n > 0 => Front(Part(p, n)) = Part(p, n - 1)
  <2> SUFFICES ASSUME n > 0 PROVE Front(Part(p, n)) = Part(p, n - 1)
    OBVIOUS
  <2>1. n - 1 \in 0 .. Len(p) /\ n \in Nat /\ n - 1 \in Nat
    BY <1>1
  <2>2. /\ Part(p, n - 1) \in Path /\ Len(Part(p, n - 1)) = n - 1
        /\ \A i \in 1 .. (n - 1) : Part(p, n - 1)[i] = p[i]
    BY <1>1, <2>1 DEF Part, Path
  <2>3. Part(p, n) # Root
    BY <1>4, <2>1
  <2>4. Front(Part(p, n)) \in Path /\ Len(Front(Part(p, n))) = n - 1 /\ Front(Part(p, n)) \in Prefixes(Part(p, n))
    BY <1>2, <2>3, FrontOf
  <2>5. \A i \in 1 .. (n - 1) : Front(Part(p, n))[i] = Part(p, n)[i]
    BY <1>2, <2>4, PrefixIs
  <2>6. \A i \in 1 .. (n - 1) : Front(Part(p, n))[i] = Part(p, n - 1)[i]
    BY <1>2, <2>1, <2>2, <2>5
  <2> QED
    BY <2>2, <2>4, <2>6, SamePath
<1> QED
  BY <1>2, <1>3, <1>4, <1>5, <1>6

(* No link is on the way to a path of the tree: what is above it is a
   directory. *)
LEMMA NoLink ==
  ASSUME tree \in Trees, NEW d \in DOMAIN tree.kind, tree.kind[d] # "link"
  PROVE  evalSymlinks(d) = d
<1>1. d \in Path /\ DOMAIN tree.link \subseteq Path
  BY TreeShape
<1>2. ASSUME NEW q \in DOMAIN tree.link, IsPrefix(q, d) PROVE FALSE
  <2>1. q \in Prefixes(d)
    BY <1>1, <1>2, PrefixTest
  <2>2. tree.kind[q] = "link" /\ q \in DOMAIN tree.kind
    BY TreeShape
  <2>3. q = d \/ tree.kind[q] = "dir"
    BY <2>1, Ancestors
  <2> QED
    BY <2>2, <2>3
<1>3. {q \in DOMAIN tree.link : IsPrefix(q, d)} = {}
  BY <1>2
<1> QED
  BY <1>3 DEF evalSymlinks

(* So Lstat finds the path itself. *)
LEMMA Itself ==
  ASSUME tree \in Trees, NEW p \in DOMAIN tree.kind, p # Root
  PROVE  lstat(p) = p
<1>1. p \in Path
  BY TreeShape
<1>2. Front(p) \in DOMAIN tree.kind /\ tree.kind[Front(p)] = "dir"
  BY TreeShape
<1>3. evalSymlinks(Front(p)) = Front(p)
  BY <1>2, NoLink
<1>4. PICK S : S = STRING
  OBVIOUS
<1>5. PICK q \in Seq(S) : q = p
  BY <1>1, <1>4 DEF Path
<1>6. PICK n \in Nat \ {0} : n = Len(q)
  BY <1>1, <1>5, FrontOf
<1>7. PICK f \in Seq(S) : f = Front(q) /\ Len(f) = n - 1 /\ \A i \in 1 .. (n - 1) : f[i] = q[i]
  <2>1. /\ Front(p) \in Path /\ Len(Front(p)) = Len(p) - 1 /\ Front(p) \in Prefixes(p)
    BY <1>1, FrontOf
  <2>2. \A i \in 1 .. Len(Front(p)) : Front(p)[i] = p[i]
    BY <1>1, <2>1, PrefixIs
  <2>3. Front(q) \in Seq(S) /\ Len(Front(q)) = n - 1 /\ \A i \in 1 .. (n - 1) : Front(q)[i] = q[i]
    BY <1>4, <1>5, <1>6, <2>1, <2>2 DEF Path
  <2> QED
    BY <2>3
<1>8. PICK l \in S : l = Last(q) /\ l = q[n]
  BY <1>5, <1>6 DEF Last
<1>9. f \o <<l>> = q
  BY <1>5, <1>6, <1>7, <1>8
<1> QED
  BY <1>3, <1>5, <1>7, <1>8, <1>9 DEF lstat

(* What the resolver gathers on the way to a path is what the walk's node lists. *)
LEMMA NodeOnLists ==
  ASSUME tree \in Trees, NEW p \in DOMAIN tree.kind, NEW i \in 1 .. Len(p)
  PROVE  Lists(nodeOn(p, i), Upto(Part(p, i - 1)))
<1>1. p \in Path /\ Len(p) \in Nat
  BY TreeShape, LenPath
<1>2. PICK A : A = Pattern
  OBVIOUS
<1>3. PICK of : of = [j \in 1 .. i |-> readIgnoreFiles(Part(p, j - 1), Part(p, j - 1))]
  OBVIOUS
<1>4. ASSUME NEW j \in 1 .. i
      PROVE  /\ Part(p, j - 1) \in Path /\ Part(p, j - 1) \in DOMAIN tree.kind
             /\ evalSymlinks(Part(p, j - 1)) = Part(p, j - 1)
  <2>1. j - 1 \in 0 .. Len(p) /\ j - 1 # Len(p)
    BY <1>1
  <2>2. Part(p, j - 1) \in Path /\ Part(p, j - 1) \in Prefixes(p) /\ Part(p, j - 1) # p
    BY <1>1, <2>1, Parting
  <2>3. Part(p, j - 1) \in DOMAIN tree.kind /\ tree.kind[Part(p, j - 1)] = "dir"
    BY <2>2, Ancestors
  <2> QED
    BY <2>2, <2>3, NoLink
<1>5. nodeOn(p, i) = FlattenSeq(of)
  <2>1. nodeOn(p, i) = FlattenSeq([j \in 1 .. i |-> readIgnoreFiles(evalSymlinks(Part(p, j - 1)), Part(p, j - 1))])
    BY DEF nodeOn, Part
  <2>2. [j \in 1 .. i |-> readIgnoreFiles(evalSymlinks(Part(p, j - 1)), Part(p, j - 1))] = of
    BY <1>3, <1>4
  <2> QED
    BY <2>1, <2>2
<1>6. i \in Nat \ {0}
  BY <1>1
<1>7. ASSUME NEW j \in 1 .. i PROVE Lists(of[j], Own(Part(p, j - 1)))
  <2>1. of[j] = readIgnoreFiles(Part(p, j - 1), Part(p, j - 1))
    BY <1>3
  <2> QED
    BY <1>4, <2>1, OwnLines
<1>8. Parts(of, i, A)
  <2>1. \A j \in 1 .. i : of[j] \in Seq(A)
    BY <1>2, <1>7 DEF Lists
  <2>2. DOMAIN of = 1 .. i
    BY <1>3
  <2>3. Len(of) = i
    <3>1. of = [j \in 1 .. i |-> of[j]]
      BY <1>3
    <3> QED
      BY <1>6, <3>1
  <2> QED
    BY <2>1, <2>2, <2>3 DEF Parts
<1>9. PICK F \in [0 .. i -> Seq(A)] : Joined(F, of, i) /\ FlattenSeq(of) = F[i]
  BY <1>6, <1>8, Flattened
<1>10. F[0] = <<>> /\ \A j \in 1 .. i : F[j] = F[j - 1] \o of[j]
  BY <1>9 DEF Joined
<1>11. PICK T : T = {n \in Nat : n + 1 <= i => Lists(F[n + 1], Upto(Part(p, n)))}
  OBVIOUS
<1>12. 0 \in T
  <2>1. 1 \in 1 .. i
    BY <1>6
  <2>2. F[1] = <<>> \o of[1]
    <3>1. F[1] = F[1 - 1] \o of[1]
      BY <1>10, <2>1
    <3>2. 1 - 1 = 0
      OBVIOUS
    <3>3. F[1 - 1] = <<>>
      BY <1>10, <3>2
    <3> QED
      BY <3>1, <3>3
  <2>3. of[1] \in Seq(A)
    BY <1>8, <2>1 DEF Parts
  <2>4. F[1] = of[1]
    BY <2>2, <2>3
  <2>5. Part(p, 0) = Root /\ Root \in Path
    <3>1. 0 \in 0 .. Len(p)
      BY <1>1
    <3> QED
      BY <1>1, <3>1, Parting
  <2>6. Lists(of[1], Own(Root))
    BY <1>7, <2>1, <2>5
  <2>7. Upto(Root) = Own(Root)
    BY <2>5, UptoNext
  <2> QED
    BY <1>11, <2>4, <2>5, <2>6, <2>7
<1>13. ASSUME NEW n \in Nat, n \in T PROVE n + 1 \in T
  <2> SUFFICES ASSUME (n + 1) + 1 <= i PROVE Lists(F[(n + 1) + 1], Upto(Part(p, n + 1)))
    BY <1>11
  <2>1. PICK m \in Nat : m = n + 1
    OBVIOUS
  <2>2. m + 1 \in 1 .. i /\ (m + 1) - 1 = m /\ m - 1 = n /\ m > 0 /\ m \in 0 .. Len(p) /\ n + 1 <= i
    BY <1>1, <2>1
  <2>3. PICK d : d = Part(p, m)
    OBVIOUS
  <2>4. d \in Path /\ d # Root /\ Front(d) = Part(p, n)
    BY <1>1, <2>2, <2>3, Parting
  <2>5. Lists(F[m], Upto(Front(d)))
    BY <1>11, <1>13, <2>1, <2>2, <2>4
  <2>6. of[m + 1] = readIgnoreFiles(d, d)
    BY <1>3, <2>2, <2>3
  <2>7. F[m + 1] = F[m] \o of[m + 1]
    BY <1>10, <2>2
  <2>8. F[m + 1] = childNode(F[m], d, d)
    BY <2>6, <2>7 DEF childNode
  <2>9. Lists(F[m + 1], Upto(d))
    BY <2>4, <2>5, <2>8, ChildLists
  <2> QED
    BY <2>1, <2>3, <2>9
<1>14. Nat \subseteq T
  BY <1>12, <1>13, Induction
<1>15. i - 1 \in T
  BY <1>6, <1>14
<1>16. Lists(F[(i - 1) + 1], Upto(Part(p, i - 1)))
  BY <1>6, <1>11, <1>15
<1>17. (i - 1) + 1 = i
  BY <1>6
<1> QED
  BY <1>5, <1>9, <1>16, <1>17

(* So a prefix of the path is turned away for the resolver when it is for the walk. *)
LEMMA ResolverVerdict ==
  ASSUME tree \in Trees, NEW p \in DOMAIN tree.kind, NEW i \in 1 .. Len(p), NEW isDir
  PROVE  TurnedAway(Part(p, i), isDir) <=> \/ defaultMatch(Part(p, i), isDir)
                                           \/ matches(nodeOn(p, i), Part(p, i), isDir)
                                           \/ userIgnored(Part(p, i), isDir)
<1>1. p \in Path /\ Len(p) \in Nat
  BY TreeShape, LenPath
<1>2. i \in 0 .. Len(p) /\ i > 0
  BY <1>1
<1>3. Part(p, i) \in Path /\ Part(p, i) # Root /\ Front(Part(p, i)) = Part(p, i - 1)
  BY <1>1, <1>2, Parting
<1>4. Lists(nodeOn(p, i), Upto(Front(Part(p, i))))
  BY <1>3, NodeOnLists
<1> QED
  BY <1>3, <1>4, Verdict

(* The resolver turns a path away when a directory above it or the path
   itself is turned away. *)
LEMMA Ignored ==
  ASSUME tree \in Trees, NEW p \in DOMAIN tree.kind, p # Root
  PROVE  resolverIgnored(p) <=> TurnedAway(p, FALSE) \/ \E q \in Above(p) : TurnedAway(q, TRUE)
<1>1. p \in Path /\ Len(p) \in Nat \ {0}
  BY TreeShape, FrontOf
<1>2. DOMAIN p = 1 .. Len(p)
  BY <1>1 DEF Path
<1>3. resolverIgnored(p) <=> \E i \in 1 .. Len(p) : TurnedAway(Part(p, i), i < Len(p))
  <2>1. resolverIgnored(p) <=> \E i \in 1 .. Len(p) : \/ defaultMatch(Part(p, i), i < Len(p))
                                                      \/ matches(nodeOn(p, i), Part(p, i), i < Len(p))
                                                      \/ userIgnored(Part(p, i), i < Len(p))
    BY <1>2 DEF resolverIgnored, Part
  <2> QED
    BY <2>1, ResolverVerdict
<1>4. ASSUME NEW i \in 1 .. Len(p), TurnedAway(Part(p, i), i < Len(p))
      PROVE  TurnedAway(p, FALSE) \/ \E q \in Above(p) : TurnedAway(q, TRUE)
  <2>1. i \in 0 .. Len(p) /\ i # 0
    BY <1>1
  <2>2. CASE i = Len(p)
    <3>1. Part(p, i) = p /\ (i < Len(p)) = FALSE
      BY <1>1, <2>1, <2>2, Parting
    <3> QED
      BY <1>4, <3>1
  <2>3. CASE i # Len(p)
    <3>1. (i < Len(p)) = TRUE
      BY <1>1, <2>1, <2>3
    <3>2. Part(p, i) \in Prefixes(p) /\ Part(p, i) # Root /\ Part(p, i) # p
      BY <1>1, <2>1, <2>3, Parting
    <3> QED
      BY <1>4, <3>1, <3>2 DEF Above
  <2> QED
    BY <2>2, <2>3
<1>5. ASSUME TurnedAway(p, FALSE) PROVE \E i \in 1 .. Len(p) : TurnedAway(Part(p, i), i < Len(p))
  <2>1. PICK n : n = Len(p)
    OBVIOUS
  <2>2. n \in 0 .. Len(p) /\ n \in 1 .. Len(p) /\ (n < Len(p)) = FALSE
    BY <1>1, <2>1
  <2>3. Part(p, n) = p
    BY <1>1, <2>1, <2>2, Parting
  <2> QED
    BY <1>5, <2>2, <2>3
<1>6. ASSUME NEW q \in Above(p), TurnedAway(q, TRUE)
      PROVE  \E i \in 1 .. Len(p) : TurnedAway(Part(p, i), i < Len(p))
  <2>1. q \in Prefixes(p) /\ q # Root /\ q # p
    BY DEF Above
  <2>2. q \in Path /\ Len(q) \in 0 .. Len(p) /\ q = Part(p, Len(q))
    BY <1>1, <2>1, PrefixIs DEF Part
  <2>3. PICK n : n = Len(q)
    OBVIOUS
  <2>4. n # 0 /\ n # Len(p)
    BY <1>1, <2>1, <2>2, <2>3, Parting
  <2>5. n \in 1 .. Len(p) /\ (n < Len(p)) = TRUE
    BY <1>1, <2>2, <2>3, <2>4
  <2> QED
    BY <1>6, <2>2, <2>3, <2>5
<1> QED
  BY <1>3, <1>4, <1>5, <1>6

(* So it serves what is visible. *)
LEMMA Served ==
  ASSUME tree \in Trees, NEW p \in DOMAIN tree.kind, p # Root, p \notin gone
  PROVE  Stat(p) <=> Visible(p)
<1>1. lstat(p) = p
  BY Itself
<1>2. CASE tree.kind[p] = "file"
  <2>1. evalSymlinks(p) = p
    BY <1>2, NoLink
  <2>2. Stat(p) <=> ~resolverIgnored(p)
    BY <1>1, <1>2, <2>1 DEF Stat, present
  <2> QED
    BY <1>2, <2>2, Ignored DEF Visible
<1>3. CASE tree.kind[p] # "file"
  BY <1>1, <1>3 DEF Stat, Visible
<1> QED
  BY <1>2, <1>3

-----------------------------------------------------------------------------
(* The theorems. *)

(* The invariant makes the walk exact. *)
LEMMA ExactNow == SourceInv => WalkIsExact
<1> SUFFICES ASSUME SourceInv PROVE WalkIsExact
  OBVIOUS
<1>1. Top \in Walk
  BY DEF Walk
<1>2. tree \in Trees /\ GoneOk(gone) /\ WalkInv(Top, ws[Top], hand[Top], gone)
  BY <1>1, Current
<1>3. StatsAreTheTree
  <2> SUFFICES ASSUME Succeeded(Top), gone = {}
      PROVE  /\ published.ignored = Cardinality({p \in DOMAIN tree.kind :
                   tree.kind[p] = "file" /\ Met(p) /\ TurnedAway(p, FALSE)})
             /\ published.pruned = Cardinality({p \in DOMAIN tree.kind \ {Root} :
                   tree.kind[p] = "dir" /\ Met(p) /\ TurnedAway(p, TRUE)})
    BY DEF StatsAreTheTree
  <2>1. ws[Top].st = "done" /\ ws[Top].err = "none"
    BY DEF Succeeded
  <2>2. Counted({}, ws[Top].ignored, ws[Top].pruned)
    BY <1>2, <2>1, Exhausted
  <2>3. published.ignored = ws[Top].ignored /\ published.pruned = ws[Top].pruned
    BY DEF SourceInv, ReportInv, Report
  <2>4. \A p : Through(p, {})
    BY DEF Through
  <2>5. Skipped({}) = {p \in DOMAIN tree.kind : tree.kind[p] = "file" /\ Met(p) /\ TurnedAway(p, FALSE)}
    BY <2>4 DEF Skipped
  <2>6. Pruned({}) = {p \in DOMAIN tree.kind \ {Root} : tree.kind[p] = "dir" /\ Met(p) /\ TurnedAway(p, TRUE)}
    BY <2>4 DEF Pruned
  <2> QED
    BY <2>2, <2>3, <2>5, <2>6 DEF Counted
<1>4. ASSUME NEW k \in Walk, NEW p \in ws[k].out PROVE Visible(p)
  <2>1. OutOk(ws[k].out)
    BY DEF SourceInv, WalkInvs, WalkInv
  <2> QED
    BY <2>1 DEF OutOk
<1>5. ASSUME Succeeded(Top), NEW p \in DOMAIN tree.kind, Visible(p)
      PROVE  p \in ws[Top].out \cup gone \/ \E u \in published.unknowns : IsPrefix(u[1], p)
  <2>1. ws[Top].st = "done" /\ ws[Top].err = "none"
    BY <1>5 DEF Succeeded
  <2>2. Reached(Top, p, ws[Top].out, ws[Top].unknowns, gone)
    BY <1>2, <1>5, <2>1, Exhausted
  <2>3. published.unknowns = ws[Top].unknowns
    BY <1>5 DEF SourceInv, ReportInv, Report
  <2>4. wanted(Top, p)
    BY DEF wanted
  <2>5. ASSUME NEW u \in ws[Top].unknowns, u[1] \in Prefixes(p) PROVE IsPrefix(u[1], p)
    <3>1. u[1] \in DOMAIN tree.kind
      <4>1. UnknownsOk(ws[Top].unknowns, gone)
        BY <1>2 DEF WalkInv
      <4> QED
        BY <2>5, <4>1 DEF UnknownsOk
    <3>2. u[1] \in Path /\ p \in Path
      BY <1>2, <1>5, <3>1, TreeShape
    <3> QED
      BY <2>5, <3>2, PrefixTest
  <2> QED
    BY <2>2, <2>3, <2>4, <2>5 DEF Reached
<1> QED
  BY <1>3, <1>4, <1>5 DEF WalkIsExact

(* Whatever the tree, the rules, the order of the callbacks and the workers:
   no walk hands out a file the rules turn away; after the walk has succeeded
   every file they leave was handed out, or is gone, or is accounted for by
   an unknown; and the counters it publishes are those of the tree (Walk,
   walkState, lookup, childNode). *)
THEOREM Exact == Spec => []WalkIsExact
  BY Invariance, ExactNow, PTL

(* The invariant makes the resolver agree. *)
LEMMA ResolverNow == SourceInv => ResolverAgrees
<1> SUFFICES ASSUME SourceInv, Succeeded(Top) PROVE
      /\ \A p \in DOMAIN tree.kind \ ({Root} \cup gone) :
           Listable(p) => (Stat(p) <=> p \in ws[Top].out)
      /\ \A k \in Pull :
           /\ ws[k].out \subseteq ws[Top].out
           /\ Succeeded(k) => \A p \in ws[Top].out :
                  p \in ws[k].out \cup gone \/ Last(p) \notin Globs
  BY DEF ResolverAgrees
<1>1. Top \in Walk /\ Pull \subseteq Walk
  BY DEF Walk
<1>2. tree \in Trees /\ GoneOk(gone) /\ WalkInv(Top, ws[Top], hand[Top], gone)
  BY <1>1, Current
<1>3. ws[Top].st = "done" /\ ws[Top].err = "none" /\ OutOk(ws[Top].out)
  BY <1>2 DEF Succeeded, WalkInv
<1>4. ASSUME NEW p \in DOMAIN tree.kind, p # Root, p \notin gone, Listable(p)
      PROVE  Stat(p) <=> p \in ws[Top].out
  <2>1. Stat(p) <=> Visible(p)
    BY <1>2, <1>4, Served
  <2>2. p \in ws[Top].out => Visible(p)
    BY <1>3 DEF OutOk
  <2>3. Visible(p) => p \in ws[Top].out
    <3> SUFFICES ASSUME Visible(p) PROVE p \in ws[Top].out
      OBVIOUS
    <3>1. Met(p) /\ wanted(Top, p)
      BY <1>4 DEF Visible, Met, wanted
    <3> QED
      BY <1>2, <1>3, <1>4, <3>1, FoundAll
  <2> QED
    BY <2>1, <2>2, <2>3
<1>5. ASSUME NEW k \in Pull PROVE ws[k].out \subseteq ws[Top].out
  BY DEF SourceInv, PullInv
<1>6. ASSUME NEW k \in Pull, Succeeded(k), NEW p \in ws[Top].out
      PROVE  p \in ws[k].out \cup gone \/ Last(p) \notin Globs
  <2> SUFFICES ASSUME p \notin gone, Last(p) \in Globs PROVE p \in ws[k].out
    OBVIOUS
  <2>1. WalkInv(k, ws[k], hand[k], gone) /\ ws[k].st = "done" /\ ws[k].err = "none"
    BY <1>1, <1>6, Current DEF Succeeded
  <2>2. Visible(p) /\ Met(p) /\ wanted(k, p)
    BY <1>3 DEF OutOk, wanted
  <2> QED
    BY <1>2, <2>1, <2>2, FoundAll
<1> QED
  BY <1>4, <1>5, <1>6

(* Phase 2 reads the same tree: Open and Stat serve a path that can be listed
   exactly when the walk handed it out, and FilesByGlob returns of that all
   its globs ask for (resolver.ignored, resolver.FilesByGlob). *)
THEOREM Resolver == Spec => []ResolverAgrees
  BY Invariance, ResolverNow, PTL
=============================================================================
