------------------------------- MODULE DirWalk ------------------------------
(***************************************************************************)
(* The directory source (internal/source/dirsource/dirsource.go): the      *)
(* concurrent walk with its nested ignore files, what it publishes, and    *)
(* the resolver that project detectors query after it.                     *)
(*                                                                         *)
(* A path is the sequence of its names, the root the empty one.  A tree    *)
(* gives the kind of every path, the ignore lines of its directories, the  *)
(* directories that cannot be listed (though what is in them can be        *)
(* opened: search without read permission) and where links lead.  It is    *)
(* chosen at the start; only files disappear meanwhile.                    *)
(*                                                                         *)
(* fastwalk is modelled from how Walk uses it: a directory's callback runs *)
(* before those of its children, on any worker, and the children of one    *)
(* directory are handed out by one worker.  An ignore line is [how, segs,  *)
(* dirOnly, neg]: how says whether it names a path segment at any depth    *)
(* ("name"), a path below its directory ("path"), or what such a path      *)
(* contains ("contents", what readIgnoreFiles makes of dir/** ).           *)
(***************************************************************************)
EXTENDS Integers, Sequences, FiniteSets, SequencesExt

CONSTANTS Trees,               \* the trees there may be
          defaultIgnoreLines,  \* the lines no user rule overrides
          IgnoreGlobs,         \* the names n of --ignore "**/n" and, with below, "**/n/**"
          Worker,              \* fastwalk's goroutines
          Pull,                \* FilesByGlob calls of project detectors
          Globs,               \* the file names those ask for
          MaxGone              \* bound: files that disappear

Top  == "walk"
Walk == {Top} \cup Pull
Root == <<>>

Line == [how : {"name", "path", "contents"}, segs : Seq(STRING),
         dirOnly : BOOLEAN, neg : BOOLEAN]

ASSUME DirWalkAssumption ==
    /\ Top \notin Pull
    /\ defaultIgnoreLines \subseteq Line
    /\ IgnoreGlobs \subseteq [name : STRING, below : BOOLEAN]
    /\ MaxGone \in Nat
    /\ \A t \in Trees :
         /\ IsFiniteSet(DOMAIN t.kind) /\ DOMAIN t.kind \subseteq Seq(STRING)
         /\ Root \in DOMAIN t.kind /\ t.kind[Root] = "dir"
         /\ \A p \in DOMAIN t.kind \ {Root} :
              Front(p) \in DOMAIN t.kind /\ t.kind[Front(p)] = "dir"
         /\ DOMAIN t.link \subseteq DOMAIN t.kind
         /\ \A p \in DOMAIN t.link : t.kind[p] = "link" /\ t.link[p] \in DOMAIN t.kind
         /\ \A d \in DOMAIN t.lines : \A f \in {".gitignore", ".airomignore"} :
              t.lines[d][f] \in Seq(Line)

VARIABLES
    tree, gone,       \* the file system: fixed, but for the files gone
    cancelled,        \* the scan's context
    ws,               \* per walk: walkState, what was handed to fn, the outcome
    hand,             \* per walk and worker: the callback it runs
    published         \* Source.unknowns and Source.stats

vars == <<tree, gone, cancelled, ws, hand, published>>

-----------------------------------------------------------------------------
(* Ignore rules *)

\* gitignore.Pattern.Match of go-git, below the domain
fits(l, rest, isDir) ==
    CASE l.how = "name" -> \E i \in DOMAIN rest :
                              /\ rest[i] = l.segs[1]
                              /\ ~(l.dirOnly /\ ~isDir /\ i = Len(rest))
      [] l.how = "path" -> /\ IsPrefix(l.segs, rest)
                           /\ ~(l.dirOnly /\ ~isDir /\ rest = l.segs)
      [] OTHER          -> IsStrictPrefix(l.segs, rest)

patternMatches(pat, path, isDir) ==
    /\ IsStrictPrefix(pat.domain, path)
    /\ fits(pat.line, SubSeq(path, Len(pat.domain) + 1, Len(path)), isDir)

\* gitignore.Matcher.Match: the last pattern that matches decides
matches(patterns, path, isDir) ==
    \E n \in DOMAIN patterns :
        /\ patternMatches(patterns[n], path, isDir)
        /\ ~patterns[n].line.neg
        /\ \A m \in n+1..Len(patterns) : ~patternMatches(patterns[m], path, isDir)

defaultMatch(path, isDir) == \E l \in defaultIgnoreLines : fits(l, path, isDir)

userIgnored(path, isDir) ==
    \E g \in IgnoreGlobs :
        IF g.below THEN \E i \in DOMAIN path : path[i] = g.name /\ (i < Len(path) \/ isDir)
                   ELSE Last(path) = g.name

ignoreFileNames == <<".gitignore", ".airomignore">>

\* The lines of a directory's ignore files, scoped to the path they were
\* read under; a directory the tree gives no lines has no such files.
readIgnoreFiles(dir, domain) ==
    IF dir \notin DOMAIN tree.lines THEN <<>>
    ELSE FlattenSeq([f \in DOMAIN ignoreFileNames |->
             LET ls == tree.lines[dir][ignoreFileNames[f]]
             IN  [n \in DOMAIN ls |-> [line |-> ls[n], domain |-> domain]]])

childNode(parent, dir, domain) == parent \o readIgnoreFiles(dir, domain)

rootNode == readIgnoreFiles(Root, Root)

store(nodes, dir, node) ==
    [d \in DOMAIN nodes \cup {dir} |-> IF d = dir THEN node ELSE nodes[d]]

\* A mistake to catch: the directory's own node or the root's.
lookup_ownOrRoot(nodes, dir) ==
    IF dir \in DOMAIN nodes THEN nodes[dir] ELSE nodes[Root]

\* The node stored at dir or at its nearest ancestor that has one.
lookup(nodes, dir) ==
    nodes[CHOOSE q \in Prefixes(dir) \cap DOMAIN nodes :
              \A r \in Prefixes(dir) \cap DOMAIN nodes : Len(r) <= Len(q)]

-----------------------------------------------------------------------------
(* The walk *)

Idle == [at |-> "idle"]

newState == [st |-> "new", err |-> "none", queue |-> {}, nodes |-> <<>>, out |-> {},
             unknowns |-> {}, ignored |-> 0, pruned |-> 0]

Init ==
    /\ tree \in Trees
    /\ gone = {}
    /\ cancelled = FALSE
    /\ ws = [k \in Walk |-> newState]
    /\ hand = [k \in Walk |-> [i \in Worker |-> Idle]]
    /\ published = [unknowns |-> {}, ignored |-> 0, pruned |-> 0]

\* Source.Walk for the engine's producer; then, in phase 2, FilesByGlob.
Start(k) ==
    /\ ws[k].st = "new"
    /\ k \in Pull => ws[Top].st = "done" /\ ws[Top].err = "none"
    /\ ws' = [ws EXCEPT ![k].st = "running", ![k].queue = {Root},
                        ![k].nodes = store(@, Root, rootNode)]
    /\ UNCHANGED <<tree, gone, cancelled, hand, published>>

\* What a callback's return value makes of its walk: the first error ends it.
returns(k, i, next, state) ==
    /\ hand' = [hand EXCEPT ![k][i] = next]
    /\ ws' = [ws EXCEPT ![k] = state]
    /\ UNCHANGED <<tree, gone, cancelled, published>>

failed(k, e) == [ws[k] EXCEPT !.err = IF @ = "none" THEN e ELSE @]

\* The callback of a directory: the root, an ignored one, or one whose own
\* ignore files are read next.
Enter(k, i) ==
    /\ hand[k][i] = Idle /\ ws[k].st = "running" /\ ws[k].err = "none"
    /\ \E d \in ws[k].queue :
         LET s    == [ws[k] EXCEPT !.queue = @ \ {d}]
             node == lookup(ws[k].nodes, Front(d))
         IN  IF cancelled THEN returns(k, i, Idle, [failed(k, "ctx") EXCEPT !.queue = s.queue])
             ELSE IF d = Root THEN returns(k, i, [at |-> "list", dir |-> d], s)
             ELSE IF \/ defaultMatch(d, TRUE)
                     \/ matches(node, d, TRUE)
                     \/ userIgnored(d, TRUE)
                  THEN returns(k, i, Idle, [s EXCEPT !.pruned = @ + 1])
             ELSE returns(k, i, [at |-> "layer", dir |-> d, node |-> node], s)

\* childNode, and the store of a node that has patterns of its own.
Layer(k, i) ==
    /\ hand[k][i].at = "layer"
    /\ LET d     == hand[k][i].dir
           child == childNode(hand[k][i].node, d, d)
       IN  returns(k, i, [at |-> "list", dir |-> d],
                   IF child = hand[k][i].node THEN ws[k]
                   ELSE [ws[k] EXCEPT !.nodes = store(@, d, child)])

children(d) == {p \in DOMAIN tree.kind \ ({Root} \cup gone) : Front(p) = d}

\* fastwalk lists the directory, or calls back with the error it met.
List(k, i) ==
    /\ hand[k][i].at = "list"
    /\ LET d == hand[k][i].dir
       IN  IF d \notin tree.closed
           THEN returns(k, i, [at |-> "visit", left |-> children(d)], ws[k])
           ELSE returns(k, i, Idle,
                    IF cancelled THEN failed(k, "ctx")
                    ELSE IF d = Root THEN failed(k, "root")
                    ELSE [ws[k] EXCEPT !.unknowns = @ \cup {<<d, "walk">>}])

\* The next child: a directory waits for its callback, a file has its own now.
Visit(k, i) ==
    /\ hand[k][i].at = "visit"
    /\ IF hand[k][i].left = {} THEN returns(k, i, Idle, ws[k])
       ELSE \E p \in hand[k][i].left :
         LET rest == [at |-> "visit", left |-> hand[k][i].left \ {p}]
         IN  IF tree.kind[p] = "dir"
             THEN returns(k, i, rest, [ws[k] EXCEPT !.queue = @ \cup {p}])
             ELSE IF cancelled THEN returns(k, i, Idle, failed(k, "ctx"))
             ELSE IF tree.kind[p] # "file" THEN returns(k, i, rest, ws[k])
             ELSE IF \/ defaultMatch(p, FALSE)
                     \/ matches(lookup(ws[k].nodes, Front(p)), p, FALSE)
                     \/ userIgnored(p, FALSE)
                  THEN returns(k, i, rest, [ws[k] EXCEPT !.ignored = @ + 1])
             ELSE returns(k, i, [at |-> "emit", file |-> p, left |-> rest.left], ws[k])

\* fn: the engine's select, which a cancelled context ends, and the filter of
\* FilesByGlob.
wanted(k, p) == k = Top \/ Last(p) \in Globs

Emit(k, i) ==
    /\ hand[k][i].at = "emit"
    /\ LET p    == hand[k][i].file
           rest == [at |-> "visit", left |-> hand[k][i].left]
       IN  \/ /\ p \in gone
              /\ returns(k, i, rest, [ws[k] EXCEPT !.unknowns = @ \cup {<<p, "stat">>}])
           \/ /\ p \notin gone
              /\ returns(k, i, rest, [ws[k] EXCEPT !.out = IF wanted(k, p) THEN @ \cup {p} ELSE @])
           \/ /\ p \notin gone /\ k = Top /\ cancelled
              /\ returns(k, i, Idle, failed(k, "ctx"))

\* fastwalk returns once every callback has; only Walk itself publishes.
Return(k) ==
    /\ ws[k].st = "running"
    /\ \A i \in Worker : hand[k][i] = Idle
    /\ ws[k].queue = {} \/ ws[k].err # "none"
    /\ ws' = [ws EXCEPT ![k].st = "done",
                        ![k].err = IF @ # "none" /\ cancelled THEN "ctx" ELSE @]
    /\ published' = IF k \in Pull THEN published
                    ELSE [unknowns |-> ws[k].unknowns, ignored |-> ws[k].ignored,
                          pruned |-> ws[k].pruned]
    /\ UNCHANGED <<tree, gone, cancelled, hand>>

\* The world: the user interrupts, a file disappears.
Cancel ==
    /\ ~cancelled
    /\ cancelled' = TRUE
    /\ UNCHANGED <<tree, gone, ws, hand, published>>

Vanish ==
    /\ Cardinality(gone) < MaxGone
    /\ \E p \in DOMAIN tree.kind \ gone :
         /\ tree.kind[p] = "file"
         /\ gone' = gone \cup {p}
    /\ UNCHANGED <<tree, cancelled, ws, hand, published>>

Next ==
    \/ \E k \in Walk : Start(k) \/ Return(k)
    \/ \E k \in Walk, i \in Worker :
          Enter(k, i) \/ Layer(k, i) \/ List(k, i) \/ Visit(k, i) \/ Emit(k, i)
    \/ Cancel
    \/ Vanish

Spec == Init /\ [][Next]_vars

-----------------------------------------------------------------------------
(* The resolver *)

\* filepath.EvalSymlinks, for links that lead to a path without links
evalSymlinks(p) ==
    LET links == {q \in DOMAIN tree.link : IsPrefix(q, p)}
    IN  IF links = {} THEN p
        ELSE LET q == CHOOSE q \in links : TRUE
             IN  tree.link[q] \o SubSeq(p, Len(q) + 1, Len(p))

present(p) == p \in DOMAIN tree.kind \ gone

\* Lstat resolves the links on the way to a path and not the last name.
lstat(p) == evalSymlinks(Front(p)) \o <<Last(p)>>

\* resolver.ignored: the rules of every directory on the way, read anew.
nodeOn(p, i) ==
    FlattenSeq([j \in 1..i |-> LET d == SubSeq(p, 1, j - 1)
                               IN  readIgnoreFiles(evalSymlinks(d), d)])

\* A mistake to catch: the path itself, and not the directories above it.
resolverIgnored_leafOnly(p) ==
    \/ defaultMatch(p, FALSE)
    \/ matches(nodeOn(p, Len(p)), p, FALSE)
    \/ userIgnored(p, FALSE)

resolverIgnored(p) ==
    \E i \in DOMAIN p :
        LET prefix == SubSeq(p, 1, i)
            isDir  == i < Len(p)
        IN  \/ defaultMatch(prefix, isDir)
            \/ matches(nodeOn(p, i), prefix, isDir)
            \/ userIgnored(prefix, isDir)

\* Open and Stat serve the path.
Stat(p) ==
    /\ present(evalSymlinks(p))
    /\ ~resolverIgnored(p)
    /\ present(lstat(p)) /\ tree.kind[lstat(p)] = "file"

-----------------------------------------------------------------------------
(* What the ignore rules say, without a matcher or a node.  A line is known *)
(* by its place: the directory, the file and the position in the file.  A   *)
(* deeper directory overrides, then .airomignore, then the later line.      *)

PlacesIn(d) ==
    UNION {{<<d, f, n>> : n \in DOMAIN tree.lines[d][ignoreFileNames[f]]} :
              f \in DOMAIN ignoreFileNames}
Places(p) == UNION {PlacesIn(d) : d \in DOMAIN tree.lines \cap (Prefixes(p) \ {p})}

LineAt(a) == tree.lines[a[1]][ignoreFileNames[a[2]]][a[3]]

Applies(a, p, isDir) ==
    fits(LineAt(a), SubSeq(p, Len(a[1]) + 1, Len(p)), isDir)

Beats(b, a) ==
    \/ Len(b[1]) > Len(a[1])
    \/ b[1] = a[1] /\ b[2] > a[2]
    \/ b[1] = a[1] /\ b[2] = a[2] /\ b[3] > a[3]

TurnedAway(p, isDir) ==
    \/ defaultMatch(p, isDir)
    \/ userIgnored(p, isDir)
    \/ \E a \in Places(p) :
          /\ Applies(a, p, isDir) /\ ~LineAt(a).neg
          /\ ~\E b \in Places(p) : Applies(b, p, isDir) /\ Beats(b, a)

Above(p) == Prefixes(p) \ {Root, p}

Listable(p) == \A q \in Above(p) \cup {Root} : q \notin tree.closed

\* The walk meets p: every directory above it is entered and can be listed.
Met(p) == Listable(p) /\ \A q \in Above(p) : ~TurnedAway(q, TRUE)

Visible(p) ==
    /\ p \in DOMAIN tree.kind /\ tree.kind[p] = "file"
    /\ \A q \in Above(p) : ~TurnedAway(q, TRUE)
    /\ ~TurnedAway(p, FALSE)

Succeeded(k) == ws[k].st = "done" /\ ws[k].err = "none"

\* The exclusion accounting is that of the tree and not of the order the
\* callbacks ran in: as many files ignored and directories pruned as the walk
\* meets and the rules turn away (walkState's counters, WalkStats).
StatsAreTheTree ==
    Succeeded(Top) /\ gone = {} =>
        /\ published.ignored = Cardinality({p \in DOMAIN tree.kind :
               tree.kind[p] = "file" /\ Met(p) /\ TurnedAway(p, FALSE)})
        /\ published.pruned = Cardinality({p \in DOMAIN tree.kind \ {Root} :
               tree.kind[p] = "dir" /\ Met(p) /\ TurnedAway(p, TRUE)})

\* Whatever the order of the callbacks, no walk hands out a file the rules
\* turn away, however much of it has run; and once the scan's walk has
\* succeeded, every file they leave has been handed out, or is gone, or it or
\* a directory above it is among the unknowns of the source, and still is
\* after every pull (lookup, childNode, Walk, WalkUnknowns).  What is counted
\* is StatsAreTheTree.
WalkIsExact ==
    /\ StatsAreTheTree
    /\ \A k \in Walk : \A p \in ws[k].out : Visible(p)
    /\ Succeeded(Top) =>
         \A p \in DOMAIN tree.kind :
             Visible(p) => \/ p \in ws[Top].out \cup gone
                           \/ \E u \in published.unknowns : IsPrefix(u[1], p)

\* Phase 2 is answered from the same tree: a path without links and below
\* directories that can be listed is served by Open and Stat exactly when the
\* walk handed it out, and FilesByGlob returns of what the walk handed out
\* all that its globs ask for (resolver.ignored, FilesByGlob).
ResolverAgrees ==
    Succeeded(Top) =>
        /\ \A p \in DOMAIN tree.kind \ ({Root} \cup gone) :
             Listable(p) => (Stat(p) <=> p \in ws[Top].out)
        /\ \A k \in Pull :
             /\ ws[k].out \subseteq ws[Top].out
             /\ Succeeded(k) => \A p \in ws[Top].out :
                    p \in ws[k].out \cup gone \/ Last(p) \notin Globs

\* A phase-2 detector can never see a file phase 1 could not (the comment of
\* Resolver).  No configuration checks it, the code does not have it: a link on
\* the way to a file is followed, so that l/f is served where l leads to an
\* ignored directory, and a directory that cannot be listed may be searched.
ResolverSeesNoMore ==
    Succeeded(Top) /\ gone = {} =>
        \A p \in (DOMAIN tree.kind \ {Root})
                 \cup {Append(q, n) : q \in DOMAIN tree.link, n \in Globs} :
            Stat(p) => p \in ws[Top].out

=============================================================================
