------------------------------ MODULE MCDirWalk -----------------------------
(* Two files beside a directory that holds one and a directory of its own,  *)
(* a directory of the default skips, and, once, a link to that.  The ignore files  *)
(* of the root and of both directories take every combination of a few      *)
(* lines: exclusions, re-inclusions, and the dir/** idiom.                  *)
EXTENDS DirWalk, TLC

MCKind ==
    [p \in {<<>>, <<"d">>, <<"d", "e">>, <<"v">>} |-> "dir"]
    @@ [p \in {<<"f">>, <<"g">>, <<"d", "f">>, <<"d", "e", "f">>, <<"v", "f">>} |-> "file"]

MCLine(how, segs, dirOnly, neg) ==
    [how |-> how, segs |-> segs, dirOnly |-> dirOnly, neg |-> neg]

SkipAll(n) == MCLine("name", <<n>>, FALSE, FALSE)
KeepAll(n) == MCLine("name", <<n>>, FALSE, TRUE)
SkipDir(n) == MCLine("name", <<n>>, TRUE, FALSE)
SkipAt(s)  == MCLine("path", s, FALSE, FALSE)
KeepAt(s)  == MCLine("path", s, FALSE, TRUE)
SkipIn(s)  == MCLine("contents", s, FALSE, FALSE)

MCRootGit == {<<>>, <<SkipAll("f")>>, <<SkipIn(<<"d">>), KeepAt(<<"d", "f">>)>>,
              <<KeepAll("v"), SkipDir("e"), SkipDir("f")>>}
MCRootAirom == {<<>>, <<KeepAll("f")>>, <<KeepAt(<<"d", "e">>), SkipAt(<<"f">>)>>}
\* What the directory's file says, and that of the directory in it
MCBelow == {<< <<KeepAll("f")>>, <<>> >>,
            << <<SkipAll("f"), KeepAt(<<"e">>)>>, <<SkipAt(<<"f">>)>> >>}

MCFiles(git, airom) == (".gitignore" :> git) @@ (".airomignore" :> airom)

MCTree(git, airom, below, closed) ==
    [kind |-> MCKind, link |-> <<>>, closed |-> closed,
     lines |-> (<<>> :> MCFiles(git, airom))
               @@ (<<"d">> :> MCFiles(below[1], <<>>))
               @@ (<<"d", "e">> :> MCFiles(below[2], <<>>))]

\* A tree with a link to the directory of the default skips
MCLinked(t) == [t EXCEPT !.kind = (<<"l">> :> "link") @@ @,
                         !.link = (<<"l">> :> <<"v">>)]

MCLinkedTrees == {MCLinked(MCTree(<<>>, <<>>, << <<>>, <<>> >>, {}))}

MCTrees == {MCTree(git, airom, below, {}) :
                git \in MCRootGit, airom \in MCRootAirom, below \in MCBelow}
           \cup {MCTree(git, <<>>, << <<>>, <<>> >>, closed) :
                git \in {<<>>, <<SkipAll("f")>>}, closed \in {{<<"d">>}, {<<"d", "e">>}, {<<>>}}}
           \cup MCLinkedTrees

MCSymmetry == Permutations(Worker)

MCDefault == {SkipDir("v")}
MCGlobs == {[name |-> "g", below |-> FALSE], [name |-> "x", below |-> TRUE]}
=============================================================================
