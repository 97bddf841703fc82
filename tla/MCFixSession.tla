---- MODULE MCFixSession ----
EXTENDS FixSession, TLC

Pin(p, v) == [pkg |-> p, ver |-> v]

\* One pin per line: two vulnerable packages that clash once both are bumped,
\* a third with the same version, and a clash the project already carries.
PerLine(clashes) ==
    [tree     |-> ("reqs" :> << <<Pin("a", 1)>>, <<Pin("b", 1)>>, <<Pin("c", 1)>> >>
                   @@ "gomod" :> << <<Pin("d", 1)>> >>),
     resolved |-> [p \in {"a", "b", "c", "d"} |-> 1],
     fixed    |-> [p \in {"a", "b", "d"} |-> 2],
     clashes  |-> clashes]

MCWorlds == {PerLine({}), PerLine({{Pin("a", 2), Pin("b", 2)}}),
             PerLine({{Pin("c", 1), Pin("a", 1)}, {Pin("d", 2)}}),
             PerLine({{Pin("c", 1)}, {Pin("d", 2)}})}

\* A PEP 621 array: a range whose package a lockfile resolved to 2, next to a
\* sibling pinned at exactly that version.
MCShared ==
    {[tree     |-> ("pyproject" :> << <<Pin("a", 1), Pin("b", 2)>> >>),
      resolved |-> ("a" :> 2 @@ "b" :> 2),
      fixed    |-> ("a" :> 3),
      clashes  |-> {}]}
====
