---------------------------- MODULE MCImageSquash ---------------------------
(* Three layers over a directory, a file in it and a file beside it.  The   *)
(* base and the top hold up to two entries, the layer between up to one.    *)
EXTENDS ImageSquash

MCPath == {<<>>, <<"d">>, <<"d", "f">>, <<"g">>}

MCEntries ==
    {[type |-> "file",     path |-> <<"d", "f">>],
     [type |-> "file",     path |-> <<"g">>],
     [type |-> "whiteout", path |-> <<"d", "f">>],
     [type |-> "opaque",   path |-> <<"d">>],
     [type |-> "other",    path |-> <<"g">>]}

Layers(n) == UNION {[1..k -> MCEntries] : k \in 0..n}

MCImages == {<<base, top>> : base \in Layers(2), top \in Layers(2)}
            \cup {<<base, mid, top>> : base \in Layers(1), mid \in Layers(1), top \in Layers(1)}
=============================================================================
