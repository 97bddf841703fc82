----------------------------- MODULE MCFileRead -----------------------------
(* Two workers, two detectors, a budget smaller than the largest request,   *)
(* and entries on either side of every threshold.                           *)
EXTENDS FileRead

MCEntry ==
    {[kind |-> "disk",  size |-> 1],    \* pooled, not gated
     [kind |-> "disk",  size |-> 4],    \* gated, clamped to the budget
     [kind |-> "spool", size |-> 2],    \* gated
     [kind |-> "head",  size |-> 4]}    \* above the cap, header only
=============================================================================
