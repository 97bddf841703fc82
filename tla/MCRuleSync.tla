----------------------------- MODULE MCRuleSync -----------------------------
(* Two processes, two versions, a channel that moves twice.               *)
EXTENDS RuleSync, TLC

Symmetry == Permutations(Proc)
=============================================================================
