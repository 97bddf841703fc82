---------------------------- MODULE ScanContract ----------------------------
(***************************************************************************)
(* What Engine.Scan (internal/engine/engine.go) promises its caller, with  *)
(* no mention of channels, workers or goroutines.                          *)
(*                                                                         *)
(* A scan of the entries of a source delivers results one entry at a time  *)
(* and then returns once.  It returns success only when every entry of the *)
(* source has been delivered, each exactly once.  It returns an error only *)
(* when the caller cancelled it or the source itself failed: trouble with  *)
(* one file is reported in that file's result and never fails the scan.    *)
(***************************************************************************)
CONSTANT File        \* the entries the source's walk enumerates

VARIABLES delivered, \* entries whose result has reached the outcome
          trouble,   \* the caller cancelled, or the source failed
          verdict    \* what Scan returned

contractVars == <<delivered, trouble, verdict>>

ContractInit ==
    /\ delivered = {}
    /\ trouble = FALSE
    /\ verdict = "running"

Deliver(f) ==
    /\ verdict = "running"
    /\ f \notin delivered
    /\ delivered' = delivered \cup {f}
    /\ UNCHANGED <<trouble, verdict>>

Disturb ==
    /\ trouble' = TRUE
    /\ UNCHANGED <<delivered, verdict>>

ReturnOutcome ==
    /\ verdict = "running"
    /\ delivered = File
    /\ verdict' = "ok"
    /\ UNCHANGED <<delivered, trouble>>

ReturnError ==
    /\ verdict = "running"
    /\ trouble
    /\ verdict' = "error"
    /\ UNCHANGED <<delivered, trouble>>

ContractNext ==
    \/ \E f \in File : Deliver(f)
    \/ Disturb
    \/ ReturnOutcome
    \/ ReturnError

ContractSpec == ContractInit /\ [][ContractNext]_contractVars
=============================================================================
