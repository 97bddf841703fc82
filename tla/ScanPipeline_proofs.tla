------------------------ MODULE ScanPipeline_proofs ------------------------
(***************************************************************************)
(* Proofs about ScanPipeline, for every set of files and workers, every    *)
(* channel capacity and every number of project detectors.                 *)
(***************************************************************************)
EXTENDS ScanPipeline, FiniteSetTheorems, TLAPS

(* The inductive invariant: TypeOK and the parts below.                    *)

\* An entry is in at most one place: still to be walked, in a callback, in the
\* task channel, with one worker, in the result channel, or collected.
Placement ==
    \A f \in File :
        /\ f \in pending \cup emitting \cup tasks =>
              /\ \A w \in Worker : cur[w] # f
              /\ \A k \in Kinds : <<f, k>> \notin results
              /\ taken[f] = 0
        /\ \A w \in Worker : cur[w] = f =>
              /\ \A v \in Worker : cur[v] = f => v = w
              /\ \A k \in Kinds : <<f, k>> \notin results
              /\ taken[f] = 0
        /\ \A k \in Kinds : <<f, k>> \in results =>
              /\ \A j \in Kinds : <<f, j>> \in results => j = k
              /\ taken[f] = 0

WalkPlacement ==
    /\ pending \cap emitting = {}
    /\ pending \cap tasks = {}
    /\ emitting \cap tasks = {}

\* While the walk has met no error, no entry has been dropped.
Coverage ==
    werr = "none" =>
        \A f \in File :
            \/ f \in pending \cup emitting \cup tasks
            \/ \E w \in Worker : cur[w] = f
            \/ \E k \in Kinds : <<f, k>> \in results
            \/ taken[f] = 1

\* What a worker's position says about the entry it holds: only a worker that
\* gave up on a done context leaves with one, and one that left without one
\* has seen the task channel closed and drained.
WorkerInv ==
    \A w \in Worker :
        /\ wpc[w] = "recv" => cur[w] = NoFile
        /\ wpc[w] \in {"process", "send"} => cur[w] \in File
        /\ wpc[w] = "exited" /\ cur[w] # NoFile => gerr # "none"
        /\ wpc[w] = "exited" /\ cur[w] = NoFile => tasks = {} /\ walk # "walking"

\* The order in which the channels close.
ClosingInv ==
    /\ walk # "walking" => emitting = {} /\ (pending = {} \/ werr # "none")
    /\ closed => \A w \in Worker : wpc[w] = "exited"
    /\ collector = "exited" => closed /\ results = {}
    /\ scan # "running" => /\ walk = "exited"
                           /\ collector = "exited"
                           /\ \A w \in Worker : wpc[w] = "exited"
    /\ scan = "ok" => gerr = "none"
    /\ scan = "error" => gerr # "none"

\* Where errors come from.
ErrorInv ==
    /\ werr = "source" => emitting = {}
    /\ werr = "ctx" => cancelled
    /\ gerr # "none" => cancelled \/ werr = "source"
    /\ walk = "exited" /\ werr # "none" => gerr # "none"

CountInv == werr = "none" => walked = Cardinality(File \ (pending \cup emitting))

ReportInv ==
    \A f \in File : /\ taken[f] \in {0, 1}
                    /\ taken[f] = 1 => report[f] # "none"

ProjectInv == (\E p \in 1..Projects : pdet[p] # "waiting") => scan = "ok"

IInv ==
    /\ TypeOK
    /\ WalkPlacement
    /\ Placement
    /\ Coverage
    /\ WorkerInv
    /\ ClosingInv
    /\ ErrorInv
    /\ CountInv
    /\ ReportInv
    /\ ProjectInv

\* Adding to a set below a bound stays within the bound (a guarded channel send).
LEMMA AddedCardinality ==
    ASSUME NEW S, IsFiniteSet(S), NEW x, NEW n \in Nat, Cardinality(S) < n
    PROVE  Cardinality(S \cup {x}) <= n
<1>1. Cardinality(S) \in Nat
  BY FS_CardinalityType
<1>2. Cardinality(S \cup {x}) <= Cardinality(S) + 1
  BY <1>1, FS_AddElement
<1> QED
  BY <1>1, <1>2, FS_AddElement, FS_CardinalityType

\* Removing from a set within a bound stays within it (a channel receive).
LEMMA RemovedCardinality ==
    ASSUME NEW S, IsFiniteSet(S), NEW x, NEW n \in Nat, Cardinality(S) <= n
    PROVE  Cardinality(S \ {x}) <= n
<1>1. /\ Cardinality(S) \in Nat
      /\ Cardinality(S \ {x}) \in Nat
  BY FS_CardinalityType, FS_RemoveElement
<1>2. Cardinality(S \ {x}) <= Cardinality(S)
  BY SMTT(30), <1>1, FS_RemoveElement
<1> QED
  BY <1>1, <1>2

\* The channels hold finite sets.
LEMMA FiniteChannels ==
    ASSUME TypeOK
    PROVE  IsFiniteSet(tasks) /\ IsFiniteSet(results)
<1>1. IsFiniteSet(Kinds)
  <2>1. IsFiniteSet({} \cup {"clean"})
    BY FS_EmptySet, FS_AddElement
  <2>2. IsFiniteSet(({} \cup {"clean"}) \cup {"degraded"})
    BY <2>1, FS_AddElement
  <2>3. IsFiniteSet((({} \cup {"clean"}) \cup {"degraded"}) \cup {"failed"})
    BY <2>2, FS_AddElement
  <2>4. Kinds = ((({} \cup {"clean"}) \cup {"degraded"}) \cup {"failed"})
                  \cup {"interrupted"}
    BY DEF Kinds
  <2> QED
    BY <2>3, <2>4, FS_AddElement
<1>2. IsFiniteSet(File \X Kinds)
  BY <1>1, FS_Product, PipelineAssumption
<1> QED
  BY <1>2, FS_Subset, PipelineAssumption DEF TypeOK

\* Cancel preserves the inductive invariant.
LEMMA CancelStep ==
    ASSUME IInv, Cancel
    PROVE  IInv'
<1>1. TypeOK'
  BY PipelineAssumption DEF IInv, TypeOK, Cancel, phase1Vars, walkVars, workerVars,
     gatherVars, phase2Vars, Kinds, PDone
<1>2. ErrorInv'
  BY PipelineAssumption DEF IInv, ErrorInv, Cancel, phase1Vars, walkVars,
     workerVars, gatherVars, phase2Vars, TypeOK, CtxDone, ClosingInv, WorkerInv
<1>3. WalkPlacement' /\ Placement' /\ Coverage' /\ WorkerInv' /\ ClosingInv' /\
      CountInv' /\ ReportInv' /\ ProjectInv'
  BY DEF IInv, WalkPlacement, Placement, Coverage, WorkerInv, ClosingInv, CountInv,
     ReportInv, ProjectInv, Cancel, phase1Vars, walkVars, workerVars, gatherVars,
     phase2Vars
<1> QED
  BY <1>1, <1>2, <1>3 DEF IInv

\* WalkOffer preserves the inductive invariant.
LEMMA WalkOfferStep ==
    ASSUME NEW f \in File, IInv, WalkOffer(f)
    PROVE  IInv'
<1>1. TypeOK'
  BY PipelineAssumption DEF IInv, TypeOK, WalkOffer, walkVars, workerVars,
     gatherVars, phase2Vars, Kinds, PDone
<1>2. WalkPlacement'
  BY PipelineAssumption DEF IInv, WalkPlacement, WalkOffer, walkVars, workerVars,
     gatherVars, phase2Vars, TypeOK, Placement, WorkerInv
<1>3. Placement'
  BY ZenonT(60), PipelineAssumption DEF IInv, Placement, WalkOffer, walkVars, workerVars,
     gatherVars, phase2Vars, TypeOK, WalkPlacement, Kinds, WorkerInv
<1>4. Coverage'
  BY PipelineAssumption DEF IInv, Coverage, WalkOffer, walkVars, workerVars,
     gatherVars, phase2Vars, TypeOK, WalkPlacement, Placement, Kinds, WorkerInv,
     ReportInv
<1>5. ClosingInv'
  BY PipelineAssumption DEF IInv, ClosingInv, WalkOffer, walkVars, workerVars,
     gatherVars, phase2Vars, TypeOK, WorkerInv, ErrorInv
<1>6. ErrorInv'
  BY PipelineAssumption DEF IInv, ErrorInv, WalkOffer, walkVars, workerVars,
     gatherVars, phase2Vars, TypeOK, CtxDone, ClosingInv, WorkerInv
<1>7. CountInv'
  <2>1. pending' \cup emitting' = pending \cup emitting
    BY DEF WalkOffer
  <2> QED
    BY <2>1 DEF IInv, CountInv, WalkOffer, walkVars
<1>8. WorkerInv' /\ ReportInv' /\ ProjectInv'
  BY DEF IInv, WorkerInv, ReportInv, ProjectInv, WalkOffer, walkVars, workerVars,
     gatherVars, phase2Vars
<1> QED
  BY <1>1, <1>2, <1>3, <1>4, <1>5, <1>6, <1>7, <1>8 DEF IInv

\* WalkSend preserves the inductive invariant.
LEMMA WalkSendStep ==
    ASSUME NEW f \in File, IInv, WalkSend(f)
    PROVE  IInv'
<1>1. TypeOK'
  <2>1. Cardinality(tasks') <= TaskCap
    BY AddedCardinality, FiniteChannels, PipelineAssumption DEF IInv, TypeOK, WalkSend
  <2> QED
    BY <2>1 DEF IInv, TypeOK, WalkSend, walkVars, workerVars, gatherVars, phase2Vars
<1>2. WalkPlacement'
  BY PipelineAssumption DEF IInv, WalkPlacement, WalkSend, walkVars, workerVars,
     gatherVars, phase2Vars, TypeOK, Placement, WorkerInv
<1>3. Placement'
  BY ZenonT(60), PipelineAssumption DEF IInv, Placement, WalkSend, walkVars, workerVars,
     gatherVars, phase2Vars, TypeOK, WalkPlacement, Kinds, WorkerInv
<1>4. Coverage'
  BY PipelineAssumption DEF IInv, Coverage, WalkSend, walkVars, workerVars,
     gatherVars, phase2Vars, TypeOK, WalkPlacement, Placement, Kinds, WorkerInv,
     ReportInv
<1>5. WorkerInv'
  BY PipelineAssumption DEF IInv, WorkerInv, WalkSend, walkVars, workerVars,
     gatherVars, phase2Vars, TypeOK, ClosingInv, CtxDone
<1>6. ClosingInv'
  BY PipelineAssumption DEF IInv, ClosingInv, WalkSend, walkVars, workerVars,
     gatherVars, phase2Vars, TypeOK, WorkerInv, ErrorInv
<1>7. ErrorInv'
  BY PipelineAssumption DEF IInv, ErrorInv, WalkSend, walkVars, workerVars,
     gatherVars, phase2Vars, TypeOK, CtxDone, ClosingInv, WorkerInv
<1>8. CountInv'
  <2> SUFFICES ASSUME werr = "none"
               PROVE  walked' = Cardinality(File \ (pending' \cup emitting'))
    BY DEF CountInv, WalkSend
  <2> DEFINE S == File \ (pending \cup emitting)
  <2>1. File \ (pending' \cup emitting') = S \cup {f} /\ f \notin S
    BY DEF IInv, TypeOK, WalkPlacement, WalkSend
  <2>2. IsFiniteSet(S) /\ walked = Cardinality(S)
    BY FS_Subset, PipelineAssumption DEF IInv, CountInv
  <2>3. Cardinality(S \cup {f}) = Cardinality(S) + 1
    BY <2>1, <2>2, FS_AddElement
  <2> QED
    BY <2>1, <2>2, <2>3 DEF WalkSend
<1>9. ReportInv' /\ ProjectInv'
  BY DEF IInv, ReportInv, ProjectInv, WalkSend, walkVars, workerVars, gatherVars,
     phase2Vars
<1> QED
  BY <1>1, <1>2, <1>3, <1>4, <1>5, <1>6, <1>7, <1>8, <1>9 DEF IInv

\* WalkAbort preserves the inductive invariant.
LEMMA WalkAbortStep ==
    ASSUME NEW f \in File, IInv, WalkAbort(f)
    PROVE  IInv'
<1>1. TypeOK'
  BY PipelineAssumption DEF IInv, TypeOK, WalkAbort, walkVars, workerVars,
     gatherVars, phase2Vars, Kinds, PDone
<1>2. WalkPlacement'
  BY PipelineAssumption DEF IInv, WalkPlacement, WalkAbort, walkVars, workerVars,
     gatherVars, phase2Vars, TypeOK, Placement, WorkerInv
<1>3. Placement'
  BY PipelineAssumption DEF IInv, Placement, WalkAbort, walkVars, workerVars,
     gatherVars, phase2Vars, TypeOK, WalkPlacement, Kinds, WorkerInv
<1>4. Coverage'
  BY PipelineAssumption DEF IInv, Coverage, WalkAbort, walkVars, workerVars,
     gatherVars, phase2Vars, TypeOK, WalkPlacement, Placement, Kinds, WorkerInv,
     ReportInv
<1>5. ClosingInv'
  BY PipelineAssumption DEF IInv, ClosingInv, WalkAbort, walkVars, workerVars,
     gatherVars, phase2Vars, TypeOK, WorkerInv, ErrorInv
<1>6. ErrorInv'
  BY PipelineAssumption DEF IInv, ErrorInv, WalkAbort, walkVars, workerVars,
     gatherVars, phase2Vars, TypeOK, CtxDone, ClosingInv, WorkerInv
<1>7. CountInv'
  BY PipelineAssumption DEF IInv, CountInv, WalkAbort, walkVars, workerVars,
     gatherVars, phase2Vars, TypeOK, WalkPlacement
<1>8. WorkerInv' /\ ReportInv' /\ ProjectInv'
  BY DEF IInv, WorkerInv, ReportInv, ProjectInv, WalkAbort, walkVars, workerVars,
     gatherVars, phase2Vars
<1> QED
  BY <1>1, <1>2, <1>3, <1>4, <1>5, <1>6, <1>7, <1>8 DEF IInv

\* WalkSeesCancel preserves the inductive invariant.
LEMMA WalkSeesCancelStep ==
    ASSUME IInv, WalkSeesCancel
    PROVE  IInv'
<1>1. TypeOK'
  BY PipelineAssumption DEF IInv, TypeOK, WalkSeesCancel, walkVars, workerVars,
     gatherVars, phase2Vars, Kinds, PDone
<1>2. Coverage'
  BY PipelineAssumption DEF IInv, Coverage, WalkSeesCancel, walkVars, workerVars,
     gatherVars, phase2Vars, TypeOK, WalkPlacement, Placement, Kinds, WorkerInv,
     ReportInv
<1>3. ClosingInv'
  BY PipelineAssumption DEF IInv, ClosingInv, WalkSeesCancel, walkVars, workerVars,
     gatherVars, phase2Vars, TypeOK, WorkerInv, ErrorInv
<1>4. ErrorInv'
  BY PipelineAssumption DEF IInv, ErrorInv, WalkSeesCancel, walkVars, workerVars,
     gatherVars, phase2Vars, TypeOK, CtxDone, ClosingInv, WorkerInv
<1>5. CountInv'
  BY PipelineAssumption DEF IInv, CountInv, WalkSeesCancel, walkVars, workerVars,
     gatherVars, phase2Vars, TypeOK, WalkPlacement
<1>6. WalkPlacement' /\ Placement' /\ WorkerInv' /\ ReportInv' /\ ProjectInv'
  BY DEF IInv, WalkPlacement, Placement, WorkerInv, ReportInv, ProjectInv,
     WalkSeesCancel, walkVars, workerVars, gatherVars, phase2Vars
<1> QED
  BY <1>1, <1>2, <1>3, <1>4, <1>5, <1>6 DEF IInv

\* WalkFatal preserves the inductive invariant.
LEMMA WalkFatalStep ==
    ASSUME IInv, WalkFatal
    PROVE  IInv'
<1>1. TypeOK'
  BY PipelineAssumption DEF IInv, TypeOK, WalkFatal, walkVars, workerVars,
     gatherVars, phase2Vars, Kinds, PDone
<1>2. Coverage'
  BY PipelineAssumption DEF IInv, Coverage, WalkFatal, walkVars, workerVars,
     gatherVars, phase2Vars, TypeOK, WalkPlacement, Placement, Kinds, WorkerInv,
     ReportInv
<1>3. ClosingInv'
  BY PipelineAssumption DEF IInv, ClosingInv, WalkFatal, walkVars, workerVars,
     gatherVars, phase2Vars, TypeOK, WorkerInv, ErrorInv
<1>4. ErrorInv'
  BY PipelineAssumption DEF IInv, ErrorInv, WalkFatal, walkVars, workerVars,
     gatherVars, phase2Vars, TypeOK, CtxDone, ClosingInv, WorkerInv
<1>5. CountInv'
  BY PipelineAssumption DEF IInv, CountInv, WalkFatal, walkVars, workerVars,
     gatherVars, phase2Vars, TypeOK, WalkPlacement
<1>6. WalkPlacement' /\ Placement' /\ WorkerInv' /\ ReportInv' /\ ProjectInv'
  BY DEF IInv, WalkPlacement, Placement, WorkerInv, ReportInv, ProjectInv,
     WalkFatal, walkVars, workerVars, gatherVars, phase2Vars
<1> QED
  BY <1>1, <1>2, <1>3, <1>4, <1>5, <1>6 DEF IInv

\* WalkClose preserves the inductive invariant.
LEMMA WalkCloseStep ==
    ASSUME IInv, WalkClose
    PROVE  IInv'
<1>1. TypeOK'
  BY PipelineAssumption DEF IInv, TypeOK, WalkClose, walkVars, workerVars,
     gatherVars, phase2Vars, Kinds, PDone
<1>2. WorkerInv'
  BY PipelineAssumption DEF IInv, WorkerInv, WalkClose, walkVars, workerVars,
     gatherVars, phase2Vars, TypeOK, ClosingInv, CtxDone
<1>3. ClosingInv'
  BY PipelineAssumption DEF IInv, ClosingInv, WalkClose, walkVars, workerVars,
     gatherVars, phase2Vars, TypeOK, WorkerInv, ErrorInv
<1>4. ErrorInv'
  BY PipelineAssumption DEF IInv, ErrorInv, WalkClose, walkVars, workerVars,
     gatherVars, phase2Vars, TypeOK, CtxDone, ClosingInv, WorkerInv
<1>5. WalkPlacement' /\ Placement' /\ Coverage' /\ CountInv' /\ ReportInv' /\
      ProjectInv'
  BY DEF IInv, WalkPlacement, Placement, Coverage, CountInv, ReportInv, ProjectInv,
     WalkClose, walkVars, workerVars, gatherVars, phase2Vars
<1> QED
  BY <1>1, <1>2, <1>3, <1>4, <1>5 DEF IInv

\* WalkExit preserves the inductive invariant.
LEMMA WalkExitStep ==
    ASSUME IInv, WalkExit
    PROVE  IInv'
<1>1. TypeOK'
  BY PipelineAssumption DEF IInv, TypeOK, WalkExit, walkVars, workerVars,
     gatherVars, phase2Vars, Kinds, PDone
<1>2. WorkerInv'
  BY PipelineAssumption DEF IInv, WorkerInv, WalkExit, walkVars, workerVars,
     gatherVars, phase2Vars, TypeOK, ClosingInv, CtxDone
<1>3. ClosingInv'
  BY PipelineAssumption DEF IInv, ClosingInv, WalkExit, walkVars, workerVars,
     gatherVars, phase2Vars, TypeOK, WorkerInv, ErrorInv
<1>4. ErrorInv'
  BY PipelineAssumption DEF IInv, ErrorInv, WalkExit, walkVars, workerVars,
     gatherVars, phase2Vars, TypeOK, CtxDone, ClosingInv, WorkerInv
<1>5. WalkPlacement' /\ Placement' /\ Coverage' /\ CountInv' /\ ReportInv' /\
      ProjectInv'
  BY DEF IInv, WalkPlacement, Placement, Coverage, CountInv, ReportInv, ProjectInv,
     WalkExit, walkVars, workerVars, gatherVars, phase2Vars
<1> QED
  BY <1>1, <1>2, <1>3, <1>4, <1>5 DEF IInv

\* Recv preserves the inductive invariant.
LEMMA RecvStep ==
    ASSUME NEW w \in Worker, IInv, Recv(w)
    PROVE  IInv'
<1>1. TypeOK'
  <2>1. PICK f \in tasks : tasks' = tasks \ {f} /\ cur' = [cur EXCEPT ![w] = f]
    BY DEF Recv
  <2>2. Cardinality(tasks') <= TaskCap
    BY <2>1, RemovedCardinality, FiniteChannels, PipelineAssumption DEF IInv, TypeOK
  <2> QED
    BY <2>1, <2>2 DEF IInv, TypeOK, Recv, walkVars, workerVars, gatherVars, phase2Vars
<1>2. WalkPlacement'
  BY PipelineAssumption DEF IInv, WalkPlacement, Recv, walkVars, workerVars,
     gatherVars, phase2Vars, TypeOK, Placement, WorkerInv
<1>3. Placement'
  <2>1. PICK f \in tasks : tasks' = tasks \ {f} /\ cur' = [cur EXCEPT ![w] = f]
    BY DEF Recv
  <2>2. /\ f \in File /\ cur \in [Worker -> File \cup {NoFile}] /\ cur[w] = NoFile
        /\ f \notin pending \cup emitting
    BY <2>1 DEF IInv, TypeOK, WorkerInv, WalkPlacement, Recv
  <2>3. \A v \in Worker : cur'[v] = IF v = w THEN f ELSE cur[v]
    BY <2>1, <2>2
  <2>4. UNCHANGED <<pending, emitting, results, taken>>
    BY DEF Recv, walkVars, gatherVars
  <2> QED
    BY <2>1, <2>2, <2>3, <2>4, PipelineAssumption DEF IInv, Placement
<1>4. Coverage'
  <2>1. PICK f \in tasks : tasks' = tasks \ {f} /\ cur' = [cur EXCEPT ![w] = f]
    BY DEF Recv
  <2>2. f \in File /\ cur \in [Worker -> File \cup {NoFile}] /\ cur[w] = NoFile
    BY <2>1 DEF IInv, TypeOK, WorkerInv, Recv
  <2>3. \A v \in Worker : cur'[v] = IF v = w THEN f ELSE cur[v]
    BY <2>1, <2>2
  <2>4. UNCHANGED <<werr, pending, emitting, results, taken>>
    BY DEF Recv, walkVars, gatherVars
  <2> QED
    BY <2>1, <2>2, <2>3, <2>4, PipelineAssumption DEF IInv, Coverage
<1>5. WorkerInv'
  BY PipelineAssumption DEF IInv, WorkerInv, Recv, walkVars, workerVars, gatherVars,
     phase2Vars, TypeOK, ClosingInv, CtxDone
<1>6. ClosingInv'
  BY PipelineAssumption DEF IInv, ClosingInv, Recv, walkVars, workerVars,
     gatherVars, phase2Vars, TypeOK, WorkerInv, ErrorInv
<1>7. ErrorInv' /\ CountInv' /\ ReportInv' /\ ProjectInv'
  BY DEF IInv, ErrorInv, CountInv, ReportInv, ProjectInv, Recv, walkVars,
     workerVars, gatherVars, phase2Vars
<1> QED
  BY <1>1, <1>2, <1>3, <1>4, <1>5, <1>6, <1>7 DEF IInv

\* RecvClosed preserves the inductive invariant.
LEMMA RecvClosedStep ==
    ASSUME NEW w \in Worker, IInv, RecvClosed(w)
    PROVE  IInv'
<1>1. TypeOK'
  BY PipelineAssumption DEF IInv, TypeOK, RecvClosed, walkVars, workerVars,
     gatherVars, phase2Vars, Kinds, PDone
<1>2. WorkerInv'
  BY PipelineAssumption DEF IInv, WorkerInv, RecvClosed, walkVars, workerVars,
     gatherVars, phase2Vars, TypeOK, ClosingInv, CtxDone
<1>3. ClosingInv'
  BY PipelineAssumption DEF IInv, ClosingInv, RecvClosed, walkVars, workerVars,
     gatherVars, phase2Vars, TypeOK, WorkerInv, ErrorInv
<1>4. WalkPlacement' /\ Placement' /\ Coverage' /\ ErrorInv' /\ CountInv' /\
      ReportInv' /\ ProjectInv'
  BY DEF IInv, WalkPlacement, Placement, Coverage, ErrorInv, CountInv, ReportInv,
     ProjectInv, RecvClosed, walkVars, workerVars, gatherVars, phase2Vars
<1> QED
  BY <1>1, <1>2, <1>3, <1>4 DEF IInv

\* Process preserves the inductive invariant.
LEMMA ProcessStep ==
    ASSUME NEW w \in Worker, IInv, Process(w)
    PROVE  IInv'
<1>1. TypeOK'
  BY PipelineAssumption DEF IInv, TypeOK, Process, walkVars, workerVars, gatherVars,
     phase2Vars, Kinds, PDone
<1>2. WorkerInv'
  BY PipelineAssumption DEF IInv, WorkerInv, Process, walkVars, workerVars,
     gatherVars, phase2Vars, TypeOK, ClosingInv, CtxDone
<1>3. ClosingInv'
  BY PipelineAssumption DEF IInv, ClosingInv, Process, walkVars, workerVars,
     gatherVars, phase2Vars, TypeOK, WorkerInv, ErrorInv
<1>4. WalkPlacement' /\ Placement' /\ Coverage' /\ ErrorInv' /\ CountInv' /\
      ReportInv' /\ ProjectInv'
  BY DEF IInv, WalkPlacement, Placement, Coverage, ErrorInv, CountInv, ReportInv,
     ProjectInv, Process, walkVars, workerVars, gatherVars, phase2Vars
<1> QED
  BY <1>1, <1>2, <1>3, <1>4 DEF IInv

\* Send preserves the inductive invariant.
LEMMA SendStep ==
    ASSUME NEW w \in Worker, IInv, Send(w)
    PROVE  IInv'
<1>1. TypeOK'
  <2>1. Cardinality(results') <= ResultCap
    BY AddedCardinality, FiniteChannels, PipelineAssumption DEF IInv, TypeOK, Send
  <2>2. results' \in SUBSET (File \X Kinds)
    BY DEF IInv, TypeOK, WorkerInv, Send
  <2> QED
    BY <2>1, <2>2 DEF IInv, TypeOK, Send, walkVars, phase2Vars
<1>2. Placement'
  <2>1. /\ cur[w] \in File /\ cur \in [Worker -> File \cup {NoFile}]
        /\ kind[w] \in Kinds
    BY DEF IInv, TypeOK, WorkerInv, Send
  <2>2. \A v \in Worker : cur'[v] = IF v = w THEN NoFile ELSE cur[v]
    BY <2>1 DEF Send
  <2>3. \A f \in File, k \in Kinds :
           <<f, k>> \in results' <=> <<f, k>> \in results \/ (f = cur[w] /\ k = kind[w])
    BY DEF Send
  <2>4. UNCHANGED <<pending, emitting, tasks, taken>>
    BY DEF Send, walkVars
  <2> QED
    BY <2>1, <2>2, <2>3, <2>4, PipelineAssumption DEF IInv, Placement
<1>3. Coverage'
  BY PipelineAssumption DEF IInv, Coverage, Send, walkVars, workerVars, gatherVars,
     phase2Vars, TypeOK, WalkPlacement, Placement, Kinds, WorkerInv, ReportInv
<1>4. WorkerInv'
  BY PipelineAssumption DEF IInv, WorkerInv, Send, walkVars, workerVars, gatherVars,
     phase2Vars, TypeOK, ClosingInv, CtxDone
<1>5. ClosingInv'
  BY PipelineAssumption DEF IInv, ClosingInv, Send, walkVars, workerVars,
     gatherVars, phase2Vars, TypeOK, WorkerInv, ErrorInv
<1>6. WalkPlacement' /\ ErrorInv' /\ CountInv' /\ ReportInv' /\ ProjectInv'
  BY DEF IInv, WalkPlacement, ErrorInv, CountInv, ReportInv, ProjectInv, Send,
     walkVars, workerVars, gatherVars, phase2Vars
<1> QED
  BY <1>1, <1>2, <1>3, <1>4, <1>5, <1>6 DEF IInv

\* SendAbort preserves the inductive invariant.
LEMMA SendAbortStep ==
    ASSUME NEW w \in Worker, IInv, SendAbort(w)
    PROVE  IInv'
<1>1. TypeOK'
  BY PipelineAssumption DEF IInv, TypeOK, SendAbort, walkVars, workerVars,
     gatherVars, phase2Vars, Kinds, PDone
<1>2. WorkerInv'
  BY PipelineAssumption DEF IInv, WorkerInv, SendAbort, walkVars, workerVars,
     gatherVars, phase2Vars, TypeOK, ClosingInv, CtxDone
<1>3. ClosingInv'
  BY PipelineAssumption DEF IInv, ClosingInv, SendAbort, walkVars, workerVars,
     gatherVars, phase2Vars, TypeOK, WorkerInv, ErrorInv
<1>4. ErrorInv'
  BY PipelineAssumption DEF IInv, ErrorInv, SendAbort, walkVars, workerVars,
     gatherVars, phase2Vars, TypeOK, CtxDone, ClosingInv, WorkerInv
<1>5. WalkPlacement' /\ Placement' /\ Coverage' /\ CountInv' /\ ReportInv' /\
      ProjectInv'
  BY SMTT(30) DEF IInv, WalkPlacement, Placement, Coverage, CountInv, ReportInv, ProjectInv,
     SendAbort, walkVars, workerVars, gatherVars, phase2Vars
<1> QED
  BY <1>1, <1>2, <1>3, <1>4, <1>5 DEF IInv

\* CloseResults preserves the inductive invariant.
LEMMA CloseResultsStep ==
    ASSUME IInv, CloseResults
    PROVE  IInv'
<1>1. TypeOK'
  BY PipelineAssumption DEF IInv, TypeOK, CloseResults, walkVars, workerVars,
     gatherVars, phase2Vars, Kinds, PDone
<1>2. ClosingInv'
  BY PipelineAssumption DEF IInv, ClosingInv, CloseResults, walkVars, workerVars,
     gatherVars, phase2Vars, TypeOK, WorkerInv, ErrorInv
<1>3. WalkPlacement' /\ Placement' /\ Coverage' /\ WorkerInv' /\ ErrorInv' /\
      CountInv' /\ ReportInv' /\ ProjectInv'
  BY DEF IInv, WalkPlacement, Placement, Coverage, WorkerInv, ErrorInv, CountInv,
     ReportInv, ProjectInv, CloseResults, walkVars, workerVars, gatherVars,
     phase2Vars
<1> QED
  BY <1>1, <1>2, <1>3 DEF IInv

\* Collect preserves the inductive invariant.
LEMMA CollectStep ==
    ASSUME IInv, Collect
    PROVE  IInv'
<1>1. TypeOK'
  <2>1. PICK r \in results : /\ results' = results \ {r}
                             /\ taken' = [taken EXCEPT ![r[1]] = @ + 1]
                             /\ report' = [report EXCEPT ![r[1]] = r[2]]
    BY DEF Collect
  <2>2. r[1] \in File /\ r[2] \in Kinds
    BY <2>1 DEF IInv, TypeOK
  <2>3. Cardinality(results') <= ResultCap
    BY <2>1, RemovedCardinality, FiniteChannels, PipelineAssumption DEF IInv, TypeOK
  <2> QED
    BY <2>1, <2>2, <2>3 DEF IInv, TypeOK, Collect, walkVars, workerVars, phase2Vars
<1>2. Placement'
  <2>1. PICK r \in results : /\ results' = results \ {r}
                             /\ taken' = [taken EXCEPT ![r[1]] = @ + 1]
                             /\ report' = [report EXCEPT ![r[1]] = r[2]]
    BY DEF Collect
  <2>2. PICK g \in File, j \in Kinds : r = <<g, j>>
    BY <2>1 DEF IInv, TypeOK
  <2>3. /\ taken[g] = 0
        /\ \A f \in File : taken'[f] = IF f = g THEN 1 ELSE taken[f]
    BY <2>1, <2>2 DEF IInv, TypeOK, Placement
  <2>4. \A f \in File, k \in Kinds :
           <<f, k>> \in results' <=> <<f, k>> \in results /\ f # g
    BY <2>1, <2>2 DEF IInv, Placement
  <2>5. UNCHANGED <<pending, emitting, tasks, cur>>
    BY DEF Collect, walkVars, workerVars
  <2> QED
    BY <2>1, <2>2, <2>3, <2>4, <2>5 DEF IInv, Placement
<1>3. Coverage'
  <2>1. PICK r \in results : /\ results' = results \ {r}
                             /\ taken' = [taken EXCEPT ![r[1]] = @ + 1]
                             /\ report' = [report EXCEPT ![r[1]] = r[2]]
    BY DEF Collect
  <2>2. PICK g \in File, j \in Kinds : r = <<g, j>>
    BY <2>1 DEF IInv, TypeOK
  <2>3. /\ taken[g] = 0
        /\ \A f \in File : taken'[f] = IF f = g THEN 1 ELSE taken[f]
    BY <2>1, <2>2 DEF IInv, TypeOK, Placement
  <2>4. \A f \in File, k \in Kinds :
           <<f, k>> \in results' <=> <<f, k>> \in results /\ f # g
    BY <2>1, <2>2 DEF IInv, Placement
  <2>5. UNCHANGED <<werr, pending, emitting, tasks, cur>>
    BY DEF Collect, walkVars, workerVars
  <2> QED
    BY <2>1, <2>2, <2>3, <2>4, <2>5 DEF IInv, Coverage
<1>4. ClosingInv'
  BY PipelineAssumption DEF IInv, ClosingInv, Collect, walkVars, workerVars,
     gatherVars, phase2Vars, TypeOK, WorkerInv, ErrorInv
<1>5. ReportInv'
  <2>1. PICK r \in results : /\ results' = results \ {r}
                             /\ taken' = [taken EXCEPT ![r[1]] = @ + 1]
                             /\ report' = [report EXCEPT ![r[1]] = r[2]]
    BY DEF Collect
  <2>2. PICK g \in File, j \in Kinds : r = <<g, j>>
    BY <2>1 DEF IInv, TypeOK
  <2>3. /\ taken[g] = 0
        /\ \A f \in File : taken'[f] = IF f = g THEN 1 ELSE taken[f]
    BY <2>1, <2>2 DEF IInv, TypeOK, Placement
  <2>4. \A f \in File, k \in Kinds :
           <<f, k>> \in results' <=> <<f, k>> \in results /\ f # g
    BY <2>1, <2>2 DEF IInv, Placement
  <2>5. \A f \in File : report'[f] = IF f = g THEN j ELSE report[f]
    BY <2>1, <2>2 DEF IInv, TypeOK
  <2> QED
    BY <2>1, <2>2, <2>3, <2>5 DEF IInv, ReportInv, Kinds
<1>6. WalkPlacement' /\ WorkerInv' /\ ErrorInv' /\ CountInv' /\ ProjectInv'
  BY DEF IInv, WalkPlacement, WorkerInv, ErrorInv, CountInv, ProjectInv, Collect,
     walkVars, workerVars, gatherVars, phase2Vars
<1> QED
  BY <1>1, <1>2, <1>3, <1>4, <1>5, <1>6 DEF IInv

\* CollectEnd preserves the inductive invariant.
LEMMA CollectEndStep ==
    ASSUME IInv, CollectEnd
    PROVE  IInv'
<1>1. TypeOK'
  BY PipelineAssumption DEF IInv, TypeOK, CollectEnd, walkVars, workerVars,
     gatherVars, phase2Vars, Kinds, PDone
<1>2. ClosingInv'
  BY PipelineAssumption DEF IInv, ClosingInv, CollectEnd, walkVars, workerVars,
     gatherVars, phase2Vars, TypeOK, WorkerInv, ErrorInv
<1>3. WalkPlacement' /\ Placement' /\ Coverage' /\ WorkerInv' /\ ErrorInv' /\
      CountInv' /\ ReportInv' /\ ProjectInv'
  BY DEF IInv, WalkPlacement, Placement, Coverage, WorkerInv, ErrorInv, CountInv,
     ReportInv, ProjectInv, CollectEnd, walkVars, workerVars, gatherVars, phase2Vars
<1> QED
  BY <1>1, <1>2, <1>3 DEF IInv

\* ScanReturn preserves the inductive invariant.
LEMMA ScanReturnStep ==
    ASSUME IInv, ScanReturn
    PROVE  IInv'
<1>1. TypeOK'
  BY PipelineAssumption DEF IInv, TypeOK, ScanReturn, walkVars, workerVars,
     gatherVars, phase2Vars, Kinds, PDone
<1>2. ClosingInv'
  BY PipelineAssumption DEF IInv, ClosingInv, ScanReturn, walkVars, workerVars,
     gatherVars, phase2Vars, TypeOK, WorkerInv, ErrorInv
<1>3. ProjectInv'
  BY PipelineAssumption DEF IInv, ProjectInv, ScanReturn, walkVars, workerVars,
     gatherVars, phase2Vars, TypeOK
<1>4. WalkPlacement' /\ Placement' /\ Coverage' /\ WorkerInv' /\ ErrorInv' /\
      CountInv' /\ ReportInv'
  BY DEF IInv, WalkPlacement, Placement, Coverage, WorkerInv, ErrorInv, CountInv,
     ReportInv, ScanReturn, walkVars, workerVars, gatherVars, phase2Vars
<1> QED
  BY <1>1, <1>2, <1>3, <1>4 DEF IInv

\* ProjectStart preserves the inductive invariant.
LEMMA ProjectStartStep ==
    ASSUME NEW p \in 1..Projects, IInv, ProjectStart(p)
    PROVE  IInv'
<1>1. TypeOK'
  BY PipelineAssumption DEF IInv, TypeOK, ProjectStart, phase1Vars, walkVars,
     workerVars, gatherVars, phase2Vars, Kinds, PDone
<1>2. ProjectInv'
  BY PipelineAssumption DEF IInv, ProjectInv, ProjectStart, phase1Vars, walkVars,
     workerVars, gatherVars, phase2Vars, TypeOK
<1>3. WalkPlacement' /\ Placement' /\ Coverage' /\ WorkerInv' /\ ClosingInv' /\
      ErrorInv' /\ CountInv' /\ ReportInv'
  BY ZenonT(60) DEF IInv, WalkPlacement, Placement, Coverage, WorkerInv, ClosingInv, ErrorInv,
     CountInv, ReportInv, ProjectStart, phase1Vars, walkVars, workerVars,
     gatherVars, phase2Vars
<1> QED
  BY <1>1, <1>2, <1>3 DEF IInv

\* ProjectQuery preserves the inductive invariant.
LEMMA ProjectQueryStep ==
    ASSUME NEW p \in 1..Projects, IInv, ProjectQuery(p)
    PROVE  IInv'
<1>1. TypeOK'
  <2>1. perr' \in BOOLEAN
    BY DEF IInv, TypeOK, ProjectQuery, ProjectFails
  <2>2. pdet' \in [1..Projects -> PDone \cup {"waiting", "query", "assemble"}]
    BY DEF IInv, TypeOK, ProjectQuery, ProjectFails, PDone
  <2>3. UNCHANGED <<cancelled, phase1Vars, run>>
    BY DEF ProjectQuery
  <2> QED
    BY <2>1, <2>2, <2>3 DEF IInv, TypeOK, phase1Vars, walkVars, workerVars, gatherVars
<1>2. ProjectInv'
  BY PipelineAssumption DEF IInv, ProjectInv, ProjectFails, ProjectQuery,
     phase1Vars, walkVars, workerVars, gatherVars, phase2Vars, TypeOK
<1>3. WalkPlacement' /\ Placement' /\ Coverage' /\ WorkerInv' /\ ClosingInv' /\
      ErrorInv' /\ CountInv' /\ ReportInv'
  BY DEF IInv, WalkPlacement, Placement, Coverage, WorkerInv, ClosingInv, ErrorInv,
     CountInv, ReportInv, ProjectQuery, phase1Vars, walkVars, workerVars,
     gatherVars, phase2Vars, ProjectFails
<1> QED
  BY <1>1, <1>2, <1>3 DEF IInv

\* ProjectAssemble preserves the inductive invariant.
LEMMA ProjectAssembleStep ==
    ASSUME NEW p \in 1..Projects, IInv, ProjectAssemble(p)
    PROVE  IInv'
<1>1. TypeOK'
  <2>1. perr' \in BOOLEAN
    BY DEF IInv, TypeOK, ProjectAssemble, ProjectFails
  <2>2. pdet' \in [1..Projects -> PDone \cup {"waiting", "query", "assemble"}]
    BY DEF IInv, TypeOK, ProjectAssemble, ProjectFails, PDone
  <2>3. UNCHANGED <<cancelled, phase1Vars, run>>
    BY DEF ProjectAssemble
  <2> QED
    BY <2>1, <2>2, <2>3 DEF IInv, TypeOK, phase1Vars, walkVars, workerVars, gatherVars
<1>2. ProjectInv'
  BY PipelineAssumption DEF IInv, ProjectInv, ProjectFails, ProjectAssemble, phase1Vars, walkVars,
     workerVars, gatherVars, phase2Vars, TypeOK
<1>3. WalkPlacement' /\ Placement' /\ Coverage' /\ WorkerInv' /\ ClosingInv' /\
      ErrorInv' /\ CountInv' /\ ReportInv'
  BY DEF IInv, WalkPlacement, Placement, Coverage, WorkerInv, ClosingInv, ErrorInv,
     CountInv, ReportInv, ProjectAssemble, phase1Vars, walkVars, workerVars,
     gatherVars, phase2Vars, ProjectFails
<1> QED
  BY <1>1, <1>2, <1>3 DEF IInv

\* RunReturn preserves the inductive invariant.
LEMMA RunReturnStep ==
    ASSUME IInv, RunReturn
    PROVE  IInv'
<1>1. TypeOK'
  BY PipelineAssumption DEF IInv, TypeOK, RunReturn, phase1Vars, walkVars,
     workerVars, gatherVars, phase2Vars, Kinds, PDone
<1>2. WalkPlacement' /\ Placement' /\ Coverage' /\ WorkerInv' /\ ClosingInv' /\
      ErrorInv' /\ CountInv' /\ ReportInv' /\ ProjectInv'
  BY DEF IInv, WalkPlacement, Placement, Coverage, WorkerInv, ClosingInv, ErrorInv,
     CountInv, ReportInv, ProjectInv, RunReturn, phase1Vars, walkVars, workerVars,
     gatherVars, phase2Vars
<1> QED
  BY <1>1, <1>2 DEF IInv

\* The initial state satisfies the inductive invariant.
LEMMA InitIInv == Init => IInv
<1> SUFFICES ASSUME Init PROVE IInv
  OBVIOUS
<1> USE PipelineAssumption DEF Init
<1>1. TypeOK
  <2>1. Cardinality({}) = 0
    BY FS_EmptySet
  <2>2. Cardinality(tasks) <= TaskCap /\ Cardinality(results) <= ResultCap
    BY <2>1
  <2>3. /\ tasks \in SUBSET File /\ results \in SUBSET (File \X Kinds)
        /\ pending \in SUBSET File /\ emitting \in SUBSET File
    OBVIOUS
  <2>4. /\ kind \in [Worker -> Kinds] /\ report \in [File -> Kinds \cup {"none"}]
        /\ pdet \in [1..Projects -> PDone \cup {"waiting", "query", "assemble"}]
    BY DEF Kinds
  <2> QED
    BY <2>2, <2>3, <2>4 DEF TypeOK
<1>2. WalkPlacement /\ Placement /\ Coverage
  BY DEF WalkPlacement, Placement, Coverage
<1>3. WorkerInv /\ ClosingInv /\ ErrorInv /\ ReportInv /\ ProjectInv
  BY DEF WorkerInv, ClosingInv, ErrorInv, ReportInv, ProjectInv
<1>4. CountInv
  <2>1. File \ (pending \cup emitting) = {}
    OBVIOUS
  <2> QED
    BY <2>1, FS_EmptySet DEF CountInv
<1> QED
  BY <1>1, <1>2, <1>3, <1>4 DEF IInv

\* The inductive invariant is a predicate of the variables alone.
LEMMA StutterIInv ==
    ASSUME IInv, UNCHANGED vars
    PROVE  IInv'
<1> USE DEF vars, phase1Vars, walkVars, workerVars, gatherVars, phase2Vars
<1>1. TypeOK'
  BY DEF IInv, TypeOK
<1>2. WalkPlacement' /\ Placement' /\ Coverage'
  BY DEF IInv, WalkPlacement, Placement, Coverage
<1>3. WorkerInv' /\ ClosingInv' /\ ErrorInv'
  BY DEF IInv, WorkerInv, ClosingInv, ErrorInv
<1>4. CountInv' /\ ReportInv' /\ ProjectInv'
  BY DEF IInv, CountInv, ReportInv, ProjectInv
<1> QED
  BY <1>1, <1>2, <1>3, <1>4 DEF IInv

\* Every step of the pipeline preserves the inductive invariant.
LEMMA NextIInv == IInv /\ [Next]_vars => IInv'
<1> SUFFICES ASSUME IInv, [Next]_vars PROVE IInv'
  OBVIOUS
<1>1. CASE Cancel
  BY <1>1, CancelStep
<1>2. CASE WalkStep
  BY <1>2, WalkOfferStep, WalkSendStep, WalkAbortStep, WalkSeesCancelStep,
     WalkFatalStep, WalkCloseStep, WalkExitStep DEF WalkStep
<1>3. ASSUME NEW w \in Worker, WorkerStep(w) PROVE IInv'
  BY <1>3, RecvStep, RecvClosedStep, ProcessStep, SendStep, SendAbortStep
     DEF WorkerStep
<1>4. CASE GatherStep
  BY <1>4, CloseResultsStep, CollectStep, CollectEndStep, ScanReturnStep DEF GatherStep
<1>5. ASSUME NEW p \in 1..Projects, ProjectStep(p) PROVE IInv'
  BY <1>5, ProjectStartStep, ProjectQueryStep, ProjectAssembleStep DEF ProjectStep
<1>6. CASE RunReturn
  BY <1>6, RunReturnStep
<1>7. CASE Finished \/ UNCHANGED vars
  BY <1>7, StutterIInv DEF Finished
<1> QED
  BY <1>1, <1>2, <1>3, <1>4, <1>5, <1>6, <1>7 DEF Next

\* The inductive invariant holds in every reachable state.
THEOREM Invariance == Spec => []IInv
  BY InitIInv, NextIInv, PTL DEF Spec

\* Every variable keeps its range, and neither channel holds more than its
\* capacity (engine.go's "bounded channels").
THEOREM TypeCorrect == Spec => []TypeOK
<1>1. IInv => TypeOK
  BY DEF IInv
<1> QED
  BY <1>1, Invariance, PTL

\* No goroutine sends on a closed channel: Walk returns after its callbacks,
\* and results is closed after the last worker.
THEOREM ChannelsSafe == Spec => []NoSendOnClosed
<1>1. IInv => NoSendOnClosed
  BY DEF IInv, ClosingInv, NoSendOnClosed
<1> QED
  BY <1>1, Invariance, PTL

\* What a successful return of Scan rests on: no error was met, so nothing was
\* dropped, and every place an entry could still be in is empty.
LEMMA JoinedDrained ==
    ASSUME IInv, gerr = "none", walk = "exited", collector = "exited",
           \A w \in Worker : wpc[w] = "exited"
    PROVE  /\ werr = "none" /\ pending = {} /\ emitting = {}
           /\ tasks = {} /\ results = {}
           /\ \A f \in File : taken[f] = 1
<1>1. results = {}
  BY DEF IInv, ClosingInv
<1>2. werr = "none" /\ pending = {} /\ emitting = {}
  BY <1>1 DEF IInv, ErrorInv, ClosingInv
<1>3. (\A w \in Worker : cur[w] = NoFile) /\ tasks = {}
  BY <1>1, PipelineAssumption DEF IInv, WorkerInv
<1>4. \A f \in File : taken[f] = 1
  BY <1>1, <1>2, <1>3, PipelineAssumption DEF IInv, Coverage
<1> QED
  BY <1>1, <1>2, <1>3, <1>4

\* A scan that succeeded wrote everything it found.
LEMMA SuccessDrained ==
    ASSUME IInv, scan = "ok"
    PROVE  /\ werr = "none" /\ pending = {} /\ emitting = {}
           /\ tasks = {} /\ results = {}
           /\ \A f \in File : taken[f] = 1
  BY JoinedDrained DEF IInv, ClosingInv

\* Scan returns success only when each walked entry was collected exactly
\* once, and FilesWalked is their number.
THEOREM Completeness == Spec => []CompleteOnSuccess
<1>1. IInv => CompleteOnSuccess
  <2> SUFFICES ASSUME IInv, scan = "ok"
               PROVE  (\A f \in File : taken[f] = 1) /\ walked = Cardinality(File)
    BY DEF CompleteOnSuccess
  <2>1. File \ (pending \cup emitting) = File
    BY SuccessDrained
  <2> QED
    BY <2>1, SuccessDrained DEF IInv, CountInv
<1> QED
  BY <1>1, Invariance, PTL

\* A project detector never runs before phase 1 has returned with everything
\* collected.
THEOREM Barrier == Spec => []PhaseBarrier
<1>1. IInv => PhaseBarrier
  BY SuccessDrained DEF IInv, ProjectInv, ReportInv, PhaseBarrier
<1> QED
  BY <1>1, Invariance, PTL

-----------------------------------------------------------------------------
(* Refinement: every step of the pipeline is a step of the contract, or one  *)
(* the contract does not see.                                                *)

Delivered == {f \in File : taken[f] > 0}

\* Taking a result from the channel delivers an entry not delivered before.
LEMMA CollectDelivers ==
    ASSUME IInv, Collect
    PROVE  /\ \E g \in File : g \notin Delivered /\ Delivered' = Delivered \cup {g}
           /\ scan = "running"
<1>1. PICK r \in results : taken' = [taken EXCEPT ![r[1]] = @ + 1]
  BY DEF Collect
<1>2. PICK g \in File, k \in Kinds : r = <<g, k>>
  BY <1>1 DEF IInv, TypeOK
<1>3. taken[g] = 0 /\ taken \in [File -> Nat]
  BY <1>1, <1>2 DEF IInv, TypeOK, Placement
<1>4. \A f \in File : taken'[f] = IF f = g THEN 1 ELSE taken[f]
  BY <1>1, <1>2, <1>3
<1>5. g \notin Delivered /\ Delivered' = Delivered \cup {g}
  BY <1>3, <1>4 DEF Delivered
<1>6. scan = "running"
  BY DEF IInv, TypeOK, ClosingInv, Collect
<1> QED
  BY <1>5, <1>6

\* Every step is a step of the contract or leaves its variables unchanged.
LEMMA StepRefines == IInv /\ [Next]_vars => [Contract!ContractNext]_(Contract!contractVars)
<1> SUFFICES ASSUME IInv, [Next]_vars
             PROVE  [Contract!ContractNext]_(Contract!contractVars)
  OBVIOUS
<1> USE DEF Contract!ContractNext, Contract!contractVars, phase1Vars, phase2Vars,
            walkVars, workerVars, gatherVars
<1>1. CASE Cancel
  BY <1>1 DEF Cancel, Contract!Disturb
<1>2. CASE WalkFatal
  BY <1>2 DEF WalkFatal, Contract!Disturb
<1>3. ASSUME NEW f \in File, WalkAbort(f)
      PROVE  [Contract!ContractNext]_(Contract!contractVars)
  <2>1. werr # "source" /\ werr' # "source"
    BY <1>3 DEF WalkAbort, IInv, ErrorInv
  <2> QED
    BY <1>3, <2>1 DEF WalkAbort
<1>4. CASE Collect
  BY <1>4, CollectDelivers DEF Collect, Delivered, Contract!Deliver
<1>5. CASE ScanReturn
  <2>1. CASE gerr = "none"
    <3>1. \A f \in File : taken[f] = 1
      BY <1>5, <2>1, JoinedDrained DEF ScanReturn
    <3> QED
      BY <1>5, <2>1, <3>1 DEF ScanReturn, Contract!ReturnOutcome
  <2>2. CASE gerr # "none"
    BY <1>5, <2>2 DEF ScanReturn, IInv, ErrorInv, Contract!ReturnError
  <2> QED
    BY <2>1, <2>2
<1>6. ASSUME NEW f \in File, WalkOffer(f) \/ WalkSend(f)
      PROVE  [Contract!ContractNext]_(Contract!contractVars)
  BY <1>6 DEF WalkOffer, WalkSend
<1>7. CASE WalkSeesCancel
  BY <1>7 DEF WalkSeesCancel
<1>8. CASE WalkClose \/ WalkExit
  BY <1>8 DEF WalkClose, WalkExit
<1>9. ASSUME NEW w \in Worker, WorkerStep(w)
      PROVE  [Contract!ContractNext]_(Contract!contractVars)
  BY <1>9 DEF WorkerStep, Recv, RecvClosed, Process, Send, SendAbort
<1>10. CASE CloseResults \/ CollectEnd
  BY <1>10 DEF CloseResults, CollectEnd
<1>11. ASSUME NEW p \in 1..Projects, ProjectStep(p)
       PROVE  [Contract!ContractNext]_(Contract!contractVars)
  BY <1>11 DEF ProjectStep, ProjectStart, ProjectQuery, ProjectAssemble
<1>12. CASE RunReturn
  BY <1>12 DEF RunReturn
<1>13. CASE Finished \/ UNCHANGED vars
  BY <1>13 DEF Finished, vars
<1> QED
  BY <1>1, <1>2, <1>3, <1>4, <1>5, <1>6, <1>7, <1>8, <1>9, <1>10, <1>11, <1>12, <1>13
     DEF Next, WalkStep, GatherStep

\* Engine.Scan implements its contract: exactly one delivery per entry,
\* success only with all of them, an error only after a cancellation or a
\* failure of the source, never because of one file.
THEOREM Refinement == Spec => ImplementsContract
<1>1. Init => Contract!ContractInit
  BY DEF Init, Contract!ContractInit
<1> QED
  BY <1>1, StepRefines, Invariance, PTL DEF Spec, ImplementsContract, Contract!ContractSpec
=============================================================================
