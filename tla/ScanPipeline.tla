---------------------------- MODULE ScanPipeline ----------------------------
(***************************************************************************)
(* The two-phase scan: Engine.Scan (internal/engine/engine.go), the        *)
(* processor it drives (internal/dispatch/dispatch.go), and RunProject,    *)
(* which runScanPipeline (internal/app/scan.go) calls once Scan returned.  *)
(*                                                                         *)
(* Phase 1 is one producer (the source's Walk, whose callbacks may run     *)
(* concurrently), a pool of workers, a goroutine that closes `results`     *)
(* when the pool is gone, one collector, and the caller in g.Wait.  They   *)
(* share two bounded channels and the errgroup's context.  Phase 2 runs    *)
(* the project detectors on a bounded pool under an errgroup of its own.   *)
(*                                                                         *)
(* A channel is the set of what it holds: entries are distinct files, and  *)
(* Scan sorts what it collected by path, so the order inside a channel     *)
(* reaches no result.  What a file's processing yields is one of four      *)
(* kinds of result:                                                        *)
(*   "clean"       every matched detector ran                              *)
(*   "degraded"    a detector failed; the payload carries its Unknown      *)
(*   "failed"      header unreadable, or a panic: an engine Unknown        *)
(*   "interrupted" a detector's read was refused because the context was   *)
(*                 done; the payload carries that as a detector failure    *)
(***************************************************************************)
EXTENDS Integers, FiniteSets

CONSTANTS File,       \* the entries the source's walk enumerates
          Worker,     \* the pool's goroutines, --parallel of them
          TaskCap,    \* capacity of `tasks`   (4*workers in the code)
          ResultCap,  \* capacity of `results` (256 in the code)
          WalkFan,    \* walk callbacks that may run at once
          Projects,   \* number of project detectors, in registration order
          NoFile      \* what a worker without an entry holds

ASSUME PipelineAssumption ==
    /\ IsFiniteSet(File)
    /\ IsFiniteSet(Worker)
    /\ Worker # {}
    /\ TaskCap \in Nat \ {0}
    /\ ResultCap \in Nat \ {0}
    /\ WalkFan \in Nat \ {0}
    /\ Projects \in Nat
    /\ NoFile \notin File

VARIABLES
    cancelled,   \* the caller's context is done
    gerr,        \* first error of phase 1's errgroup: "none", "ctx", "source"
    walk,        \* the producer: "walking", "closed" (tasks closed), "exited"
    werr,        \* what Walk will return
    pending,     \* entries no callback has been started for
    emitting,    \* entries whose callback is in its select
    tasks,       \* contents of the task channel
    walked,      \* the atomic count of entries sent
    wpc,         \* per worker: "recv", "process", "send", "exited"
    cur,         \* per worker: the entry it holds
    kind,        \* per worker: the result of that entry
    results,     \* contents of the result channel
    closed,      \* the result channel is closed
    collector,   \* "running" or "exited"
    taken,       \* per file: results the collector has taken for it
    report,      \* per file: the kind of the last one
    scan,        \* Engine.Scan: "running", "ok", "error"
    pdet,        \* per project detector: its progress
    perr,        \* first error of phase 2's errgroup
    run          \* runScanPipeline up to assembly: "running", "ok", "error"

walkVars   == <<walk, werr, pending, emitting, walked>>
workerVars == <<wpc, cur, kind>>
gatherVars == <<results, closed, collector, taken, report>>
phase2Vars == <<pdet, perr, run>>
phase1Vars == <<walkVars, tasks, workerVars, gatherVars, gerr, scan>>
vars == <<cancelled, phase1Vars, phase2Vars>>

Kinds == {"clean", "degraded", "failed", "interrupted"}

\* The errgroup's derived context: done once the caller cancelled or a
\* member of the group returned an error.
CtxDone == cancelled \/ gerr # "none"
Ctx2Done == cancelled \/ perr

-----------------------------------------------------------------------------
Init ==
    /\ cancelled = FALSE
    /\ gerr = "none"
    /\ walk = "walking"
    /\ werr = "none"
    /\ pending = File
    /\ emitting = {}
    /\ tasks = {}
    /\ walked = 0
    /\ wpc = [w \in Worker |-> "recv"]
    /\ cur = [w \in Worker |-> NoFile]
    /\ kind = [w \in Worker |-> "clean"]
    /\ results = {}
    /\ closed = FALSE
    /\ collector = "running"
    /\ taken = [f \in File |-> 0]
    /\ report = [f \in File |-> "none"]
    /\ scan = "running"
    /\ pdet = [p \in 1..Projects |-> "waiting"]
    /\ perr = FALSE
    /\ run = "running"

\* Ctrl-C, or the deadline of an embedding program.
Cancel ==
    /\ ~cancelled
    /\ run = "running"
    /\ cancelled' = TRUE
    /\ UNCHANGED <<phase1Vars, phase2Vars>>

-----------------------------------------------------------------------------
(* The producer.                                                           *)

\* Walk reaches a file and calls back.
WalkOffer(f) ==
    /\ walk = "walking" /\ werr = "none"
    /\ f \in pending
    /\ Cardinality(emitting) < WalkFan
    /\ pending' = pending \ {f}
    /\ emitting' = emitting \cup {f}
    /\ UNCHANGED <<cancelled, walk, werr, walked, tasks, workerVars, gatherVars,
                   gerr, scan, phase2Vars>>

\* case tasks <- en
WalkSend(f) ==
    /\ f \in emitting
    /\ Cardinality(tasks) < TaskCap
    /\ emitting' = emitting \ {f}
    /\ tasks' = tasks \cup {f}
    /\ walked' = walked + 1
    /\ UNCHANGED <<cancelled, walk, werr, pending, workerVars, gatherVars, gerr,
                   scan, phase2Vars>>

\* case <-ctx.Done(): the callback returns the context's error, and the walk
\* starts no further callback.
WalkAbort(f) ==
    /\ f \in emitting
    /\ CtxDone
    /\ emitting' = emitting \ {f}
    /\ werr' = "ctx"
    /\ UNCHANGED <<cancelled, walk, pending, walked, tasks, workerVars, gatherVars,
                   gerr, scan, phase2Vars>>

\* The walk itself looks at the context between entries.
WalkSeesCancel ==
    /\ walk = "walking" /\ werr = "none"
    /\ pending # {} /\ CtxDone
    /\ werr' = "ctx"
    /\ UNCHANGED <<cancelled, walk, pending, emitting, walked, tasks, workerVars,
                   gatherVars, gerr, scan, phase2Vars>>

\* The source cannot be enumerated: an unreadable scan root, an image that
\* does not materialise.  Both are met before the first entry.
WalkFatal ==
    /\ walk = "walking" /\ werr = "none"
    /\ pending = File /\ emitting = {}
    /\ werr' = "source"
    /\ UNCHANGED <<cancelled, walk, pending, emitting, walked, tasks, workerVars,
                   gatherVars, gerr, scan, phase2Vars>>

WalkClose_noJoin ==
    /\ walk = "walking"
    /\ pending = {} \/ werr # "none"
    /\ walk' = "closed"
    /\ UNCHANGED <<cancelled, werr, pending, emitting, walked, tasks, workerVars,
                   gatherVars, gerr, scan, phase2Vars>>

\* Walk returns after every callback has, and the deferred close runs.
WalkClose ==
    /\ walk = "walking"
    /\ emitting = {}
    /\ pending = {} \/ werr # "none"
    /\ walk' = "closed"
    /\ UNCHANGED <<cancelled, werr, pending, emitting, walked, tasks, workerVars,
                   gatherVars, gerr, scan, phase2Vars>>

\* The errgroup keeps the first error and cancels the derived context.
WalkExit ==
    /\ walk = "closed"
    /\ walk' = "exited"
    /\ gerr' = IF gerr = "none" THEN werr ELSE gerr
    /\ UNCHANGED <<cancelled, werr, pending, emitting, walked, tasks, workerVars,
                   gatherVars, scan, phase2Vars>>

-----------------------------------------------------------------------------
(* The workers.                                                            *)

\* for en := range tasks
Recv(w) ==
    /\ wpc[w] = "recv"
    /\ \E f \in tasks :
          /\ tasks' = tasks \ {f}
          /\ cur' = [cur EXCEPT ![w] = f]
    /\ wpc' = [wpc EXCEPT ![w] = "process"]
    /\ UNCHANGED <<cancelled, walkVars, kind, gatherVars, gerr, scan, phase2Vars>>

\* The range ends: the channel is closed and drained.
RecvClosed(w) ==
    /\ wpc[w] = "recv"
    /\ tasks = {} /\ walk # "walking"
    /\ wpc' = [wpc EXCEPT ![w] = "exited"]
    /\ UNCHANGED <<cancelled, walkVars, tasks, cur, kind, gatherVars, gerr, scan,
                   phase2Vars>>

Process_fatal(w) ==
    /\ wpc[w] = "process"
    /\ \E k \in Kinds :
          /\ k = "interrupted" => CtxDone
          /\ kind' = [kind EXCEPT ![w] = k]
          /\ wpc' = [wpc EXCEPT ![w] = IF k = "failed" THEN "exited" ELSE "send"]
          /\ gerr' = IF k = "failed" /\ gerr = "none" THEN "ctx" ELSE gerr
    /\ UNCHANGED <<cancelled, walkVars, tasks, cur, gatherVars, scan, phase2Vars>>

\* processEntry, which always returns a result: a header error, a detector
\* error and a panic each become an Unknown of that file.  A detector whose
\* content read waits at the I/O gate gets the context's error.
Process(w) ==
    /\ wpc[w] = "process"
    /\ \E k \in Kinds :
          /\ k = "interrupted" => CtxDone
          /\ kind' = [kind EXCEPT ![w] = k]
    /\ wpc' = [wpc EXCEPT ![w] = "send"]
    /\ UNCHANGED <<cancelled, walkVars, tasks, cur, gatherVars, gerr, scan, phase2Vars>>

\* case results <- res
Send(w) ==
    /\ wpc[w] = "send"
    /\ Cardinality(results) < ResultCap
    /\ results' = results \cup {<<cur[w], kind[w]>>}
    /\ wpc' = [wpc EXCEPT ![w] = "recv"]
    /\ cur' = [cur EXCEPT ![w] = NoFile]
    /\ UNCHANGED <<cancelled, walkVars, tasks, kind, closed, collector, taken, report,
                   gerr, scan, phase2Vars>>

SendAbort_noDone(w) ==
    /\ wpc[w] = "send"
    /\ CtxDone
    /\ wpc' = [wpc EXCEPT ![w] = "gone"]
    /\ gerr' = IF gerr = "none" THEN "ctx" ELSE gerr
    /\ UNCHANGED <<cancelled, walkVars, tasks, cur, kind, gatherVars, scan, phase2Vars>>

\* case <-ctx.Done(): the worker drops its result and returns the error.
SendAbort(w) ==
    /\ wpc[w] = "send"
    /\ CtxDone
    /\ wpc' = [wpc EXCEPT ![w] = "exited"]
    /\ gerr' = IF gerr = "none" THEN "ctx" ELSE gerr
    /\ UNCHANGED <<cancelled, walkVars, tasks, cur, kind, gatherVars, scan, phase2Vars>>

-----------------------------------------------------------------------------
(* Closer, collector and the caller of g.Wait.                             *)

\* go func() { wg.Wait(); close(results) }()
CloseResults ==
    /\ ~closed
    /\ \A w \in Worker : wpc[w] = "exited"
    /\ closed' = TRUE
    /\ UNCHANGED <<cancelled, walkVars, tasks, workerVars, results, collector, taken,
                   report, gerr, scan, phase2Vars>>

Collect ==
    /\ collector = "running"
    /\ \E r \in results :
          /\ results' = results \ {r}
          /\ taken' = [taken EXCEPT ![r[1]] = @ + 1]
          /\ report' = [report EXCEPT ![r[1]] = r[2]]
    /\ UNCHANGED <<cancelled, walkVars, tasks, workerVars, closed, collector, gerr, scan,
                   phase2Vars>>

CollectEnd ==
    /\ collector = "running"
    /\ closed /\ results = {}
    /\ collector' = "exited"
    /\ UNCHANGED <<cancelled, walkVars, tasks, workerVars, results, closed, taken, report,
                   gerr, scan, phase2Vars>>

\* g.Wait returns when every member of the group has.
ScanReturn ==
    /\ scan = "running"
    /\ walk = "exited" /\ collector = "exited"
    /\ \A w \in Worker : wpc[w] = "exited"
    /\ scan' = IF gerr = "none" THEN "ok" ELSE "error"
    /\ run' = IF gerr = "none" THEN "running" ELSE "error"
    /\ UNCHANGED <<cancelled, walkVars, tasks, workerVars, gatherVars, gerr, pdet, perr>>

-----------------------------------------------------------------------------
(* Phase 2.                                                                *)

PDone == {"found", "degraded", "interrupted", "aborted"}

ProjectStart_noBarrier(p) ==
    /\ scan # "error" /\ run = "running"
    /\ pdet[p] = "waiting"
    /\ \A q \in 1..(p - 1) : pdet[q] # "waiting"
    /\ Cardinality({q \in 1..Projects : pdet[q] \in {"query", "assemble"}})
         < Cardinality(Worker)
    /\ pdet' = [pdet EXCEPT ![p] = "query"]
    /\ UNCHANGED <<cancelled, phase1Vars, perr, run>>

\* g.Go in registration order; SetLimit makes it wait for a free slot.
ProjectStart(p) ==
    /\ scan = "ok" /\ run = "running"
    /\ pdet[p] = "waiting"
    /\ \A q \in 1..(p - 1) : pdet[q] # "waiting"
    /\ Cardinality({q \in 1..Projects : pdet[q] \in {"query", "assemble"}})
         < Cardinality(Worker)
    /\ pdet' = [pdet EXCEPT ![p] = "query"]
    /\ UNCHANGED <<cancelled, phase1Vars, perr, run>>

\* A detector that returns an error, or panics: its slot records an Unknown,
\* unless the context is done, which aborts the phase.
ProjectFails(p) ==
    /\ pdet' = [pdet EXCEPT ![p] = IF Ctx2Done THEN "aborted" ELSE "degraded"]
    /\ perr' = (perr \/ Ctx2Done)

\* The detector's first FilesByGlob.  The directory source refuses it when the
\* context is done, the image source never looks.
ProjectQuery(p) ==
    /\ pdet[p] = "query"
    /\ \/ /\ pdet' = [pdet EXCEPT ![p] = "assemble"]
          /\ UNCHANGED perr
       \/ ProjectFails(p)
    /\ UNCHANGED <<cancelled, phase1Vars, run>>

\* The rest of the detector.  The model-directory detector queries once more
\* for each candidate and skips the directory when that query fails, whatever
\* the failure is.
ProjectAssemble(p) ==
    /\ pdet[p] = "assemble"
    /\ \/ /\ pdet' = [pdet EXCEPT ![p] = "found"]
          /\ UNCHANGED perr
       \/ /\ Ctx2Done
          /\ pdet' = [pdet EXCEPT ![p] = "interrupted"]
          /\ UNCHANGED perr
       \/ ProjectFails(p)
    /\ UNCHANGED <<cancelled, phase1Vars, run>>

\* RunProject returns; the findings of both phases go to the assembler.
RunReturn ==
    /\ scan = "ok" /\ run = "running"
    /\ \A p \in 1..Projects : pdet[p] \in PDone
    /\ run' = IF perr THEN "error" ELSE "ok"
    /\ UNCHANGED <<cancelled, phase1Vars, pdet, perr>>

\* The command is over.
Finished ==
    /\ run # "running"
    /\ UNCHANGED vars

-----------------------------------------------------------------------------
WalkStep ==
    \/ \E f \in File : WalkOffer(f) \/ WalkSend(f) \/ WalkAbort(f)
    \/ WalkSeesCancel
    \/ WalkFatal
    \/ WalkClose
    \/ WalkExit

WorkerStep(w) ==
    Recv(w) \/ RecvClosed(w) \/ Process(w) \/ Send(w) \/ SendAbort(w)

GatherStep == CloseResults \/ Collect \/ CollectEnd \/ ScanReturn

ProjectStep(p) == ProjectStart(p) \/ ProjectQuery(p) \/ ProjectAssemble(p)

Next ==
    \/ Cancel
    \/ WalkStep
    \/ \E w \in Worker : WorkerStep(w)
    \/ GatherStep
    \/ \E p \in 1..Projects : ProjectStep(p)
    \/ RunReturn
    \/ Finished

\* Every goroutine keeps running, and detectors terminate; nobody has to
\* cancel and no source has to fail.
Fairness ==
    /\ WF_vars(WalkStep)
    /\ \A w \in Worker : WF_vars(WorkerStep(w))
    /\ WF_vars(GatherStep)
    /\ \A p \in 1..Projects : WF_vars(ProjectStep(p))
    /\ WF_vars(RunReturn)

Spec == Init /\ [][Next]_vars
FairSpec == Spec /\ Fairness

-----------------------------------------------------------------------------
(* Properties.                                                             *)

\* The range of every variable, with what the two channels may hold.
TypeOK ==
    /\ cancelled \in BOOLEAN
    /\ gerr \in {"none", "ctx", "source"}
    /\ walk \in {"walking", "closed", "exited"}
    /\ werr \in {"none", "ctx", "source"}
    /\ pending \in SUBSET File
    /\ emitting \in SUBSET File
    /\ tasks \in SUBSET File /\ Cardinality(tasks) <= TaskCap
    /\ walked \in Nat
    /\ wpc \in [Worker -> {"recv", "process", "send", "exited"}]
    /\ cur \in [Worker -> File \cup {NoFile}]
    /\ kind \in [Worker -> Kinds]
    /\ results \in SUBSET (File \X Kinds) /\ Cardinality(results) <= ResultCap
    /\ closed \in BOOLEAN
    /\ collector \in {"running", "exited"}
    /\ taken \in [File -> Nat]
    /\ report \in [File -> Kinds \cup {"none"}]
    /\ scan \in {"running", "ok", "error"}
    /\ pdet \in [1..Projects -> PDone \cup {"waiting", "query", "assemble"}]
    /\ perr \in BOOLEAN
    /\ run \in {"running", "ok", "error"}

\* No goroutine can send on a channel that has been closed: `tasks` is closed
\* once no walk callback is in its select, `results` once every worker is gone
\* (engine.go: "the deferred close cannot race a send").
NoSendOnClosed ==
    /\ walk # "walking" => emitting = {}
    /\ closed => \A w \in Worker : wpc[w] = "exited"

\* Scan returns success only with the whole walk in the outcome: every entry
\* was collected, exactly once, and FilesWalked counts exactly those.
CompleteOnSuccess ==
    scan = "ok" =>
        /\ \A f \in File : taken[f] = 1
        /\ walked = Cardinality(File)

\* The hard phase barrier: no project detector runs before phase 1 has
\* returned with every file's findings collected, so the findings view it is
\* given is complete and no longer changes.
PhaseBarrier ==
    (\E p \in 1..Projects : pdet[p] # "waiting") =>
        /\ scan = "ok"
        /\ \A f \in File : report[f] # "none"
        /\ results = {} /\ tasks = {}

\* The pipeline implements the caller's contract: one delivery per entry,
\* success only when all are delivered, an error only after a cancellation or
\* a source failure, whatever happened to single files.
Contract == INSTANCE ScanContract WITH
                delivered <- {f \in File : taken[f] > 0},
                trouble   <- cancelled \/ werr = "source",
                verdict   <- scan

ImplementsContract == Contract!ContractSpec

\* Every scan comes back, cancelled or not: no goroutine waits forever on a
\* full or empty channel, and g.Wait is released.
EveryScanReturns == <>(run # "running")

\* What RunProject's comment and the comment on its call claim of the scan: a
\* cancelled scan is an error, never a success with findings missing.  A file
\* whose detector was refused its read, and a model directory skipped because
\* the query failed, are findings missing.  No configuration checks it, the
\* code does not have it: a cancellation that comes when the walk is over is
\* met by nothing that would report it.
NoMaskedCancellation ==
    run = "ok" =>
        /\ \A f \in File : report[f] # "interrupted"
        /\ \A p \in 1..Projects : pdet[p] # "interrupted"
=============================================================================
