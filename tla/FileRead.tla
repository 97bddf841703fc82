------------------------------ MODULE FileRead ------------------------------
(***************************************************************************)
(* What one worker does with one file: processEntry                        *)
(* (internal/engine/engine.go), the read-once context it builds            *)
(* (internal/filectx/filectx.go) and the matched detectors that share it   *)
(* (Process in internal/dispatch/dispatch.go), with the workers competing  *)
(* for the I/O gate and for pooled content buffers.                        *)
(*                                                                         *)
(* Sizes are counted in a coarse unit.  An entry has the size the walk     *)
(* recorded, a kind, and its true size.  Opening it yields a stream:       *)
(*   "disk"   the file as it is now, which may have grown or shrunk        *)
(*   "spool"  an image file copied whole                                   *)
(*   "head"   an image file too large to copy: only its first HeadSize units   *)
(***************************************************************************)
EXTENDS IOGate, FiniteSets, Functions

CONSTANTS Entry,     \* [kind, size] records, what a worker may be handed
          Detectors, \* number of detectors matched, run in order
          Cap,       \* --max-file-size
          GateMin,   \* reads above this pass the gate (1 MiB in the code)
          PoolSize,  \* capacity of a pooled buffer
          Buffer,    \* identities of pooled buffers
          HeadSize,  \* headSize of the image spool
          MaxLen,    \* bound on what a file on disk may grow to
          None

ASSUME FileReadAssumption ==
    /\ Entry \subseteq [kind : {"disk", "spool", "head"}, size : Nat]
    /\ Detectors \in Nat /\ Cap \in Nat \ {0} /\ GateMin \in Nat
    /\ PoolSize \in Nat /\ HeadSize \in Nat /\ MaxLen \in Nat
    /\ Budget \in Nat \ {0}
    /\ None \notin Buffer

VARIABLES
    cancelled,  \* the scan's context is done
    pc,         \* per worker: where it is in processEntry
    entry,      \* per worker: the entry it was handed
    det,        \* per worker: detectors run so far
    loaded,     \* filectx: Content has been called
    loadErr,    \* filectx: its memoised error
    count,      \* filectx: units read
    truncated,  \* filectx: the content is a prefix of the stream
    sha,        \* filectx: a SHA-256 of the file is on offer
    blind,      \* per worker: the probe was tried and reported nothing (history)
    stream,     \* per worker: length of the opened stream
    seen,       \* per worker: that length when the stream was last read from
    opens,      \* per worker: streams opened for content
    answers,    \* per worker: what the detectors were told of the content
    buf,        \* per worker: the pooled buffer it borrowed
    pool        \* idle pooled buffers

fileVars == <<entry, det, loaded, loadErr, count, truncated, sha, blind, stream, seen, opens,
              answers>>
poolVars == <<buf, pool>>
vars == <<cancelled, pc, fileVars, poolVars, gateVars>>

Min2(a, b) == IF a < b THEN a ELSE b

\* The size of the buffer load asks for.
Want(w) == Min2(entry[w].size, Cap)

Init ==
    /\ GateInit
    /\ cancelled = FALSE
    /\ pc = [w \in Client |-> "idle"]
    /\ entry \in [Client -> Entry]
    /\ det = [w \in Client |-> 0]
    /\ loaded = [w \in Client |-> FALSE]
    /\ loadErr = [w \in Client |-> FALSE]
    /\ count = [w \in Client |-> 0]
    /\ truncated = [w \in Client |-> FALSE]
    /\ sha = [w \in Client |-> FALSE]
    /\ blind = [w \in Client |-> FALSE]
    /\ stream = [w \in Client |-> 0]
    /\ seen = [w \in Client |-> 0]
    /\ opens = [w \in Client |-> 0]
    /\ answers = [w \in Client |-> {}]
    /\ buf = [w \in Client |-> None]
    /\ pool = {}

Cancel ==
    /\ ~cancelled
    /\ cancelled' = TRUE
    /\ UNCHANGED <<pc, fileVars, poolVars, gateVars>>

Goto(w, where) == pc' = [pc EXCEPT ![w] = where]

\* The header read: it fails, and the file is an Unknown, or the detectors run.
ReadHeader(w) ==
    /\ pc[w] = "idle"
    /\ \E where \in {"finish", "detect"} : Goto(w, where)
    /\ UNCHANGED <<cancelled, fileVars, poolVars, gateVars>>

\* The next matched detector runs without the content: on the header alone,
\* returning findings or an error, or panicking before it asks.  runOne turns
\* the panic into an error, and the next detector's turn comes.
DetectHeader(w) ==
    /\ pc[w] = "detect" /\ det[w] < Detectors
    /\ det' = [det EXCEPT ![w] = @ + 1]
    /\ UNCHANGED <<cancelled, pc, entry, loaded, loadErr, count, truncated, sha, blind, stream, seen,
                   opens, answers, poolVars, gateVars>>

\* What Content returns once load has run.
Answer(w) == [err |-> loadErr[w], count |-> count[w], truncated |-> truncated[w]]

\* Content, memoised: buffer, flag and error of the first call.
DetectLoaded(w) ==
    /\ pc[w] = "detect" /\ det[w] < Detectors
    /\ loaded[w]
    /\ det' = [det EXCEPT ![w] = @ + 1]
    /\ answers' = [answers EXCEPT ![w] = @ \cup {Answer(w)}]
    /\ UNCHANGED <<cancelled, pc, entry, loaded, loadErr, count, truncated, sha, blind, stream, seen,
                   opens, poolVars, gateVars>>

Load_retriesErrors(w) ==
    /\ pc[w] = "detect" /\ det[w] < Detectors
    /\ ~loaded[w] \/ loadErr[w]
    /\ loaded' = [loaded EXCEPT ![w] = TRUE]
    /\ loadErr' = [loadErr EXCEPT ![w] = FALSE]
    /\ truncated' = [truncated EXCEPT ![w] = entry[w].size > Cap]
    /\ Goto(w, IF Want(w) > GateMin THEN "gate" ELSE "open")
    /\ UNCHANGED <<cancelled, entry, det, count, sha, blind, stream, seen, opens, answers, poolVars,
                   gateVars>>

\* Content for the first time: loaded is set before anything can fail, and
\* truncated provisionally from the recorded size.
Load(w) ==
    /\ pc[w] = "detect" /\ det[w] < Detectors
    /\ ~loaded[w]
    /\ loaded' = [loaded EXCEPT ![w] = TRUE]
    /\ truncated' = [truncated EXCEPT ![w] = entry[w].size > Cap]
    /\ Goto(w, IF Want(w) > GateMin THEN "gate" ELSE "open")
    /\ UNCHANGED <<cancelled, entry, det, loadErr, count, sha, blind, stream, seen, opens, answers,
                   poolVars, gateVars>>

-----------------------------------------------------------------------------
(* load.                                                                   *)

LoadFails(w) ==
    /\ loadErr' = [loadErr EXCEPT ![w] = TRUE]
    /\ Goto(w, "unwind")

\* The gate: granted, or wait for it, or refused because the context is done.
EnterGate(w) ==
    /\ pc[w] = "gate" /\ ~Waiting(w)
    /\ \/ /\ GateAcquire(w, Want(w))
          /\ Goto(w, "open")
          /\ UNCHANGED loadErr
       \/ /\ GateEnqueue(w, Want(w))
          /\ UNCHANGED <<pc, loadErr>>
       \/ /\ cancelled
          /\ LoadFails(w)
          /\ UNCHANGED gateVars
    /\ UNCHANGED <<cancelled, entry, det, loaded, count, truncated, sha, blind, stream, seen, opens,
                   answers, poolVars>>

LeaveGate(w) ==
    /\ pc[w] = "gate" /\ Waiting(w)
    /\ \/ /\ GateWake(w)
          /\ Goto(w, "open")
          /\ UNCHANGED loadErr
       \/ /\ cancelled
          /\ GateAbandon(w)
          /\ LoadFails(w)
    /\ UNCHANGED <<cancelled, entry, det, loaded, count, truncated, sha, blind, stream, seen, opens,
                   answers, poolVars>>

\* What a fresh stream of the entry may hold.
StreamLengths(e) ==
    CASE e.kind = "disk"  -> 0..MaxLen
      [] e.kind = "spool" -> {e.size}
      [] e.kind = "head"  -> {Min2(e.size, HeadSize)}

\* open() fails, or yields a stream and load borrows its buffer: a pooled one,
\* idle or new, when the buffer is small enough.
Open(w) ==
    /\ pc[w] = "open"
    /\ \/ /\ LoadFails(w)
          /\ UNCHANGED <<stream, opens, poolVars>>
       \/ /\ \E n \in StreamLengths(entry[w]) : stream' = [stream EXCEPT ![w] = n]
          /\ opens' = [opens EXCEPT ![w] = @ + 1]
          /\ Goto(w, "read")
          /\ IF Want(w) <= PoolSize
             THEN \E b \in Buffer :
                     /\ b \in pool \/ \A v \in Client : buf[v] # b
                     /\ buf' = [buf EXCEPT ![w] = b]
                     /\ pool' = pool \ {b}
             ELSE UNCHANGED poolVars
          /\ UNCHANGED loadErr
    /\ UNCHANGED <<cancelled, entry, det, loaded, count, truncated, sha, blind, seen, answers, gateVars>>

\* A file on disk is appended to while it is being read.
Grow(w) ==
    /\ pc[w] \in {"read", "probe"}
    /\ entry[w].kind = "disk" /\ stream[w] < MaxLen
    /\ stream' = [stream EXCEPT ![w] = @ + 1]
    /\ UNCHANGED <<cancelled, pc, entry, det, loaded, loadErr, count, truncated, sha, blind, seen,
                   opens, answers, poolVars, gateVars>>

Read_returnsBuffer(w) ==
    /\ pc[w] = "read"
    /\ \/ /\ LoadFails(w)
          /\ pool' = pool \cup ({buf[w]} \ {None})
          /\ UNCHANGED <<count, seen>>
       \/ /\ count' = [count EXCEPT ![w] = Min2(stream[w], Want(w))]
          /\ seen' = [seen EXCEPT ![w] = stream[w]]
          /\ Goto(w, "probe")
          /\ UNCHANGED <<loadErr, pool>>
    /\ UNCHANGED <<cancelled, entry, det, loaded, truncated, sha, blind, stream, opens, answers,
                   buf, gateVars>>

\* io.ReadFull: an error, or everything up to the size of the buffer.
Read(w) ==
    /\ pc[w] = "read"
    /\ \/ /\ LoadFails(w)
          /\ UNCHANGED <<count, seen>>
       \/ /\ count' = [count EXCEPT ![w] = Min2(stream[w], Want(w))]
          /\ seen' = [seen EXCEPT ![w] = stream[w]]
          /\ Goto(w, "probe")
          /\ UNCHANGED loadErr
    /\ UNCHANGED <<cancelled, entry, det, loaded, truncated, sha, blind, stream, opens, answers,
                   poolVars, gateVars>>

Probe_trustsSize(w) ==
    /\ pc[w] = "probe"
    /\ seen' = [seen EXCEPT ![w] = IF count[w] = Want(w) THEN stream[w] ELSE @]
    /\ truncated' = [truncated EXCEPT ![w] = entry[w].size > Cap]
    /\ sha' = [sha EXCEPT ![w] = ~truncated'[w]]
    /\ Goto(w, "unwind")
    /\ UNCHANGED <<cancelled, entry, det, loaded, loadErr, count, blind, stream, opens, answers,
                   poolVars, gateVars>>

\* When the buffer was filled, one more byte decides whether the content is a
\* prefix; the hash is offered only when it is not.  The error of that read is
\* dropped: one that fails, or returns nothing, says the same as an end of file.
Probe(w) ==
    /\ pc[w] = "probe"
    /\ \/ /\ seen' = [seen EXCEPT ![w] = IF count[w] = Want(w) THEN stream[w] ELSE @]
          /\ truncated' = [truncated EXCEPT ![w] = count[w] = Want(w) /\ stream[w] > count[w]]
          /\ UNCHANGED blind
       \/ /\ count[w] = Want(w)
          /\ truncated' = [truncated EXCEPT ![w] = FALSE]
          /\ blind' = [blind EXCEPT ![w] = TRUE]
          /\ UNCHANGED seen
    /\ sha' = [sha EXCEPT ![w] = ~truncated'[w]]
    /\ Goto(w, "unwind")
    /\ UNCHANGED <<cancelled, entry, det, loaded, loadErr, count, stream, opens, answers,
                   poolVars, gateVars>>

\* load's deferred release, and the detector that asked gets its answer.  It
\* may return findings, an error or a panic; the next detector's turn comes.
Unwind(w) ==
    /\ pc[w] = "unwind"
    /\ GateRelease(w)
    /\ det' = [det EXCEPT ![w] = @ + 1]
    /\ answers' = [answers EXCEPT ![w] = @ \cup {Answer(w)}]
    /\ Goto(w, "detect")
    /\ UNCHANGED <<cancelled, entry, loaded, loadErr, count, truncated, sha, blind, stream, seen, opens,
                   poolVars>>

\* Every detector has had its turn.
DetectEnd(w) ==
    /\ pc[w] = "detect" /\ det[w] = Detectors
    /\ Goto(w, "finish")
    /\ UNCHANGED <<cancelled, fileVars, poolVars, gateVars>>

\* processEntry's deferred Release: a borrowed buffer goes back to the pool.
Finish(w) ==
    /\ pc[w] = "finish"
    /\ pool' = pool \cup ({buf[w]} \ {None})
    /\ buf' = [buf EXCEPT ![w] = None]
    /\ Goto(w, "done")
    /\ UNCHANGED <<cancelled, fileVars, gateVars>>

AllDone ==
    /\ \A w \in Client : pc[w] = "done"
    /\ UNCHANGED vars

-----------------------------------------------------------------------------
Step(w) ==
    \/ ReadHeader(w) \/ DetectHeader(w) \/ DetectLoaded(w) \/ Load(w)
    \/ EnterGate(w) \/ LeaveGate(w) \/ Open(w) \/ Read(w) \/ Probe(w)
    \/ Unwind(w) \/ DetectEnd(w) \/ Finish(w)

Next == Cancel \/ (\E w \in Client : Step(w) \/ Grow(w)) \/ AllDone

Spec == Init /\ [][Next]_vars
FairSpec == Spec /\ \A w \in Client : WF_vars(Step(w))

-----------------------------------------------------------------------------
(* Properties.                                                             *)

\* The range of every variable; a worker's content never outgrows the cap.
TypeOK ==
    /\ cancelled \in BOOLEAN
    /\ pc \in [Client -> {"idle", "detect", "gate", "open", "read", "probe",
                          "unwind", "finish", "done"}]
    /\ entry \in [Client -> Entry]
    /\ det \in [Client -> 0..Detectors]
    /\ loaded \in [Client -> BOOLEAN]
    /\ loadErr \in [Client -> BOOLEAN]
    /\ count \in [Client -> 0..Cap]
    /\ truncated \in [Client -> BOOLEAN]
    /\ sha \in [Client -> BOOLEAN]
    /\ blind \in [Client -> BOOLEAN]
    /\ stream \in [Client -> Nat]
    /\ seen \in [Client -> Nat]
    /\ opens \in [Client -> Nat]
    /\ answers \in [Client ->
          SUBSET [err : BOOLEAN, count : 0..Cap, truncated : BOOLEAN]]
    /\ buf \in [Client -> Buffer \cup {None}]
    /\ pool \in SUBSET Buffer
    /\ inUse \in Nat
    /\ held \in [Client -> Nat]
    /\ queue \in Seq(Client \X Nat)

\* filectx's "THE single bounded content read": however many detectors ask,
\* in whatever order, and whatever failed, a file is opened for its content at
\* most once and every detector is told the same.
ReadOnce ==
    \A w \in Client : opens[w] <= 1 /\ Cardinality(answers[w]) <= 1

\* A content called a prefix is one, whatever the walk recorded and however the
\* file grew or shrank meanwhile.  One called whole is all the stream held,
\* unless the probe reported nothing: then it fills the buffer, and nobody
\* knows.  A hash is offered for a content called whole, and for no other.
ContentHonest ==
    \A w \in Client : pc[w] \in {"unwind", "detect", "finish", "done"} =>
        /\ loaded[w] /\ ~loadErr[w] =>
              /\ truncated[w] => seen[w] > count[w]
              /\ seen[w] > count[w] => truncated[w] \/ blind[w]
              /\ blind[w] => count[w] = Want(w)
        /\ sha[w] <=> loaded[w] /\ ~loadErr[w] /\ ~truncated[w]

\* A pooled buffer belongs to one worker from its borrowing to its release: it
\* is never handed to another one, nor idle, while a detector may look at it.
PoolExclusive ==
    \A w \in Client : buf[w] # None =>
        /\ buf[w] \notin pool
        /\ \A v \in Client \ {w} : buf[v] # buf[w]

\* The clamp at work: every file is finished, however large it is, without
\* anybody cancelling the scan.
EveryFileFinishes == <>(\A w \in Client : pc[w] = "done")

\* "a prefix hash must never masquerade as a file hash" (SHA256 in
\* filectx.go): an offered hash covers the file of the size the walk recorded,
\* unless the file itself changed on disk.
HashCoversFile ==
    \A w \in Client :
        sha[w] /\ entry[w].kind # "disk" => count[w] = entry[w].size
=============================================================================
