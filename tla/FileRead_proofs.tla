--------------------------- MODULE FileRead_proofs ---------------------------
(***************************************************************************)
(* Proofs about FileRead, for any number of workers, detectors and buffers *)
(* and any sizes: each file is read at most once, what is said of a        *)
(* content is true, and a pooled buffer has one owner.  The gate plays no  *)
(* part in them.                                                           *)
(***************************************************************************)
EXTENDS FileRead, TLAPS, FiniteSetTheorems

Places == {"idle", "detect", "gate", "open", "read", "probe", "unwind", "finish", "done"}

(* The inductive invariant.                                                *)

\* The range of every variable but the gate's.
TypeInv ==
    /\ pc \in [Client -> Places]
    /\ entry \in [Client -> Entry]
    /\ loaded \in [Client -> BOOLEAN] /\ loadErr \in [Client -> BOOLEAN]
    /\ truncated \in [Client -> BOOLEAN] /\ sha \in [Client -> BOOLEAN]
    /\ blind \in [Client -> BOOLEAN]
    /\ count \in [Client -> Nat] /\ stream \in [Client -> Nat]
    /\ seen \in [Client -> Nat] /\ opens \in [Client -> Nat]
    /\ DOMAIN det = Client /\ DOMAIN answers = Client
    /\ buf \in [Client -> Buffer \cup {None}]
    /\ pool \subseteq Buffer

\* Where a worker is tells how far load has come: loaded is set before it
\* begins, the stream is opened in its course, and nobody is answered before
\* it ends.
LoadOf(w) ==
    /\ pc[w] = "idle" => ~loaded[w]
    /\ pc[w] \in {"gate", "open", "read", "probe"} =>
          loaded[w] /\ ~loadErr[w] /\ ~sha[w] /\ ~blind[w]
    /\ pc[w] = "unwind" => loaded[w]
    /\ ~loaded[w] =>
          opens[w] = 0 /\ answers[w] = {} /\ ~loadErr[w] /\ ~sha[w] /\ ~blind[w]
    /\ pc[w] \in {"gate", "open"} => opens[w] = 0
    /\ pc[w] \in {"gate", "open", "read", "probe", "unwind"} => answers[w] = {}
    /\ opens[w] <= 1
    /\ answers[w] \subseteq {Answer(w)}

LoadInv == \A w \in Client : LoadOf(w)

\* What was read is what the stream held at that moment, up to the buffer.
ReadOf(w) == pc[w] = "probe" => count[w] = Min2(seen[w], Want(w))

ReadInv == \A w \in Client : ReadOf(w)

\* ContentHonest, for one worker.
HonestOf(w) ==
    pc[w] \in {"unwind", "detect", "finish", "done"} =>
        /\ loaded[w] /\ ~loadErr[w] =>
              /\ truncated[w] => seen[w] > count[w]
              /\ seen[w] > count[w] => truncated[w] \/ blind[w]
              /\ blind[w] => count[w] = Want(w)
        /\ sha[w] <=> loaded[w] /\ ~loadErr[w] /\ ~truncated[w]

IInv == TypeInv /\ LoadInv /\ ReadInv /\ ContentHonest /\ PoolExclusive

-----------------------------------------------------------------------------
\* A recorded size, and so the size of a buffer, is a natural number.
LEMMA WantNat == ASSUME TypeInv, NEW w \in Client PROVE Want(w) \in Nat
  BY FileReadAssumption DEF TypeInv, Want, Min2

\* A stream has a length.
LEMMA StreamNat == ASSUME NEW e \in Entry, NEW n \in StreamLengths(e) PROVE n \in Nat
<1>1. e.kind \in {"disk", "spool", "head"} /\ e.size \in Nat
  BY FileReadAssumption
<1> QED
  BY <1>1, FileReadAssumption DEF StreamLengths, Min2

\* The initial states.
LEMMA InitIInv == Init => IInv
<1> SUFFICES ASSUME Init PROVE IInv
  OBVIOUS
<1> USE DEF Init
<1>1. TypeInv
  BY DEF TypeInv, Places
<1>2. ASSUME NEW w \in Client PROVE LoadOf(w)
  <2>1. /\ pc[w] = "idle" /\ ~loaded[w] /\ ~loadErr[w] /\ ~sha[w]
        /\ ~blind[w] /\ opens[w] = 0 /\ answers[w] = {}
    OBVIOUS
  <2> HIDE DEF Init
  <2> QED
    BY <2>1 DEF LoadOf
<1>3. ReadInv
  BY DEF ReadInv, ReadOf
<1>4. ContentHonest
  BY DEF ContentHonest
<1>5. PoolExclusive
  BY DEF PoolExclusive
<1> QED
  BY <1>1, <1>2, <1>3, <1>4, <1>5 DEF IInv, LoadInv

\* Every step keeps every variable in its range.
LEMMA TypeStep == TypeInv /\ [Next]_vars => TypeInv'
<1> SUFFICES ASSUME TypeInv, [Next]_vars PROVE TypeInv'
  OBVIOUS
<1> USE FileReadAssumption DEF TypeInv, Places, fileVars, poolVars, Goto
<1>1. CASE Cancel
  BY <1>1 DEF Cancel
<1>2. ASSUME NEW w \in Client, Step(w) PROVE TypeInv'
  <2>1. CASE ReadHeader(w)
    BY <2>1 DEF ReadHeader
  <2>2. CASE DetectHeader(w)
    BY <2>2 DEF DetectHeader
  <2>3. CASE DetectLoaded(w)
    BY <2>3 DEF DetectLoaded
  <2>4. CASE Load(w)
    BY <2>4 DEF Load
  <2>5. CASE EnterGate(w)
    <3>1. CASE Goto(w, "open") /\ UNCHANGED loadErr
      BY <2>5, <3>1 DEF EnterGate
    <3>2. CASE UNCHANGED <<pc, loadErr>>
      BY <2>5, <3>2 DEF EnterGate
    <3>3. CASE LoadFails(w)
      BY <2>5, <3>3 DEF EnterGate, LoadFails
    <3> QED
      BY <2>5, <3>1, <3>2, <3>3 DEF EnterGate
  <2>6. CASE LeaveGate(w)
    <3>1. CASE Goto(w, "open") /\ UNCHANGED loadErr
      BY <2>6, <3>1 DEF LeaveGate
    <3>2. CASE LoadFails(w)
      BY <2>6, <3>2 DEF LeaveGate, LoadFails
    <3> QED
      BY <2>6, <3>1, <3>2 DEF LeaveGate
  <2>7. CASE Open(w)
    <3>1. CASE LoadFails(w) /\ UNCHANGED <<stream, opens, poolVars>>
      BY <2>7, <3>1 DEF Open, LoadFails
    <3>2. CASE ~(LoadFails(w) /\ UNCHANGED <<stream, opens, poolVars>>)
      <4>1. PICK n \in StreamLengths(entry[w]) : stream' = [stream EXCEPT ![w] = n]
        BY <2>7, <3>2 DEF Open
      <4>2. n \in Nat
        BY <4>1, StreamNat
      <4>3. stream' \in [Client -> Nat]
        BY <4>1, <4>2
      <4>4. buf' \in [Client -> Buffer \cup {None}] /\ pool' \subseteq Buffer
        <5>1. CASE UNCHANGED poolVars
          BY <5>1
        <5>2. CASE \E b \in Buffer : buf' = [buf EXCEPT ![w] = b] /\ pool' = pool \ {b}
          BY <5>2
        <5> QED
          BY <2>7, <3>2, <5>1, <5>2 DEF Open
      <4>5. pc' \in [Client -> Places]
        BY <2>7, <3>2 DEF Open
      <4>6. opens' \in [Client -> Nat] /\ UNCHANGED loadErr
        BY <2>7, <3>2 DEF Open
      <4> QED
        BY <2>7, <4>3, <4>4, <4>5, <4>6 DEF Open
    <3> QED
      BY <3>1, <3>2
  <2>8. CASE Read(w)
    <3>1. CASE LoadFails(w) /\ UNCHANGED <<count, seen>>
      BY <2>8, <3>1 DEF Read, LoadFails
    <3>2. CASE ~(LoadFails(w) /\ UNCHANGED <<count, seen>>)
      <4>1. Min2(stream[w], Want(w)) \in Nat
        BY WantNat DEF Min2
      <4>2. count' \in [Client -> Nat]
        BY <2>8, <3>2, <4>1 DEF Read
      <4>3. seen' \in [Client -> Nat]
        BY <2>8, <3>2 DEF Read
      <4>4. pc' \in [Client -> Places] /\ UNCHANGED loadErr
        BY <2>8, <3>2 DEF Read
      <4>5. UNCHANGED <<entry, loaded, truncated, sha, blind, stream, opens, det, answers,
                        buf, pool>>
        BY <2>8 DEF Read
      <4> QED
        BY <4>2, <4>3, <4>4, <4>5
    <3> QED
      BY <3>1, <3>2
  <2>9. CASE Probe(w)
    <3>1. blind' \in [Client -> BOOLEAN]
      BY <2>9 DEF Probe
    <3>6. seen' \in [Client -> Nat]
      <4>1. PICK n \in Nat : n = IF count[w] = Want(w) THEN stream[w] ELSE seen[w]
        OBVIOUS
      <4>2. UNCHANGED seen \/ seen' = [seen EXCEPT ![w] = n]
        BY <2>9, <4>1 DEF Probe
      <4> QED
        BY <4>2
    <3>2. truncated' \in [Client -> BOOLEAN]
      BY <2>9 DEF Probe
    <3>5. sha' \in [Client -> BOOLEAN]
      <4>1. PICK b \in BOOLEAN : b = ~truncated'[w]
        OBVIOUS
      <4>2. sha' = [sha EXCEPT ![w] = b]
        BY <2>9, <4>1 DEF Probe
      <4> QED
        BY <4>2
    <3>3. pc' \in [Client -> Places]
      BY <2>9 DEF Probe
    <3>4. UNCHANGED <<entry, det, loaded, loadErr, count, stream, opens, answers, buf, pool>>
      BY <2>9 DEF Probe
    <3> QED
      BY <3>1, <3>2, <3>3, <3>4, <3>5, <3>6
  <2>10. CASE Unwind(w)
    BY <2>10 DEF Unwind
  <2>11. CASE DetectEnd(w)
    BY <2>11 DEF DetectEnd
  <2>12. CASE Finish(w)
    BY <2>12 DEF Finish
  <2> QED
    BY <1>2, <2>1, <2>2, <2>3, <2>4, <2>5, <2>6, <2>7, <2>8, <2>9, <2>10, <2>11, <2>12 DEF Step
<1>3. ASSUME NEW w \in Client, Grow(w) PROVE TypeInv'
  BY <1>3 DEF Grow
<1>4. CASE UNCHANGED vars
  BY <1>4 DEF vars
<1> QED
  BY <1>1, <1>2, <1>3, <1>4 DEF Next, AllDone

\* One step of one worker, the others standing still.
LEMMA LoadStep == TypeInv /\ LoadInv /\ [Next]_vars => LoadInv'
<1> SUFFICES ASSUME TypeInv, LoadInv, [Next]_vars, NEW v \in Client PROVE LoadOf(v)'
  BY DEF LoadInv
<1>0. LoadOf(v)
  BY DEF LoadInv
<1> USE <1>0 DEF TypeInv, LoadOf, Answer, fileVars, poolVars, Goto
<1>1. CASE Cancel
  BY <1>1 DEF Cancel
<1>2. ASSUME NEW w \in Client, Step(w) PROVE LoadOf(v)'
  <2>1. CASE ReadHeader(w)
    BY <1>2, <2>1 DEF ReadHeader
  <2>2. CASE DetectHeader(w)
    BY <1>2, <2>2 DEF DetectHeader
  <2>3. CASE DetectLoaded(w)
    BY <1>2, <2>3 DEF DetectLoaded
  <2>4. CASE Load(w)
    BY <1>2, <2>4 DEF Load
  <2>5. CASE EnterGate(w)
    BY <1>2, <2>5 DEF EnterGate, LoadFails
  <2>6. CASE LeaveGate(w)
    BY <1>2, <2>6 DEF LeaveGate, LoadFails
  <2>7. CASE Open(w)
    BY <1>2, <2>7 DEF Open, LoadFails
  <2>8. CASE Read(w)
    BY <1>2, <2>8 DEF Read, LoadFails
  <2>9. CASE Probe(w)
    BY <1>2, <2>9 DEF Probe
  <2>10. CASE Unwind(w)
    BY <1>2, <2>10 DEF Unwind
  <2>11. CASE DetectEnd(w)
    BY <1>2, <2>11 DEF DetectEnd
  <2>12. CASE Finish(w)
    BY <1>2, <2>12 DEF Finish
  <2> QED
    BY <1>2, <2>1, <2>2, <2>3, <2>4, <2>5, <2>6, <2>7, <2>8, <2>9, <2>10, <2>11, <2>12 DEF Step
<1>3. ASSUME NEW w \in Client, Grow(w) PROVE LoadOf(v)'
  BY <1>3 DEF Grow
<1>4. CASE UNCHANGED vars
  BY <1>4 DEF vars
<1> QED
  BY <1>1, <1>2, <1>3, <1>4 DEF Next, AllDone

\* The probe settles whether the content is a prefix; nothing later changes it.
LEMMA HonestStep == IInv /\ [Next]_vars => ReadInv' /\ ContentHonest'
<1> SUFFICES ASSUME IInv, [Next]_vars, NEW v \in Client PROVE ReadOf(v)' /\ HonestOf(v)'
  BY DEF ReadInv, ReadOf, ContentHonest, HonestOf
<1>0. TypeInv /\ LoadOf(v) /\ ReadOf(v) /\ HonestOf(v)
  BY DEF IInv, LoadInv, ReadInv, ReadOf, ContentHonest, HonestOf
<1> USE <1>0 DEF TypeInv, LoadOf, ReadOf, HonestOf, Want, fileVars, poolVars, Goto
<1>1. CASE Cancel
  BY <1>1 DEF Cancel
<1>2. ASSUME NEW w \in Client, Step(w) PROVE ReadOf(v)' /\ HonestOf(v)'
  <2>1. CASE ReadHeader(w)
    BY <1>2, <2>1 DEF ReadHeader
  <2>2. CASE DetectHeader(w)
    BY <1>2, <2>2 DEF DetectHeader
  <2>3. CASE DetectLoaded(w)
    BY <1>2, <2>3 DEF DetectLoaded
  <2>4. CASE Load(w)
    BY <1>2, <2>4 DEF Load
  <2>5. CASE EnterGate(w)
    BY <1>2, <2>5 DEF EnterGate, LoadFails
  <2>6. CASE LeaveGate(w)
    BY <1>2, <2>6 DEF LeaveGate, LoadFails
  <2>7. CASE Open(w)
    BY <1>2, <2>7 DEF Open, LoadFails
  <2>8. CASE Read(w)
    BY <1>2, <2>8 DEF Read, LoadFails
  <2>9. CASE Probe(w)
    <3>1. CASE v # w
      BY <1>2, <2>9, <3>1 DEF Probe
    <3>2. CASE v = w
      <4>1. Want(w) \in Nat /\ count[w] \in Nat /\ seen[w] \in Nat /\ stream[w] \in Nat
        BY <1>2, WantNat
      <4>2. count[w] = Min2(seen[w], Want(w)) /\ loaded[w] /\ ~loadErr[w]
        BY <2>9, <3>2 DEF Probe
      <4>3. count[w] # Want(w) => ~(seen[w] > count[w])
        BY <4>1, <4>2 DEF Min2
      <4> QED
        BY <2>9, <3>2, <4>1, <4>2, <4>3 DEF Probe
    <3> QED
      BY <3>1, <3>2
  <2>10. CASE Unwind(w)
    BY <1>2, <2>10 DEF Unwind
  <2>11. CASE DetectEnd(w)
    BY <1>2, <2>11 DEF DetectEnd
  <2>12. CASE Finish(w)
    BY <1>2, <2>12 DEF Finish
  <2> QED
    BY <1>2, <2>1, <2>2, <2>3, <2>4, <2>5, <2>6, <2>7, <2>8, <2>9, <2>10, <2>11, <2>12 DEF Step
<1>3. ASSUME NEW w \in Client, Grow(w) PROVE ReadOf(v)' /\ HonestOf(v)'
  BY <1>3 DEF Grow
<1>4. CASE UNCHANGED vars
  BY <1>4 DEF vars
<1> QED
  BY <1>1, <1>2, <1>3, <1>4 DEF Next, AllDone

\* Only Open and Finish move a buffer.
LEMMA PoolStep == TypeInv /\ PoolExclusive /\ [Next]_vars => PoolExclusive'
<1> SUFFICES ASSUME TypeInv, PoolExclusive, [Next]_vars PROVE PoolExclusive'
  OBVIOUS
<1> USE FileReadAssumption DEF TypeInv, PoolExclusive, poolVars, fileVars
<1>1. CASE UNCHANGED poolVars
  BY <1>1
<1>2. ASSUME NEW w \in Client, Open(w), ~UNCHANGED poolVars PROVE PoolExclusive'
  <2>1. PICK b \in Buffer :
          /\ b \in pool \/ \A v \in Client : buf[v] # b
          /\ buf' = [buf EXCEPT ![w] = b] /\ pool' = pool \ {b}
    BY <1>2 DEF Open
  <2> QED
    BY <2>1
<1>3. ASSUME NEW w \in Client, Finish(w) PROVE PoolExclusive'
  BY <1>3 DEF Finish
<1>4. ASSUME NEW w \in Client, Step(w) \/ Grow(w), ~Open(w), ~Finish(w) PROVE UNCHANGED poolVars
  BY <1>4 DEF Step, Grow, ReadHeader, DetectHeader, DetectLoaded, Load, EnterGate, LeaveGate,
              Read, Probe, Unwind, DetectEnd
<1> QED
  BY <1>1, <1>2, <1>3, <1>4 DEF Next, AllDone, Cancel, vars

-----------------------------------------------------------------------------
\* FileRead keeps its inductive invariant.
THEOREM Invariance == Spec => []IInv
<1>1. Init => IInv
  BY InitIInv
<1>2. IInv /\ [Next]_vars => IInv'
  BY TypeStep, LoadStep, HonestStep, PoolStep DEF IInv
<1> QED
  BY <1>1, <1>2, PTL DEF Spec

\* However many detectors ask, a file is opened for its content at most once
\* and every detector is told the same.
THEOREM OneRead == Spec => []ReadOnce
<1>1. IInv => ReadOnce
  <2> SUFFICES ASSUME IInv, NEW w \in Client
               PROVE  opens[w] <= 1 /\ Cardinality(answers[w]) <= 1
    BY DEF ReadOnce
  <2>1. opens[w] <= 1 /\ answers[w] \subseteq {Answer(w)}
    BY DEF IInv, LoadInv, LoadOf
  <2>2. answers[w] = {} \/ answers[w] = {Answer(w)}
    BY <2>1
  <2>3. Cardinality(answers[w]) \in {0, 1}
    <3>1. CASE answers[w] = {}
      BY <3>1, FS_EmptySet
    <3>2. CASE answers[w] = {Answer(w)}
      BY <3>2, FS_Singleton
    <3> QED
      BY <2>2, <3>1, <3>2
  <2> QED
    BY <2>1, <2>3
<1> QED
  BY <1>1, Invariance, PTL

\* What is said of a content is true of the stream it was read from, but for a
\* full buffer behind which the probe reported nothing.
THEOREM Honesty == Spec => []ContentHonest
<1>1. IInv => ContentHonest
  BY DEF IInv
<1> QED
  BY <1>1, Invariance, PTL

\* A pooled buffer has one owner, and is not idle while it has one.
THEOREM OneOwner == Spec => []PoolExclusive
<1>1. IInv => PoolExclusive
  BY DEF IInv
<1> QED
  BY <1>1, Invariance, PTL
=============================================================================
