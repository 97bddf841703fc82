---------------------------- MODULE Rules_proofs ----------------------------
(***************************************************************************)
(* Proofs about rules.                                                     *)
(*  - The bundle cache (RuleSync), for every number of processes and       *)
(*    versions and every interval, mirrored or not.                        *)
(*  - The rules a scan runs (Detect, RuleEngine), for any packs, bundle    *)
(*    and files of the user (LastLayerDecides).                            *)
(***************************************************************************)
EXTENDS RuleSync, Detect, SequenceTheorems, WellFoundedInduction, TLAPS

\* Positions behind the manifest, where `got` names a version.
Behind == {"tarball", "remove", "removing", "rename", "write", "writing"}

(* The inductive invariant: TypeOK and the parts below.                    *)

\* Nothing unverified is in any hands, nor on the disk.
GenuineInv ==
    ~InsecureSkipSignature =>
        /\ \A p \in Proc : ~forged[p]
        /\ \A v \in Version : dir[v] # "forged"

\* A process writes the pointer only to a version it renamed into place.
PointerInv ==
    /\ current \in Version => current \in installed
    /\ \A p \in Proc : pc[p] \in {"write", "writing"} => got[p] \in installed

\* An automatic update asks for the one version it found newer, and no process
\* starts as one.
PinInv ==
    \A p \in Proc :
        /\ pc[p] = "idle" => ~auto[p]
        /\ auto[p] /\ pc[p] = "manifest" => want[p] # 0 /\ isNewer(want[p], from[p])
        /\ auto[p] /\ pc[p] \in Behind => isNewer(got[p], from[p])

\* Who was not overtaken finds the pointer as it was when it looked.
LookInv ==
    \A p \in Proc :
        /\ pc[p] \in {"idle", "active"} => from[p] = 0
        /\ auto[p] /\ from[p] # 0 /\ p \notin overtaken /\ pc[p] # "writing"
            => current = from[p]

\* What autocheck.json says is how long ago the check that ended last began.
ClockInv == ~lost /\ (\A p \in Proc : pc[p] # "clocking") => stamp = ended

IInv ==
    /\ TypeOK
    /\ GenuineInv
    /\ PointerInv
    /\ PinInv
    /\ LookInv
    /\ ClockInv

-----------------------------------------------------------------------------
\* No version is 0 or the torn pointer.
LEMMA Versions == /\ 0 \notin Version /\ Torn \notin Version
                  /\ Version \subseteq Nat /\ MaxVersion \in Nat \ {0}
  BY RuleSyncAssumption DEF Version, Torn

\* An age stays in its range.
LEMMA Ages == /\ 0 \in 0..Interval /\ Interval \in 0..Interval
              /\ \A a \in 0..Interval : Older(a) \in 0..Interval
  BY RuleSyncAssumption DEF Older

\* The initial states.
LEMMA InitIInv == Init => IInv
<1> SUFFICES ASSUME Init PROVE IInv
  OBVIOUS
<1> USE DEF Init
<1>1. TypeOK
  <2>1. latest \in Version /\ current \in Version \cup {0, Torn} /\ installed \in SUBSET Version
    OBVIOUS
  <2>2. stamp \in 0..Interval /\ ended \in 0..Interval /\ lost \in BOOLEAN
    BY Ages
  <2>3. dir \in [Version -> {"absent", "partial", "genuine", "forged"}]
    OBVIOUS
  <2>4. /\ pc \in [Proc -> {"idle", "active", "latest", "manifest", "tarball", "remove",
                           "removing", "rename", "write", "writing", "clock", "clocking"}]
        /\ \A p \in Proc : pc[p] \notin {"tarball", "remove", "removing", "rename", "write",
                                        "writing"}
    OBVIOUS
  <2>5. /\ auto \in [Proc -> BOOLEAN] /\ forged \in [Proc -> BOOLEAN]
        /\ overtaken \in SUBSET Proc
    OBVIOUS
  <2>6. /\ want \in [Proc -> Version \cup {0}] /\ from \in [Proc -> Version \cup {0}]
        /\ got \in [Proc -> Version \cup {0}]
    OBVIOUS
  <2>7. age \in [Proc -> 0..Interval]
    BY Ages
  <2> QED
    BY <2>1, <2>2, <2>3, <2>4, <2>5, <2>6, <2>7 DEF TypeOK
<1>2. GenuineInv
  BY DEF GenuineInv
<1>3. PointerInv
  BY Versions DEF PointerInv
<1>4. PinInv
  BY DEF PinInv, Behind
<1>5. LookInv
  BY DEF LookInv
<1>6. ClockInv
  BY DEF ClockInv
<1> QED
  BY <1>1, <1>2, <1>3, <1>4, <1>5, <1>6 DEF IInv

\* A process that ends has its variables in their ranges.
LEMMA ExitType ==
    ASSUME TypeOK, NEW p \in Proc, Exit(p)
    PROVE  /\ pc' = [pc EXCEPT ![p] = "idle"]
           /\ auto' = [auto EXCEPT ![p] = FALSE]
           /\ from' = [from EXCEPT ![p] = 0]
           /\ forged' = [forged EXCEPT ![p] = FALSE]
           /\ auto' \in [Proc -> BOOLEAN] /\ age' \in [Proc -> 0..Interval]
           /\ want' \in [Proc -> Version \cup {0}] /\ from' \in [Proc -> Version \cup {0}]
           /\ got' \in [Proc -> Version \cup {0}] /\ forged' \in [Proc -> BOOLEAN]
           /\ \A q \in Proc \ {p} : got'[q] = got[q] /\ want'[q] = want[q]
  BY Ages DEF TypeOK, Exit, Return, Goto

\* So has one whose update is over.
LEMMA FinishType ==
    ASSUME TypeOK, NEW p \in Proc, Finish(p)
    PROVE  /\ pc' = [pc EXCEPT ![p] = IF auto[p] THEN "clock" ELSE "idle"]
           /\ auto' = auto
           /\ from' = [from EXCEPT ![p] = 0]
           /\ forged' = [forged EXCEPT ![p] = FALSE]
           /\ age' \in [Proc -> 0..Interval]
           /\ want' \in [Proc -> Version \cup {0}] /\ from' \in [Proc -> Version \cup {0}]
           /\ got' \in [Proc -> Version \cup {0}] /\ forged' \in [Proc -> BOOLEAN]
           /\ \A q \in Proc \ {p} : got'[q] = got[q] /\ want'[q] = want[q]
<1>1. CASE auto[p]
  BY <1>1 DEF TypeOK, Finish, Return, Goto
<1>2. CASE ~auto[p]
  <2>1. Exit(p)
    BY <1>2 DEF Finish
  <2>2. auto' = auto
    BY <1>2, <2>1, ExitType DEF TypeOK
  <2> QED
    BY <1>2, <2>1, <2>2, ExitType
<1> QED
  BY <1>1, <1>2

\* Every step keeps every variable in its range.
LEMMA TypeStep == IInv /\ [Next]_vars => TypeOK'
<1> SUFFICES ASSUME IInv, [Next]_vars PROVE TypeOK'
  OBVIOUS
<1> USE RuleSyncAssumption, Versions, Ages DEF TypeOK, diskVars, clockVars, procVars, Goto
<1>0. TypeOK
  BY DEF IInv
<1>1. CASE ChannelMoves
  BY <1>0, <1>1 DEF ChannelMoves
<1>2. CASE TimePasses
  <2>1. stamp' \in 0..Interval /\ ended' \in 0..Interval
    BY <1>0, <1>2 DEF TimePasses
  <2>2. age' \in [Proc -> 0..Interval]
    BY <1>0, <1>2 DEF TimePasses
  <2>3. UNCHANGED <<latest, diskVars, lost, pc, auto, want, from, got, forged, overtaken>>
    BY <1>2 DEF TimePasses
  <2> QED
    BY <1>0, <2>1, <2>2, <2>3
<1>3. ASSUME NEW p \in Proc, Step(p) PROVE TypeOK'
  <2>1. CASE AutoStart(p)
    <3>1. UNCHANGED <<latest, stamp, ended, diskVars, want, from, got, forged, overtaken>>
      BY <2>1 DEF AutoStart
    <3>2. lost' \in BOOLEAN
      BY <1>0, <2>1 DEF AutoStart
    <3>3. CASE UNCHANGED <<pc, auto, age>>
      BY <1>0, <3>1, <3>2, <3>3
    <3>4. CASE ~UNCHANGED <<pc, auto, age>>
      <4>1. /\ pc' = [pc EXCEPT ![p] = "active"]
            /\ auto' = [auto EXCEPT ![p] = TRUE] /\ age' = [age EXCEPT ![p] = 0]
        BY <2>1, <3>4 DEF AutoStart
      <4> QED
        BY <1>0, <3>1, <3>2, <4>1
    <3> QED
      BY <3>3, <3>4
  <2>2. CASE AutoActive(p)
    BY <1>0, <2>2 DEF AutoActive, Active
  <2>3. CASE AutoLatest(p)
    <3>1. PICK v \in Version :
             \/ /\ want' = [want EXCEPT ![p] = v] /\ Goto(p, "manifest")
                /\ UNCHANGED <<auto, age, from, got, forged, overtaken>>
             \/ Finish(p) /\ overtaken' = overtaken \ {p}
      BY <1>0, <2>3 DEF AutoLatest
    <3>2. UNCHANGED <<latest, clockVars, diskVars>>
      BY <2>3 DEF AutoLatest
    <3>3. CASE UNCHANGED <<auto, age, from, got, forged, overtaken>> /\ Goto(p, "manifest")
               /\ want' = [want EXCEPT ![p] = v]
      BY <1>0, <3>2, <3>3
    <3>4. CASE Finish(p) /\ overtaken' = overtaken \ {p}
      BY <1>0, <3>2, <3>4, FinishType
    <3> QED
      BY <3>1, <3>3, <3>4
  <2>4. CASE ClockBegin(p)
    <3>1. UNCHANGED <<latest, diskVars, overtaken>>
      BY <2>4 DEF ClockBegin
    <3>2. CASE Exit(p)
      <4>1. \/ ended' = age[p] /\ lost' = TRUE /\ UNCHANGED stamp
            \/ UNCHANGED <<ended, lost>> /\ stamp' = Interval
        BY <2>4 DEF ClockBegin
      <4>2. lost' \in BOOLEAN
        BY <1>0, <4>1
      <4>3. age[p] \in 0..Interval
        BY <1>0
      <4>4. stamp' \in 0..Interval /\ ended' \in 0..Interval
        BY <1>0, <4>1, <4>3
      <4> QED
        BY <1>0, <3>1, <3>2, <4>2, <4>4, ExitType
    <3>3. CASE ~Exit(p)
      BY <1>0, <2>4, <3>1, <3>3 DEF ClockBegin
    <3> QED
      BY <3>2, <3>3
  <2>5. CASE ClockEnd(p)
    <3>1. Exit(p) /\ UNCHANGED <<latest, diskVars, overtaken>>
      BY <2>5 DEF ClockEnd
    <3>2. ended' = age[p] /\ stamp' \in {stamp, age[p]} /\ lost' \in BOOLEAN
      BY <2>5 DEF ClockEnd
    <3>3. age[p] \in 0..Interval /\ stamp \in 0..Interval
      BY <1>0
    <3> QED
      BY <1>0, <3>1, <3>2, <3>3, ExitType
  <2>6. CASE UpdateStart(p)
    BY <1>0, <2>6 DEF UpdateStart
  <2>7. CASE FetchManifest(p)
    BY <1>0, <2>7 DEF FetchManifest
  <2>8. CASE FetchBundle(p)
    BY <1>0, <2>8 DEF FetchBundle
  <2>9. CASE RemoveBegin(p)
    BY <1>0, <2>9 DEF RemoveBegin
  <2>10. CASE RemoveEnd(p)
    BY <1>0, <2>10 DEF RemoveEnd
  <2>11. CASE Rename(p)
    BY <1>0, <2>11 DEF Rename
  <2>12. CASE WriteBegin(p)
    BY <1>0, <2>12 DEF WriteBegin, Others
  <2>13. CASE WriteEnd(p)
    <3>1. Finish(p) /\ UNCHANGED <<latest, clockVars, dir, installed>>
      BY <2>13 DEF WriteEnd
    <3>2. current' \in Version \cup {0, Torn} /\ overtaken' \in SUBSET Proc
      BY <1>0, <2>13 DEF WriteEnd, Others
    <3> QED
      BY <1>0, <3>1, <3>2, FinishType
  <2>14. CASE Fails(p)
    <3>1. Finish(p) /\ overtaken' = overtaken \ {p} /\ UNCHANGED <<latest, clockVars, diskVars>>
      BY <2>14 DEF Fails
    <3> QED
      BY <1>0, <3>1, FinishType
  <2>15. CASE Crash(p)
    <3>1. Exit(p) /\ overtaken' = overtaken \ {p} /\ UNCHANGED <<latest, stamp, ended, diskVars>>
      BY <2>15 DEF Crash
    <3>2. lost' \in BOOLEAN
      BY <1>0, <2>15 DEF Crash
    <3> QED
      BY <1>0, <3>1, <3>2, ExitType
  <2> QED
    BY <1>3, <2>1, <2>2, <2>3, <2>4, <2>5, <2>6, <2>7, <2>8, <2>9, <2>10, <2>11,
       <2>12, <2>13, <2>14, <2>15 DEF Step
<1>4. CASE UNCHANGED vars
  BY <1>0, <1>4 DEF vars
<1> QED
  BY <1>1, <1>2, <1>3, <1>4 DEF Next

\* A manifest that verifies is genuine, and only a rename fills a directory.
LEMMA GenuineStep == IInv /\ [Next]_vars => GenuineInv'
<1> SUFFICES ASSUME IInv, [Next]_vars PROVE GenuineInv'
  OBVIOUS
<1> USE DEF GenuineInv, diskVars, clockVars, procVars, Goto
<1>0. TypeOK /\ GenuineInv
  BY DEF IInv
<1>1. CASE ChannelMoves \/ TimePasses
  BY <1>0, <1>1, Versions DEF ChannelMoves, TimePasses, TypeOK
<1>2. ASSUME NEW p \in Proc, Step(p) PROVE GenuineInv'
  <2>1. CASE AutoStart(p) \/ AutoActive(p) \/ UpdateStart(p)
    BY <1>0, <2>1, Versions DEF TypeOK, AutoStart, AutoActive, UpdateStart
  <2>2. CASE UNCHANGED dir /\ (Exit(p) \/ Finish(p))
    BY <1>0, <2>2, ExitType, FinishType DEF TypeOK
  <2>3. CASE FetchManifest(p)
    BY <1>0, <2>3, Versions DEF TypeOK, FetchManifest
  <2>4. CASE FetchBundle(p) \/ WriteBegin(p)
    BY <1>0, <2>4, Versions DEF TypeOK, FetchBundle, WriteBegin
  <2>5. CASE RemoveBegin(p)
    BY <1>0, <2>5, Versions DEF TypeOK, RemoveBegin
  <2>6. CASE RemoveEnd(p)
    BY <1>0, <2>6, Versions DEF TypeOK, RemoveEnd
  <2>7. CASE Rename(p)
    BY <1>0, <2>7, Versions DEF TypeOK, Rename
  <2>8. CASE AutoLatest(p) \/ ClockBegin(p) \/ ClockEnd(p) \/ WriteEnd(p) \/ Fails(p) \/ Crash(p)
    <3>1. UNCHANGED dir
      BY <2>8 DEF AutoLatest, ClockBegin, ClockEnd, WriteEnd, Fails, Crash
    <3>2. UNCHANGED forged \/ Exit(p) \/ Finish(p)
      BY <2>8 DEF AutoLatest, ClockBegin, ClockEnd, WriteEnd, Fails, Crash
    <3> QED
      BY <1>0, <2>2, <3>1, <3>2
  <2> QED
    BY <1>2, <2>1, <2>3, <2>4, <2>5, <2>6, <2>7, <2>8 DEF Step
<1>3. CASE UNCHANGED vars
  BY <1>0, <1>3 DEF vars
<1> QED
  BY <1>1, <1>2, <1>3 DEF Next

\* The pointer is written behind the rename of the version it names.
LEMMA PointerStep == IInv /\ [Next]_vars => PointerInv'
<1> SUFFICES ASSUME IInv, [Next]_vars PROVE PointerInv'
  OBVIOUS
<1> USE DEF PointerInv, diskVars, clockVars, procVars, Goto
<1>0. TypeOK /\ PointerInv
  BY DEF IInv
<1>1. CASE ChannelMoves \/ TimePasses
  BY <1>0, <1>1, Versions DEF ChannelMoves, TimePasses, TypeOK
<1>2. ASSUME NEW p \in Proc, Step(p) PROVE PointerInv'
  <2>1. CASE AutoStart(p) \/ AutoActive(p) \/ UpdateStart(p)
    BY <1>0, <2>1, Versions DEF TypeOK, AutoStart, AutoActive, UpdateStart
  <2>2. CASE UNCHANGED <<current, installed>> /\ (Exit(p) \/ Finish(p))
    BY <1>0, <2>2, ExitType, FinishType DEF TypeOK
  <2>3. CASE FetchManifest(p)
    BY <1>0, <2>3, Versions DEF TypeOK, FetchManifest
  <2>4. CASE FetchBundle(p) \/ RemoveBegin(p) \/ RemoveEnd(p)
    BY <1>0, <2>4, Versions DEF TypeOK, FetchBundle, RemoveBegin, RemoveEnd
  <2>5. CASE Rename(p)
    BY <1>0, <2>5, Versions DEF TypeOK, Rename
  <2>6. CASE WriteBegin(p)
    BY <1>0, <2>6, Versions DEF TypeOK, WriteBegin
  <2>7. CASE WriteEnd(p)
    <3>1. Finish(p) /\ current' = got[p] /\ got[p] \in installed /\ UNCHANGED installed
      BY <1>0, <2>7 DEF WriteEnd
    <3> QED
      BY <1>0, <3>1, FinishType DEF TypeOK
  <2>8. CASE AutoLatest(p) \/ ClockBegin(p) \/ ClockEnd(p) \/ Fails(p) \/ Crash(p)
    <3>1. UNCHANGED <<current, installed>>
      BY <2>8 DEF AutoLatest, ClockBegin, ClockEnd, Fails, Crash
    <3>2. \/ Exit(p) \/ Finish(p)
          \/ UNCHANGED got /\ \E where \in {"manifest", "clocking"} : pc' = [pc EXCEPT ![p] = where]
      BY <2>8 DEF AutoLatest, ClockBegin, ClockEnd, Fails, Crash
    <3> QED
      BY <1>0, <2>2, <3>1, <3>2 DEF TypeOK
  <2> QED
    BY <1>2, <2>1, <2>3, <2>4, <2>5, <2>6, <2>7, <2>8 DEF Step
<1>3. CASE UNCHANGED vars
  BY <1>0, <1>3 DEF vars
<1> QED
  BY <1>1, <1>2, <1>3 DEF Next

\* The version found newer is the version asked for, and the manifest must match.
LEMMA PinStep == IInv /\ [Next]_vars => PinInv'
<1> SUFFICES ASSUME IInv, [Next]_vars PROVE PinInv'
  OBVIOUS
<1> USE DEF PinInv, diskVars, clockVars, procVars, Goto, Behind
<1>0. TypeOK /\ PinInv
  BY DEF IInv
<1>1. CASE ChannelMoves \/ TimePasses
  BY <1>0, <1>1, Versions DEF ChannelMoves, TimePasses, TypeOK
<1>2. ASSUME NEW p \in Proc, Step(p) PROVE PinInv'
  <2>1. CASE AutoStart(p)
    BY <1>0, <2>1, Versions DEF TypeOK, AutoStart
  <2>2. CASE AutoActive(p)
    BY <1>0, <2>2, Versions DEF TypeOK, AutoActive
  <2>3. CASE Exit(p) \/ Finish(p)
    BY <1>0, <2>3, ExitType, FinishType DEF TypeOK
  <2>4. CASE AutoLatest(p)
    <3>1. PICK v \in Version :
             \/ /\ isNewer(v, from[p])
                /\ want' = [want EXCEPT ![p] = v] /\ Goto(p, "manifest")
                /\ UNCHANGED <<auto, from, got>>
             \/ Finish(p)
      BY <1>0, <2>4 DEF TypeOK, AutoLatest
    <3>2. CASE UNCHANGED <<auto, from, got>> /\ isNewer(v, from[p])
               /\ want' = [want EXCEPT ![p] = v] /\ Goto(p, "manifest")
      BY <1>0, <3>2, Versions DEF TypeOK
    <3> QED
      BY <2>3, <3>1, <3>2
  <2>5. CASE UpdateStart(p)
    BY <1>0, <2>5, Versions DEF TypeOK, UpdateStart
  <2>6. CASE FetchManifest(p)
    BY <1>0, <2>6, Versions DEF TypeOK, FetchManifest
  <2>7. CASE FetchBundle(p) \/ RemoveBegin(p) \/ RemoveEnd(p)
    BY <1>0, <2>7, Versions DEF TypeOK, FetchBundle, RemoveBegin, RemoveEnd
  <2>8. CASE Rename(p) \/ WriteBegin(p)
    BY <1>0, <2>8, Versions DEF TypeOK, Rename, WriteBegin
  <2>9. CASE ClockBegin(p)
    <3>1. CASE UNCHANGED procVars /\ Goto(p, "clocking")
      BY <1>0, <3>1 DEF TypeOK
    <3> QED
      BY <2>3, <2>9, <3>1 DEF ClockBegin
  <2>10. CASE ClockEnd(p) \/ WriteEnd(p) \/ Fails(p) \/ Crash(p)
    BY <2>3, <2>10 DEF ClockEnd, WriteEnd, Fails, Crash
  <2> QED
    BY <1>2, <2>1, <2>2, <2>4, <2>5, <2>6, <2>7, <2>8, <2>9, <2>10 DEF Step
<1>3. CASE UNCHANGED vars
  BY <1>0, <1>3 DEF vars
<1> QED
  BY <1>1, <1>2, <1>3 DEF Next

\* Only a write changes the pointer, and it overtakes all who have looked.
LEMMA LookStep == IInv /\ [Next]_vars => LookInv'
<1> SUFFICES ASSUME IInv, [Next]_vars PROVE LookInv'
  OBVIOUS
<1> USE DEF LookInv, diskVars, clockVars, procVars, Goto
<1>0. TypeOK /\ LookInv /\ PinInv
  BY DEF IInv
<1>1. CASE ChannelMoves \/ TimePasses
  BY <1>0, <1>1, Versions DEF ChannelMoves, TimePasses, TypeOK
<1>2. ASSUME NEW p \in Proc, Step(p) PROVE LookInv'
  <2>1. CASE AutoStart(p) \/ UpdateStart(p)
    <3>1. pc[p] = "idle" /\ UNCHANGED <<current, from, overtaken>>
      BY <2>1 DEF AutoStart, UpdateStart
    <3>2. from[p] = 0 /\ \E where : pc' = [pc EXCEPT ![p] = where] \/ pc' = pc
      BY <1>0, <2>1, <3>1 DEF AutoStart, UpdateStart
    <3>3. \A q \in Proc \ {p} : auto'[q] = auto[q] /\ pc'[q] = pc[q]
      BY <1>0, <2>1, <3>2 DEF TypeOK, AutoStart, UpdateStart
    <3> QED
      BY <1>0, <3>1, <3>2, <3>3
  <2>2. CASE AutoActive(p)
    BY <1>0, <2>2, Versions DEF TypeOK, AutoActive, Active
  <2>3. CASE UNCHANGED current /\ overtaken' \cup {p} = overtaken \cup {p} /\ (Exit(p) \/ Finish(p))
    BY <1>0, <2>3, ExitType, FinishType DEF TypeOK
  <2>4. CASE AutoLatest(p)
    <3>1. UNCHANGED current
      BY <2>4 DEF AutoLatest
    <3>2. CASE Finish(p) /\ overtaken' = overtaken \ {p}
      BY <2>3, <3>1, <3>2
    <3>3. CASE Goto(p, "manifest") /\ UNCHANGED <<auto, from, overtaken>>
      BY <1>0, <2>4, <3>1, <3>3 DEF TypeOK, AutoLatest
    <3> QED
      BY <2>4, <3>2, <3>3 DEF AutoLatest
  <2>5. CASE FetchManifest(p) \/ FetchBundle(p) \/ RemoveBegin(p) \/ RemoveEnd(p) \/ Rename(p)
    BY <1>0, <2>5 DEF TypeOK, FetchManifest, FetchBundle, RemoveBegin, RemoveEnd, Rename
  <2>6. CASE WriteBegin(p)
    BY <1>0, <2>6 DEF TypeOK, WriteBegin, Others
  <2>7. CASE WriteEnd(p)
    <3>1. Finish(p) /\ overtaken' = (overtaken \ {p}) \cup Others(p)
      BY <2>7 DEF WriteEnd
    <3> QED
      BY <1>0, <3>1, FinishType DEF TypeOK, Others
  <2>8. CASE ClockBegin(p)
    <3>1. UNCHANGED <<current, overtaken>> /\ pc[p] = "clock"
      BY <2>8 DEF ClockBegin
    <3>2. CASE UNCHANGED procVars /\ Goto(p, "clocking")
      BY <1>0, <3>1, <3>2 DEF TypeOK
    <3> QED
      BY <2>3, <2>8, <3>1, <3>2 DEF ClockBegin
  <2>9. CASE ClockEnd(p) \/ Fails(p) \/ Crash(p)
    BY <2>3, <2>9 DEF ClockEnd, Fails, Crash
  <2> QED
    BY <1>2, <2>1, <2>2, <2>4, <2>5, <2>6, <2>7, <2>8, <2>9 DEF Step
<1>3. CASE UNCHANGED vars
  BY <1>0, <1>3 DEF vars
<1> QED
  BY <1>1, <1>2, <1>3 DEF Next

\* The file holds what the check that ended last wrote, unless that is lost.
LEMMA ClockStep == IInv /\ [Next]_vars => ClockInv'
<1> SUFFICES ASSUME IInv, [Next]_vars PROVE ClockInv'
  OBVIOUS
<1> USE DEF ClockInv, diskVars, clockVars, procVars, Goto
<1>0. TypeOK /\ ClockInv
  BY DEF IInv
<1>1. CASE ChannelMoves \/ TimePasses
  BY <1>0, <1>1, Versions DEF ChannelMoves, TimePasses, TypeOK
<1>2. ASSUME NEW p \in Proc, Step(p) PROVE ClockInv'
  <2>0. ASSUME UNCHANGED clockVars, pc[p] # "clocking", \A q \in Proc \ {p} : pc'[q] = pc[q]
        PROVE  ClockInv'
    BY <1>0, <2>0
  <2>1. CASE AutoStart(p)
    <3>1. UNCHANGED <<stamp, ended>> /\ pc[p] = "idle"
      BY <2>1 DEF AutoStart
    <3>2. lost' = TRUE \/ UNCHANGED lost
      BY <2>1 DEF AutoStart
    <3>3. \A q \in Proc \ {p} : pc'[q] = pc[q]
      BY <1>0, <2>1 DEF AutoStart, TypeOK
    <3> QED
      BY <2>0, <3>1, <3>2, <3>3
  <2>2. CASE \/ AutoActive(p) \/ UpdateStart(p) \/ FetchManifest(p) \/ FetchBundle(p)
             \/ RemoveBegin(p) \/ RemoveEnd(p) \/ Rename(p) \/ WriteBegin(p)
    <3>1. UNCHANGED clockVars /\ pc[p] # "clocking" /\ \E where : Goto(p, where)
      BY <2>2 DEF AutoActive, UpdateStart, FetchManifest, FetchBundle, RemoveBegin, RemoveEnd,
                  Rename, WriteBegin
    <3> QED
      BY <1>0, <2>0, <3>1 DEF TypeOK
  <2>3. CASE AutoLatest(p) \/ WriteEnd(p) \/ Fails(p)
    <3>1. /\ UNCHANGED clockVars /\ pc[p] # "clocking"
          /\ Finish(p) \/ \E where : Goto(p, where)
      BY <2>3 DEF AutoLatest, WriteEnd, Fails
    <3>2. \A q \in Proc \ {p} : pc'[q] = pc[q]
      BY <1>0, <3>1, FinishType DEF TypeOK
    <3> QED
      BY <2>0, <3>1, <3>2
  <2>4. CASE ClockBegin(p)
    <3>1. CASE lost'
      BY <3>1
    <3>2. CASE ~lost'
      <4>1. pc' = [pc EXCEPT ![p] = "clocking"]
        BY <2>4, <3>2 DEF ClockBegin
      <4> QED
        BY <1>0, <4>1 DEF TypeOK
    <3> QED
      BY <3>1, <3>2
  <2>5. CASE ClockEnd(p)
    BY <2>5 DEF ClockEnd
  <2>6. CASE Crash(p)
    <3>1. Exit(p) /\ UNCHANGED <<stamp, ended>> /\ lost' = (lost \/ pc[p] = "clocking")
      BY <2>6 DEF Crash
    <3>2. \A q \in Proc \ {p} : pc'[q] = pc[q]
      BY <1>0, <3>1, ExitType DEF TypeOK
    <3> QED
      BY <1>0, <3>1, <3>2
  <2> QED
    BY <1>2, <2>1, <2>2, <2>3, <2>4, <2>5, <2>6 DEF Step
<1>3. CASE UNCHANGED vars
  BY <1>0, <1>3 DEF vars
<1> QED
  BY <1>1, <1>2, <1>3 DEF Next

-----------------------------------------------------------------------------
\* The parts of IInv hold together in every reachable state of the cache,
\* whatever processes race or crash and whatever cannot be read or written.
THEOREM Invariance == Spec => []IInv
<1>1. IInv /\ [Next]_vars => IInv'
  BY TypeStep, GenuineStep, PointerStep, PinStep, LookStep, ClockStep DEF IInv
<1> QED
  BY <1>1, InitIInv, PTL DEF Spec

\* Every variable stays in its range.
THEOREM TypeCorrect == Spec => []TypeOK
<1>1. IInv => TypeOK
  BY DEF IInv
<1> QED
  BY <1>1, Invariance, PTL

\* Without an explicit skip of the signature, nothing but the publisher's
\* bundles is ever installed.
THEOREM Genuineness == Spec => []OnlyGenuine
<1>1. IInv => OnlyGenuine
  BY DEF IInv, GenuineInv, OnlyGenuine
<1> QED
  BY <1>1, Invariance, PTL

\* current.json only ever names a version that was renamed into place.
THEOREM PointerLast == Spec => []PointerFollowsInstall
<1>1. IInv => PointerFollowsInstall
  BY DEF IInv, PointerInv, PointerFollowsInstall
<1> QED
  BY <1>1, Invariance, PTL

\* Only AutoStart begins a check, and only WriteBegin a write.
LEMMA Begins ==
    ASSUME IInv, Next, NEW p \in Proc, pc'[p] # pc[p]
    PROVE  /\ pc'[p] = "active" => AutoStart(p)
           /\ pc'[p] = "writing" => WriteBegin(p)
<1>0. TypeOK
  BY DEF IInv
<1>1. CASE ChannelMoves \/ TimePasses
  BY <1>1 DEF ChannelMoves, TimePasses
<1>2. ASSUME NEW q \in Proc, Step(q)
      PROVE  /\ pc'[p] = "active" => AutoStart(p)
             /\ pc'[p] = "writing" => WriteBegin(p)
  <2>1. CASE Exit(q) \/ Finish(q)
    BY <1>0, <2>1, ExitType, FinishType DEF TypeOK
  <2>2. ASSUME NEW where \in {"latest", "manifest", "tarball", "remove", "removing", "rename",
                              "write", "clocking"}, Goto(q, where)
        PROVE  pc'[p] # "active" /\ pc'[p] # "writing"
    BY <1>0, <2>2 DEF TypeOK, Goto
  <2>3. CASE AutoStart(q)
    BY <1>0, <2>3 DEF TypeOK, AutoStart, Goto
  <2>4. CASE WriteBegin(q)
    BY <1>0, <2>4 DEF TypeOK, WriteBegin, Goto
  <2>5. CASE AutoLatest(q) \/ ClockBegin(q)
    BY <2>1, <2>2, <2>5 DEF AutoLatest, ClockBegin
  <2>6. CASE ClockEnd(q) \/ WriteEnd(q) \/ Fails(q) \/ Crash(q)
    BY <2>1, <2>6 DEF ClockEnd, WriteEnd, Fails, Crash
  <2>7. CASE AutoActive(q) \/ UpdateStart(q) \/ FetchManifest(q) \/ FetchBundle(q)
    BY <2>2, <2>7 DEF AutoActive, UpdateStart, FetchManifest, FetchBundle
  <2>8. CASE RemoveBegin(q) \/ RemoveEnd(q) \/ Rename(q)
    BY <2>2, <2>8 DEF RemoveBegin, RemoveEnd, Rename
  <2> QED
    BY <1>2, <2>3, <2>4, <2>5, <2>6, <2>7, <2>8 DEF Step
<1>3. CASE \E q \in Proc : Step(q)
  <2>1. PICK q \in Proc : Step(q)
    BY <1>3
  <2> QED
    BY <1>2, <2>1
<1> QED
  BY <1>1, <1>3 DEF Next

\* An automatic update that nobody overtook writes a version newer than the one
\* in place.
THEOREM MovesForward == Spec => AutoMovesForward
<1>1. IInv /\ [Next]_vars =>
        [\A p \in Proc :
            auto[p] /\ from[p] # 0 /\ p \notin overtaken /\ pc[p] = "write" /\ pc'[p] = "writing"
               => current \in Version /\ got[p] > current]_vars
  <2> SUFFICES ASSUME IInv, Next, NEW p \in Proc, auto[p], from[p] # 0, p \notin overtaken,
                      pc[p] = "write"
               PROVE  current \in Version /\ got[p] > current
    OBVIOUS
  <2>1. current = from[p]
    BY DEF IInv, LookInv
  <2>2. isNewer(got[p], from[p])
    BY DEF IInv, PinInv, Behind
  <2>3. from[p] \in Version
    BY DEF IInv, TypeOK
  <2> QED
    BY <2>1, <2>2, <2>3 DEF isNewer
<1> QED
  BY <1>1, Invariance, PTL DEF Spec, AutoMovesForward

\* Once a check has come to its end, no scan dials before it is an interval old,
\* as long as its time is on record.
THEOREM Throttle == Spec => Throttled
<1>1. IInv /\ [Next]_vars =>
        [\A p \in Proc : pc[p] = "idle" /\ pc'[p] = "active" =>
            \/ ended = Interval
            \/ lost'
            \/ \E q \in Proc : pc[q] = "clocking"]_vars
  <2> SUFFICES ASSUME IInv, Next, NEW p \in Proc, pc[p] = "idle", pc'[p] = "active",
                      ~lost', \A q \in Proc : pc[q] # "clocking"
               PROVE  ended = Interval
    OBVIOUS
  <2>1. AutoStart(p)
    BY Begins
  <2>2. stamp = Interval /\ ~lost
    BY <2>1 DEF AutoStart
  <2> QED
    BY <2>2 DEF IInv, ClockInv
<1> QED
  BY <1>1, Invariance, PTL DEF Spec, Throttled

-----------------------------------------------------------------------------
(* Rules in force (Detect) *)

(* Induction over the natural numbers, for a set of them. *)
Below == {q \in Nat \X Nat : q[1] < q[2]}

(* A set of natural numbers has a least one. *)
LEMMA First == ASSUME NEW T \in SUBSET Nat, T # {} PROVE \E x \in T : \A y \in T : x <= y
<1>1. OpToRel(<, Nat) = Below
  BY DEF OpToRel, Below
<1>2. IsWellFoundedOn(Below, Nat)
  BY <1>1, NatLessThanWellFounded
<1>3. PICK x \in T : \A y \in T : ~ (<<y, x>> \in Below)
  BY <1>2, WFMin
<1>4. ASSUME NEW y \in T PROVE x <= y
  <2>1. <<y, x>> \in Nat \X Nat /\ <<y, x>>[1] = y /\ <<y, x>>[2] = x
    OBVIOUS
  <2>2. ~(y < x)
    BY <1>3, <2>1 DEF Below
  <2> QED
    BY <2>2
<1> QED
  BY <1>4

(* A set of natural numbers with 0 and every successor has them all. *)
LEMMA Induction ==
  ASSUME NEW T, 0 \in T, \A n \in Nat : n \in T => n + 1 \in T
  PROVE  Nat \subseteq T
<1> SUFFICES ASSUME Nat \ T # {} PROVE FALSE
  OBVIOUS
<1>1. PICK x \in Nat \ T : \A y \in Nat \ T : x <= y
  BY First
<1>2. x - 1 \in Nat /\ x - 1 \in T
  BY <1>1
<1> QED
  BY <1>1, <1>2

(* Of some of the first N numbers one is the last. *)
LEMMA LastOf ==
  ASSUME NEW N \in Nat, NEW S, S \subseteq 1 .. N, S # {}
  PROVE  Max(S) \in S /\ \A m \in S : m <= Max(S)
<1>1. PICK T : T = {N - m : m \in S}
  OBVIOUS
<1>2. T \in SUBSET Nat /\ T # {}
  <2>1. \A m \in S : N - m \in Nat
    OBVIOUS
  <2>2. T # {}
    BY <1>1
  <2> QED
    BY <1>1, <2>1, <2>2
<1>3. PICK x \in T : \A y \in T : x <= y
  BY <1>2, First
<1>4. PICK n \in S : x = N - n
  BY <1>1, <1>3
<1>5. \A m \in S : n >= m
  <2>1. \A m \in S : N - m \in T /\ m \in Nat
    BY <1>1
  <2> QED
    BY <1>3, <1>4, <2>1
<1>6. Max(S) \in S /\ \A m \in S : Max(S) >= m
  BY <1>4, <1>5 DEF Max
<1>7. \A m \in S : m \in Int
  OBVIOUS
<1> QED
  BY <1>6, <1>7

(* A rule set says of an identifier what a word says, or what it said before. *)
Obeys(rs, id, word) ==
  IF word.disable THEN id \notin DOMAIN rs ELSE id \in DOMAIN rs /\ rs[id] = word
Kept(old, new, id) == (id \in DOMAIN new <=> id \in DOMAIN old) /\ (id \in DOMAIN new => new[id] = old[id])

(* A word holds as long as nobody says another. *)
LEMMA WordsKeep ==
  ASSUME NEW old, NEW new, NEW id, NEW word, Kept(old, new, id), Obeys(old, id, word)
  PROVE  Obeys(new, id, word)
  BY DEF Kept, Obeys

(* Of a sequence of rule sets in which some steps say a word about id and the
   others nothing, the last one obeys the last word. *)
LEMMA LastWordHolds ==
  ASSUME NEW N \in Nat, NEW G, NEW S, S \subseteq 1 .. N, NEW W, NEW id,
         \A n \in S : Obeys(G[n], id, W[n]),
         \A n \in (1 .. N) \ S : Kept(G[n - 1], G[n], id)
  PROVE  /\ S = {} => Kept(G[0], G[N], id)
         /\ S # {} => Obeys(G[N], id, W[Max(S)])
<1>1. ASSUME S = {} PROVE Kept(G[0], G[N], id)
  <2>1. PICK T : T = {n \in Nat : n <= N => Kept(G[0], G[n], id)}
    OBVIOUS
  <2>2. 0 \in T
    BY <2>1 DEF Kept
  <2>3. ASSUME NEW n \in Nat, n \in T PROVE n + 1 \in T
    <3>1. CASE n + 1 <= N
      <4>1. n + 1 \in (1 .. N) \ S /\ n <= N /\ n + 1 - 1 = n
        BY <1>1, <3>1
      <4>2. Kept(G[n], G[n + 1], id)
        BY <4>1
      <4>3. Kept(G[0], G[n], id)
        BY <2>1, <2>3, <4>1
      <4> QED
        BY <2>1, <4>2, <4>3 DEF Kept
    <3>2. CASE ~(n + 1 <= N)
      BY <2>1, <3>2
    <3> QED
      BY <3>1, <3>2
  <2>4. N \in T
    BY <2>2, <2>3, Induction
  <2> QED
    BY <2>1, <2>4
<1>2. ASSUME S # {} PROVE Obeys(G[N], id, W[Max(S)])
  <2>1. PICK M : M = Max(S) /\ M \in S /\ \A m \in S : m <= M
    BY <1>2, LastOf
  <2>2. M \in 1 .. N
    BY <2>1
  <2>3. PICK T : T = {n \in Nat : n >= M /\ n <= N => Obeys(G[n], id, W[M])}
    OBVIOUS
  <2>4. 0 \in T
    BY <2>2, <2>3
  <2>5. ASSUME NEW n \in Nat, n \in T PROVE n + 1 \in T
    <3>1. CASE n + 1 <= N /\ n + 1 > M
      <4>1. n + 1 \in 1 .. N /\ n >= M /\ n <= N /\ n + 1 - 1 = n
        BY <2>2, <3>1
      <4>2. n + 1 \notin S
        BY <2>1, <2>2, <3>1
      <4>3. Kept(G[n], G[n + 1], id)
        BY <4>1, <4>2
      <4>4. Obeys(G[n], id, W[M])
        BY <2>3, <2>5, <4>1
      <4>5. Obeys(G[n + 1], id, W[M])
        BY <4>3, <4>4, WordsKeep
      <4> QED
        BY <2>3, <4>5
    <3>2. CASE n + 1 = M
      <4>1. Obeys(G[n + 1], id, W[M])
        BY <2>1, <3>2
      <4> QED
        BY <2>3, <4>1
    <3>3. CASE ~(n + 1 <= N) \/ ~(n + 1 >= M)
      BY <2>3, <3>3
    <3> QED
      BY <2>2, <3>1, <3>2, <3>3
  <2>6. N \in T
    BY <2>4, <2>5, Induction
  <2>7. Obeys(G[N], id, W[M])
    BY <2>2, <2>3, <2>6
  <2> QED
    BY <2>1, <2>7
<1> QED
  BY <1>1, <1>2

(* When the last of a list of results is good and each needs the one before it,
   all are good. *)
LEMMA OkBefore ==
  ASSUME NEW N \in Nat, NEW F, \A n \in 1 .. N : F[n].ok => F[n - 1].ok, F[N].ok
  PROVE  \A n \in 0 .. N : F[n].ok
<1>1. PICK T : T = {m \in Nat : m <= N => F[N - m].ok}
  OBVIOUS
<1>2. 0 \in T
  BY <1>1
<1>3. ASSUME NEW m \in Nat, m \in T PROVE m + 1 \in T
  <2>1. CASE m + 1 <= N
    <3>1. N - m \in 1 .. N /\ N - m - 1 = N - (m + 1) /\ m <= N
      BY <2>1
    <3>2. F[N - m].ok
      BY <1>1, <1>3, <3>1
    <3>3. F[N - (m + 1)].ok
      BY <3>1, <3>2
    <3> QED
      BY <1>1, <3>3
  <2>2. CASE ~(m + 1 <= N)
    BY <1>1, <2>2
  <2> QED
    BY <2>1, <2>2
<1>4. Nat \subseteq T
  BY <1>2, <1>3, Induction
<1>5. ASSUME NEW n \in 0 .. N PROVE F[n].ok
  <2>1. N - n \in Nat /\ N - n <= N /\ N - (N - n) = n
    OBVIOUS
  <2>2. N - n \in T
    BY <1>4, <2>1
  <2> QED
    BY <1>1, <2>1, <2>2
<1> QED
  BY <1>5

(* A pack joining a rule set is made step by step. *)
LayerTo(F, a, file, layer, base, n) ==
  /\ DOMAIN F = 0 .. n /\ F[0] = a
  /\ \A i \in 1 .. n : F[i] = R!applyRule(F[i - 1], file.rules[i], file.pack, layer, base)

(* The results of such a fold can be listed, for any number of rules. *)
LEMMA LayerExist ==
  ASSUME NEW a, NEW file, NEW layer, NEW base, NEW n \in Nat PROVE \E F : LayerTo(F, a, file, layer, base, n)
<1>1. PICK T : T = {m \in Nat : \E F : LayerTo(F, a, file, layer, base, m)}
  OBVIOUS
<1>2. 0 \in T
  <2>1. PICK F : F = [i \in 0 .. 0 |-> a]
    OBVIOUS
  <2>2. LayerTo(F, a, file, layer, base, 0)
    BY <2>1 DEF LayerTo
  <2> QED
    BY <1>1, <2>2
<1>3. ASSUME NEW m \in Nat, m \in T PROVE m + 1 \in T
  <2>1. PICK F : LayerTo(F, a, file, layer, base, m)
    BY <1>1, <1>3
  <2>2. PICK new : new = R!applyRule(F[m], file.rules[m + 1], file.pack, layer, base)
    OBVIOUS
  <2>3. PICK G : G = [i \in 0 .. m + 1 |-> IF i = m + 1 THEN new ELSE F[i]]
    OBVIOUS
  <2>4. DOMAIN G = 0 .. m + 1 /\ G[m + 1] = new /\ \A i \in 0 .. m : G[i] = F[i]
    BY <2>3
  <2>5. G[0] = a
    BY <2>1, <2>4 DEF LayerTo
  <2>6. ASSUME NEW i \in 1 .. m + 1 PROVE G[i] = R!applyRule(G[i - 1], file.rules[i], file.pack, layer, base)
    <3>1. CASE i = m + 1
      <4>1. i - 1 = m /\ m \in 0 .. m
        BY <3>1
      <4> QED
        BY <2>2, <2>4, <3>1, <4>1
    <3>2. CASE i # m + 1
      <4>1. i \in 1 .. m /\ i \in 0 .. m /\ i - 1 \in 0 .. m
        BY <3>2
      <4> QED
        BY <2>1, <2>4, <4>1 DEF LayerTo
    <3> QED
      BY <3>1, <3>2
  <2>7. LayerTo(G, a, file, layer, base, m + 1)
    BY <2>4, <2>5, <2>6 DEF LayerTo
  <2> QED
    BY <1>1, <2>7
<1>4. n \in T
  BY <1>2, <1>3, Induction
<1> QED
  BY <1>1, <1>4

(* applyLayer is the last of such a list. *)
LEMMA LayerRun ==
  ASSUME NEW a, NEW file, NEW layer, NEW base, Len(file.rules) \in Nat
  PROVE  \E F : LayerTo(F, a, file, layer, base, Len(file.rules)) /\ R!applyLayer(a, file, layer, base) = F[Len(file.rules)]
<1> DEFINE N == Len(file.rules)
<1>1. PICK F : LayerTo(F, a, file, layer, base, N)
  BY LayerExist
<1>2. PICK G : G = [n \in 0 .. N |-> F[n]]
  OBVIOUS
<1>3. ASSUME NEW n \in 0 .. N
      PROVE  G[n] = IF n = 0 THEN a ELSE R!applyRule(G[n - 1], file.rules[n], file.pack, layer, base)
  <2>1. CASE n = 0
    BY <1>1, <1>2, <2>1 DEF LayerTo
  <2>2. CASE n # 0
    <3>1. n \in 1 .. N /\ n - 1 \in 0 .. N
      BY <2>2
    <3>2. G[n] = F[n] /\ G[n - 1] = F[n - 1]
      BY <1>2, <3>1
    <3> QED
      BY <1>1, <2>2, <3>1, <3>2 DEF LayerTo
  <2> QED
    BY <2>1, <2>2
<1>4. G = [n \in 0 .. N |-> IF n = 0 THEN a ELSE R!applyRule(G[n - 1], file.rules[n], file.pack, layer, base)]
  <2>1. PICK f : f = [n \in 0 .. N |-> IF n = 0 THEN a ELSE R!applyRule(G[n - 1], file.rules[n], file.pack, layer, base)]
    OBVIOUS
  <2>2. DOMAIN f = 0 .. N /\ \A n \in 0 .. N : f[n] = IF n = 0 THEN a ELSE R!applyRule(G[n - 1], file.rules[n], file.pack, layer, base)
    BY <2>1
  <2>3. f = [n \in 0 .. N |-> f[n]]
    BY <2>1
  <2>4. \A n \in 0 .. N : f[n] = G[n]
    BY <1>3, <2>2
  <2>5. f = G
    BY <1>2, <2>3, <2>4
  <2> QED
    BY <2>1, <2>5
<1>5. PICK upTo : upTo = CHOOSE H : H = [n \in 0 .. N |-> IF n = 0 THEN a ELSE R!applyRule(H[n - 1], file.rules[n], file.pack, layer, base)]
  OBVIOUS
<1>6. upTo = [n \in 0 .. N |-> IF n = 0 THEN a ELSE R!applyRule(upTo[n - 1], file.rules[n], file.pack, layer, base)]
  BY <1>4, <1>5
<1>7. R!applyLayer(a, file, layer, base) = upTo[N]
  BY <1>5 DEF R!applyLayer
<1>8. LayerTo(upTo, a, file, layer, base, N)
  <2>1. DOMAIN upTo = 0 .. N /\ \A n \in 0 .. N : upTo[n] = IF n = 0 THEN a ELSE R!applyRule(upTo[n - 1], file.rules[n], file.pack, layer, base)
    BY <1>6
  <2>2. \A n \in 1 .. N : upTo[n] = R!applyRule(upTo[n - 1], file.rules[n], file.pack, layer, base)
    BY <2>1
  <2> QED
    BY <2>1, <2>2 DEF LayerTo
<1> QED
  BY <1>7, <1>8

(* A layer of packs is made step by step. *)
PacksTo(F, a, fsys, label, base, n) ==
  /\ DOMAIN F = 0 .. n /\ F[0] = a
  /\ \A i \in 1 .. n : F[i] = R!joinPack(F[i - 1], fsys[i], label, base)

(* The results of such a fold can be listed, for any number of packs. *)
LEMMA PacksExist ==
  ASSUME NEW a, NEW fsys, NEW label, NEW base, NEW n \in Nat PROVE \E F : PacksTo(F, a, fsys, label, base, n)
<1>1. PICK T : T = {m \in Nat : \E F : PacksTo(F, a, fsys, label, base, m)}
  OBVIOUS
<1>2. 0 \in T
  <2>1. PICK F : F = [i \in 0 .. 0 |-> a]
    OBVIOUS
  <2>2. PacksTo(F, a, fsys, label, base, 0)
    BY <2>1 DEF PacksTo
  <2> QED
    BY <1>1, <2>2
<1>3. ASSUME NEW m \in Nat, m \in T PROVE m + 1 \in T
  <2>1. PICK F : PacksTo(F, a, fsys, label, base, m)
    BY <1>1, <1>3
  <2>2. PICK new : new = R!joinPack(F[m], fsys[m + 1], label, base)
    OBVIOUS
  <2>3. PICK G : G = [i \in 0 .. m + 1 |-> IF i = m + 1 THEN new ELSE F[i]]
    OBVIOUS
  <2>4. DOMAIN G = 0 .. m + 1 /\ G[m + 1] = new /\ \A i \in 0 .. m : G[i] = F[i]
    BY <2>3
  <2>5. G[0] = a
    BY <2>1, <2>4 DEF PacksTo
  <2>6. ASSUME NEW i \in 1 .. m + 1 PROVE G[i] = R!joinPack(G[i - 1], fsys[i], label, base)
    <3>1. CASE i = m + 1
      <4>1. i - 1 = m /\ m \in 0 .. m
        BY <3>1
      <4> QED
        BY <2>2, <2>4, <3>1, <4>1
    <3>2. CASE i # m + 1
      <4>1. i \in 1 .. m /\ i \in 0 .. m /\ i - 1 \in 0 .. m
        BY <3>2
      <4> QED
        BY <2>1, <2>4, <4>1 DEF PacksTo
    <3> QED
      BY <3>1, <3>2
  <2>7. PacksTo(G, a, fsys, label, base, m + 1)
    BY <2>4, <2>5, <2>6 DEF PacksTo
  <2> QED
    BY <1>1, <2>7
<1>4. n \in T
  BY <1>2, <1>3, Induction
<1> QED
  BY <1>1, <1>4

(* loadPackFS is the last of such a list. *)
LEMMA PacksRun ==
  ASSUME NEW a, NEW fsys, NEW label, NEW base, Len(fsys) \in Nat
  PROVE  \E F : PacksTo(F, a, fsys, label, base, Len(fsys)) /\ R!loadPackFS(a, fsys, label, base) = F[Len(fsys)]
<1> DEFINE N == Len(fsys)
<1>1. PICK F : PacksTo(F, a, fsys, label, base, N)
  BY PacksExist
<1>2. PICK G : G = [n \in 0 .. N |-> F[n]]
  OBVIOUS
<1>3. ASSUME NEW n \in 0 .. N
      PROVE  G[n] = IF n = 0 THEN a ELSE R!joinPack(G[n - 1], fsys[n], label, base)
  <2>1. CASE n = 0
    BY <1>1, <1>2, <2>1 DEF PacksTo
  <2>2. CASE n # 0
    <3>1. n \in 1 .. N /\ n - 1 \in 0 .. N
      BY <2>2
    <3>2. G[n] = F[n] /\ G[n - 1] = F[n - 1]
      BY <1>2, <3>1
    <3> QED
      BY <1>1, <2>2, <3>1, <3>2 DEF PacksTo
  <2> QED
    BY <2>1, <2>2
<1>4. G = [n \in 0 .. N |-> IF n = 0 THEN a ELSE R!joinPack(G[n - 1], fsys[n], label, base)]
  <2>1. PICK f : f = [n \in 0 .. N |-> IF n = 0 THEN a ELSE R!joinPack(G[n - 1], fsys[n], label, base)]
    OBVIOUS
  <2>2. DOMAIN f = 0 .. N /\ \A n \in 0 .. N : f[n] = IF n = 0 THEN a ELSE R!joinPack(G[n - 1], fsys[n], label, base)
    BY <2>1
  <2>3. f = [n \in 0 .. N |-> f[n]]
    BY <2>1
  <2>4. \A n \in 0 .. N : f[n] = G[n]
    BY <1>3, <2>2
  <2>5. f = G
    BY <1>2, <2>3, <2>4
  <2> QED
    BY <2>1, <2>5
<1>5. PICK upTo : upTo = CHOOSE H : H = [n \in 0 .. N |-> IF n = 0 THEN a ELSE R!joinPack(H[n - 1], fsys[n], label, base)]
  OBVIOUS
<1>6. upTo = [n \in 0 .. N |-> IF n = 0 THEN a ELSE R!joinPack(upTo[n - 1], fsys[n], label, base)]
  BY <1>4, <1>5
<1>7. R!loadPackFS(a, fsys, label, base) = upTo[N]
  BY <1>5 DEF R!loadPackFS
<1>8. PacksTo(upTo, a, fsys, label, base, N)
  <2>1. DOMAIN upTo = 0 .. N /\ \A n \in 0 .. N : upTo[n] = IF n = 0 THEN a ELSE R!joinPack(upTo[n - 1], fsys[n], label, base)
    BY <1>6
  <2>2. \A n \in 1 .. N : upTo[n] = R!joinPack(upTo[n - 1], fsys[n], label, base)
    BY <2>1
  <2> QED
    BY <2>1, <2>2 DEF PacksTo
<1> QED
  BY <1>7, <1>8

(* What a user layers over the packs is made step by step. *)
OverlaysTo(F, a, files, n) ==
  /\ DOMAIN F = 0 .. n /\ F[0] = a
  /\ \A i \in 1 .. n : F[i] = R!joinOverlay(F[i - 1], files[i])

(* The results of such a fold can be listed, for any number of files. *)
LEMMA OverlaysExist ==
  ASSUME NEW a, NEW files, NEW n \in Nat PROVE \E F : OverlaysTo(F, a, files, n)
<1>1. PICK T : T = {m \in Nat : \E F : OverlaysTo(F, a, files, m)}
  OBVIOUS
<1>2. 0 \in T
  <2>1. PICK F : F = [i \in 0 .. 0 |-> a]
    OBVIOUS
  <2>2. OverlaysTo(F, a, files, 0)
    BY <2>1 DEF OverlaysTo
  <2> QED
    BY <1>1, <2>2
<1>3. ASSUME NEW m \in Nat, m \in T PROVE m + 1 \in T
  <2>1. PICK F : OverlaysTo(F, a, files, m)
    BY <1>1, <1>3
  <2>2. PICK new : new = R!joinOverlay(F[m], files[m + 1])
    OBVIOUS
  <2>3. PICK G : G = [i \in 0 .. m + 1 |-> IF i = m + 1 THEN new ELSE F[i]]
    OBVIOUS
  <2>4. DOMAIN G = 0 .. m + 1 /\ G[m + 1] = new /\ \A i \in 0 .. m : G[i] = F[i]
    BY <2>3
  <2>5. G[0] = a
    BY <2>1, <2>4 DEF OverlaysTo
  <2>6. ASSUME NEW i \in 1 .. m + 1 PROVE G[i] = R!joinOverlay(G[i - 1], files[i])
    <3>1. CASE i = m + 1
      <4>1. i - 1 = m /\ m \in 0 .. m
        BY <3>1
      <4> QED
        BY <2>2, <2>4, <3>1, <4>1
    <3>2. CASE i # m + 1
      <4>1. i \in 1 .. m /\ i \in 0 .. m /\ i - 1 \in 0 .. m
        BY <3>2
      <4> QED
        BY <2>1, <2>4, <4>1 DEF OverlaysTo
    <3> QED
      BY <3>1, <3>2
  <2>7. OverlaysTo(G, a, files, m + 1)
    BY <2>4, <2>5, <2>6 DEF OverlaysTo
  <2> QED
    BY <1>1, <2>7
<1>4. n \in T
  BY <1>2, <1>3, Induction
<1> QED
  BY <1>1, <1>4

(* loadOverlays is the last of such a list. *)
LEMMA OverlaysRun ==
  ASSUME NEW a, NEW files, Len(files) \in Nat
  PROVE  \E F : OverlaysTo(F, a, files, Len(files)) /\ R!loadOverlays(a, files) = F[Len(files)]
<1> DEFINE N == Len(files)
<1>1. PICK F : OverlaysTo(F, a, files, N)
  BY OverlaysExist
<1>2. PICK G : G = [n \in 0 .. N |-> F[n]]
  OBVIOUS
<1>3. ASSUME NEW n \in 0 .. N
      PROVE  G[n] = IF n = 0 THEN a ELSE R!joinOverlay(G[n - 1], files[n])
  <2>1. CASE n = 0
    BY <1>1, <1>2, <2>1 DEF OverlaysTo
  <2>2. CASE n # 0
    <3>1. n \in 1 .. N /\ n - 1 \in 0 .. N
      BY <2>2
    <3>2. G[n] = F[n] /\ G[n - 1] = F[n - 1]
      BY <1>2, <3>1
    <3> QED
      BY <1>1, <2>2, <3>1, <3>2 DEF OverlaysTo
  <2> QED
    BY <2>1, <2>2
<1>4. G = [n \in 0 .. N |-> IF n = 0 THEN a ELSE R!joinOverlay(G[n - 1], files[n])]
  <2>1. PICK f : f = [n \in 0 .. N |-> IF n = 0 THEN a ELSE R!joinOverlay(G[n - 1], files[n])]
    OBVIOUS
  <2>2. DOMAIN f = 0 .. N /\ \A n \in 0 .. N : f[n] = IF n = 0 THEN a ELSE R!joinOverlay(G[n - 1], files[n])
    BY <2>1
  <2>3. f = [n \in 0 .. N |-> f[n]]
    BY <2>1
  <2>4. \A n \in 0 .. N : f[n] = G[n]
    BY <1>3, <2>2
  <2>5. f = G
    BY <1>2, <2>3, <2>4
  <2> QED
    BY <2>1, <2>5
<1>5. PICK upTo : upTo = CHOOSE H : H = [n \in 0 .. N |-> IF n = 0 THEN a ELSE R!joinOverlay(H[n - 1], files[n])]
  OBVIOUS
<1>6. upTo = [n \in 0 .. N |-> IF n = 0 THEN a ELSE R!joinOverlay(upTo[n - 1], files[n])]
  BY <1>4, <1>5
<1>7. R!loadOverlays(a, files) = upTo[N]
  BY <1>5 DEF R!loadOverlays
<1>8. OverlaysTo(upTo, a, files, N)
  <2>1. DOMAIN upTo = 0 .. N /\ \A n \in 0 .. N : upTo[n] = IF n = 0 THEN a ELSE R!joinOverlay(upTo[n - 1], files[n])
    BY <1>6
  <2>2. \A n \in 1 .. N : upTo[n] = R!joinOverlay(upTo[n - 1], files[n])
    BY <2>1
  <2> QED
    BY <2>1, <2>2 DEF OverlaysTo
<1> QED
  BY <1>7, <1>8

-----------------------------------------------------------------------------
(* What joining a rule, a pack and a layer does to the rules in force *)

(* A pack whose rules have the fields that layering reads. *)
Listed(file) ==
  /\ file.rules \in Seq(Range(file.rules))
  /\ \A r \in Range(file.rules) : {"id", "layer", "disable"} \subseteq DOMAIN r

(* A broken rule set is not good, another is. *)
LEMMA GoodOrBroken == ~R!Broken.ok /\ \A rs : R!Loaded(rs).ok /\ R!Loaded(rs).rules = rs
  BY DEF R!Broken, R!Loaded

(* A rule that joins decides its own identifier and leaves the others alone. *)
LEMMA RuleTold ==
  ASSUME NEW a, NEW r, "disable" \in DOMAIN r, NEW pack, NEW layer, NEW base,
         R!applyRule(a, r, pack, layer, base).ok
  PROVE  /\ a.ok
         /\ Obeys(R!applyRule(a, r, pack, layer, base).rules, r.id, [r EXCEPT !.layer = layer])
         /\ \A id : id # r.id => Kept(a.rules, R!applyRule(a, r, pack, layer, base).rules, id)
<1>1. PICK b : b = R!applyRule(a, r, pack, layer, base)
  OBVIOUS
<1>2. PICK w : w = [r EXCEPT !.layer = layer]
  OBVIOUS
<1>3. w.disable = r.disable
  BY <1>2
<1>4. b.ok
  BY <1>1
<1>5. a.ok
  <2>1. ~a.ok => b = a
    BY <1>1 DEF R!applyRule
  <2> QED
    BY <1>4, <2>1
<1>6. CASE r.disable
  <2>1. b = R!Loaded(R!Restrict(a.rules, DOMAIN a.rules \ {r.id})) \/ b = R!Broken
    BY <1>1, <1>5, <1>6 DEF R!applyRule
  <2>2. b.rules = R!Restrict(a.rules, DOMAIN a.rules \ {r.id})
    BY <1>4, <2>1, GoodOrBroken
  <2>3. PICK rs : rs = b.rules
    OBVIOUS
  <2>4. DOMAIN rs = DOMAIN a.rules \ {r.id} /\ \A id \in DOMAIN rs : rs[id] = a.rules[id]
    BY <2>2, <2>3 DEF R!Restrict
  <2>5. Obeys(rs, r.id, w)
    BY <1>3, <1>6, <2>4 DEF Obeys
  <2>6. \A id : id # r.id => Kept(a.rules, rs, id)
    BY <2>4 DEF Kept
  <2> QED
    BY <1>1, <1>2, <1>5, <2>3, <2>5, <2>6
<1>7. CASE ~r.disable
  <2>1. \/ b = R!Loaded([id \in DOMAIN a.rules \cup {r.id} |-> IF id = r.id THEN w ELSE a.rules[id]])
        \/ b = R!Broken
    BY <1>1, <1>2, <1>5, <1>7 DEF R!applyRule
  <2>2. b.rules = [id \in DOMAIN a.rules \cup {r.id} |-> IF id = r.id THEN w ELSE a.rules[id]]
    BY <1>4, <2>1, GoodOrBroken
  <2>3. PICK rs : rs = b.rules
    OBVIOUS
  <2>4. /\ DOMAIN rs = DOMAIN a.rules \cup {r.id} /\ rs[r.id] = w
        /\ \A id \in DOMAIN rs : id # r.id => rs[id] = a.rules[id]
    BY <2>2, <2>3
  <2>5. Obeys(rs, r.id, w)
    BY <1>3, <1>7, <2>4 DEF Obeys
  <2>6. \A id : id # r.id => Kept(a.rules, rs, id)
    BY <2>4 DEF Kept
  <2> QED
    BY <1>1, <1>2, <1>5, <2>3, <2>5, <2>6
<1> QED
  BY <1>6, <1>7

(* A pack that joins decides what its rules name, by the last of each name. *)
LEMMA FileTold ==
  ASSUME NEW a, NEW file, Listed(file), NEW layer, NEW base, R!applyLayer(a, file, layer, base).ok
  PROVE  /\ a.ok
         /\ \A id : /\ Naming(file, id) = {} => Kept(a.rules, R!applyLayer(a, file, layer, base).rules, id)
                    /\ Naming(file, id) # {} =>
                         Obeys(R!applyLayer(a, file, layer, base).rules, id, WordOf(file, id, layer))
<1>1. PICK N : N = Len(file.rules) /\ N \in Nat /\ DOMAIN file.rules = 1 .. N
  BY LenProperties DEF Listed
<1>2. PICK F : LayerTo(F, a, file, layer, base, N) /\ R!applyLayer(a, file, layer, base) = F[N]
  BY <1>1, LayerRun
<1>3. F[0] = a /\ \A n \in 1 .. N : F[n] = R!applyRule(F[n - 1], file.rules[n], file.pack, layer, base)
  BY <1>2 DEF LayerTo
<1>4. \A n \in 1 .. N : "disable" \in DOMAIN file.rules[n]
  BY <1>1 DEF Listed, Range
<1>5. PICK W : W = [n \in 1 .. N |-> [file.rules[n] EXCEPT !.layer = layer]]
  OBVIOUS
<1>6. ASSUME NEW n \in 1 .. N, F[n].ok
      PROVE  /\ F[n - 1].ok
             /\ Obeys(F[n].rules, file.rules[n].id, W[n])
             /\ \A id : id # file.rules[n].id => Kept(F[n - 1].rules, F[n].rules, id)
  <2>1. PICK r, b : r = file.rules[n] /\ b = F[n - 1]
    OBVIOUS
  <2>2. F[n] = R!applyRule(b, r, file.pack, layer, base) /\ "disable" \in DOMAIN r
    BY <1>3, <1>4, <2>1
  <2>3. R!applyRule(b, r, file.pack, layer, base).ok
    BY <1>6, <2>2
  <2>4. W[n] = [r EXCEPT !.layer = layer]
    BY <1>5, <2>1
  <2>5. /\ b.ok
        /\ Obeys(R!applyRule(b, r, file.pack, layer, base).rules, r.id, [r EXCEPT !.layer = layer])
        /\ \A id : id # r.id => Kept(b.rules, R!applyRule(b, r, file.pack, layer, base).rules, id)
    BY <2>2, <2>3, RuleTold
  <2> QED
    BY <2>1, <2>2, <2>4, <2>5
<1>7. F[N].ok
  BY <1>2
<1>8. \A n \in 0 .. N : F[n].ok
  BY <1>1, <1>6, <1>7, OkBefore
<1>9. PICK G : G = [n \in 0 .. N |-> F[n].rules]
  OBVIOUS
<1>10. ASSUME NEW id
       PROVE  /\ Naming(file, id) = {} => Kept(G[0], G[N], id)
              /\ Naming(file, id) # {} => Obeys(G[N], id, W[Max(Naming(file, id))])
  <2>1. PICK S : S = Naming(file, id)
    OBVIOUS
  <2>2. S \subseteq 1 .. N /\ \A n \in 1 .. N : n \in S <=> file.rules[n].id = id
    BY <1>1, <2>1 DEF Naming
  <2>3. \A n \in S : Obeys(G[n], id, W[n])
    <3>1. ASSUME NEW n \in S PROVE Obeys(G[n], id, W[n])
      <4>1. n \in 1 .. N /\ n \in 0 .. N /\ file.rules[n].id = id
        BY <2>2
      <4>2. Obeys(F[n].rules, id, W[n])
        BY <1>6, <1>8, <4>1
      <4> QED
        BY <1>9, <4>1, <4>2
    <3> QED
      BY <3>1
  <2>4. \A n \in (1 .. N) \ S : Kept(G[n - 1], G[n], id)
    <3>1. ASSUME NEW n \in (1 .. N) \ S PROVE Kept(G[n - 1], G[n], id)
      <4>1. n \in 1 .. N /\ n \in 0 .. N /\ n - 1 \in 0 .. N /\ file.rules[n].id # id
        BY <1>1, <2>2
      <4>2. Kept(F[n - 1].rules, F[n].rules, id)
        BY <1>6, <1>8, <4>1
      <4> QED
        BY <1>9, <4>1, <4>2
    <3> QED
      BY <3>1
  <2>5. (S = {} => Kept(G[0], G[N], id)) /\ (S # {} => Obeys(G[N], id, W[Max(S)]))
    BY <1>1, <2>2, <2>3, <2>4, LastWordHolds
  <2> QED
    BY <2>1, <2>5
<1>11. ASSUME NEW id, Naming(file, id) # {} PROVE W[Max(Naming(file, id))] = WordOf(file, id, layer)
  <2>1. Naming(file, id) \subseteq 1 .. N
    BY <1>1 DEF Naming
  <2>2. PICK m : m = Max(Naming(file, id)) /\ m \in 1 .. N
    BY <1>1, <1>11, <2>1, LastOf
  <2> QED
    BY <1>5, <2>2 DEF WordOf
<1>12. G[0] = a.rules /\ G[N] = R!applyLayer(a, file, layer, base).rules
  BY <1>1, <1>2, <1>3, <1>9
<1>13. a.ok
  <2>1. 0 \in 0 .. N
    BY <1>1
  <2> QED
    BY <1>3, <1>8, <2>1
<1> QED
  BY <1>10, <1>11, <1>12, <1>13

(* Packs as the loader finds them. *)
Packs(files) == files \in Seq(Range(files)) /\ \A f \in Range(files) : Listed(f)

(* A list of results over files, each of which lets a file speak or is silent,
   says what the last file says. *)
LEMMA FilesTold ==
  ASSUME NEW files, Packs(files), NEW N \in Nat, DOMAIN files = 1 .. N,
         NEW L, L.files = files, NEW F,
         \A n \in 1 .. N : F[n].ok =>
           /\ F[n - 1].ok
           /\ \A id : /\ n \notin Speaking(L, id) => Kept(F[n - 1].rules, F[n].rules, id)
                      /\ n \in Speaking(L, id) => Obeys(F[n].rules, id, WordOf(files[n], id, L.label[n])),
         F[N].ok
  PROVE  /\ F[0].ok
         /\ \A id : /\ Speaking(L, id) = {} => Kept(F[0].rules, F[N].rules, id)
                    /\ Speaking(L, id) # {} => Obeys(F[N].rules, id, LastWord(L, id))
<1>1. \A n \in 0 .. N : F[n].ok
  BY OkBefore
<1>2. PICK G : G = [n \in 0 .. N |-> F[n].rules]
  OBVIOUS
<1>3. ASSUME NEW id
      PROVE  /\ Speaking(L, id) = {} => Kept(G[0], G[N], id)
             /\ Speaking(L, id) # {} => Obeys(G[N], id, LastWord(L, id))
  <2>1. PICK S : S = Speaking(L, id)
    OBVIOUS
  <2>2. S \subseteq 1 .. N
    BY <2>1 DEF Speaking
  <2>3. PICK W : W = [n \in 1 .. N |-> WordOf(files[n], id, L.label[n])]
    OBVIOUS
  <2>4. ASSUME NEW n \in S PROVE Obeys(G[n], id, W[n])
    <3>1. n \in 1 .. N /\ n \in 0 .. N
      BY <2>2
    <3>2. Obeys(F[n].rules, id, WordOf(files[n], id, L.label[n]))
      BY <1>1, <2>1, <3>1
    <3> QED
      BY <1>2, <2>3, <3>1, <3>2
  <2>5. ASSUME NEW n \in (1 .. N) \ S PROVE Kept(G[n - 1], G[n], id)
    <3>1. n \in 1 .. N /\ n \in 0 .. N /\ n - 1 \in 0 .. N
      OBVIOUS
    <3>2. Kept(F[n - 1].rules, F[n].rules, id)
      BY <1>1, <2>1, <2>5, <3>1
    <3> QED
      BY <1>2, <3>1, <3>2
  <2>6. (S = {} => Kept(G[0], G[N], id)) /\ (S # {} => Obeys(G[N], id, W[Max(S)]))
    BY <2>2, <2>4, <2>5, LastWordHolds
  <2>7. ASSUME S # {} PROVE W[Max(S)] = LastWord(L, id)
    <3>1. PICK m : m = Max(S) /\ m \in 1 .. N
      BY <2>2, <2>7, LastOf
    <3> QED
      BY <2>1, <2>3, <3>1 DEF LastWord
  <2> QED
    BY <2>1, <2>6, <2>7
<1>4. G[0] = F[0].rules /\ G[N] = F[N].rules
  BY <1>2
<1>5. 0 \in 0 .. N
  OBVIOUS
<1> QED
  BY <1>1, <1>3, <1>4, <1>5

(* A layer of packs decides what its packs name, but for the other namespaces of
   a bundle. *)
LEMMA PacksTold ==
  ASSUME NEW a, NEW files, Packs(files), NEW label, NEW base, R!loadPackFS(a, files, label, base).ok
  PROVE  /\ a.ok
         /\ \A id : /\ Speaking(FromPacks(files, label), id) = {} =>
                         Kept(a.rules, R!loadPackFS(a, files, label, base).rules, id)
                    /\ Speaking(FromPacks(files, label), id) # {} =>
                         Obeys(R!loadPackFS(a, files, label, base).rules, id, LastWord(FromPacks(files, label), id))
<1>1. PICK N : N = Len(files) /\ N \in Nat /\ DOMAIN files = 1 .. N
  BY LenProperties DEF Packs
<1>2. PICK F : PacksTo(F, a, files, label, base, N) /\ R!loadPackFS(a, files, label, base) = F[N]
  BY <1>1, PacksRun
<1>3. F[0] = a /\ \A n \in 1 .. N : F[n] = R!joinPack(F[n - 1], files[n], label, base)
  BY <1>2 DEF PacksTo
<1>4. PICK L : L = FromPacks(files, label)
  OBVIOUS
<1>5. L.files = files /\ L.skips = R!NonRulePackDirs /\ \A n \in 1 .. N : L.label[n] = label
  BY <1>1, <1>4 DEF FromPacks
<1>6. \A n \in 1 .. N : Listed(files[n])
  BY <1>1 DEF Packs, Range
<1>7. ASSUME NEW n \in 1 .. N, F[n].ok
      PROVE  /\ F[n - 1].ok
             /\ \A id : /\ n \notin Speaking(L, id) => Kept(F[n - 1].rules, F[n].rules, id)
                        /\ n \in Speaking(L, id) => Obeys(F[n].rules, id, WordOf(files[n], id, L.label[n]))
  <2>1. PICK file, b : file = files[n] /\ b = F[n - 1]
    OBVIOUS
  <2>2. F[n] = R!joinPack(b, file, label, base) /\ Listed(file)
    BY <1>3, <1>6, <2>1
  <2>3. \A id : n \in Speaking(L, id) <=> file.dir \notin R!NonRulePackDirs /\ Naming(file, id) # {}
    BY <1>1, <1>5, <2>1 DEF Speaking
  <2>4. CASE file.dir \in R!NonRulePackDirs
    <3>1. F[n] = b
      BY <2>2, <2>4 DEF R!joinPack
    <3> QED
      BY <1>7, <2>1, <2>3, <2>4, <3>1 DEF Kept
  <2>5. CASE file.dir \notin R!NonRulePackDirs
    <3>1. F[n] = R!applyLayer(b, file, label, base) \/ F[n] = R!Broken
      BY <2>2, <2>5 DEF R!joinPack
    <3>2. F[n] = R!applyLayer(b, file, label, base)
      BY <1>7, <3>1, GoodOrBroken
    <3>3. R!applyLayer(b, file, label, base).ok
      BY <1>7, <3>2
    <3>4. /\ b.ok
          /\ \A id : /\ Naming(file, id) = {} => Kept(b.rules, R!applyLayer(b, file, label, base).rules, id)
                     /\ Naming(file, id) # {} =>
                          Obeys(R!applyLayer(b, file, label, base).rules, id, WordOf(file, id, label))
      BY <2>2, <3>3, FileTold
    <3> QED
      BY <1>5, <2>1, <2>3, <2>5, <3>2, <3>4
  <2> QED
    BY <2>4, <2>5
<1>8. F[N].ok
  BY <1>2
<1>9. /\ F[0].ok
      /\ \A id : /\ Speaking(L, id) = {} => Kept(F[0].rules, F[N].rules, id)
                 /\ Speaking(L, id) # {} => Obeys(F[N].rules, id, LastWord(L, id))
  BY <1>1, <1>5, <1>7, <1>8, FilesTold
<1> QED
  BY <1>2, <1>3, <1>4, <1>9

(* What a user layers on top decides what its files name. *)
LEMMA OverlaysTold ==
  ASSUME NEW a, NEW files, Packs(files), R!loadOverlays(a, files).ok
  PROVE  /\ a.ok
         /\ \A id : /\ Speaking(FromUser(files), id) = {} =>
                         Kept(a.rules, R!loadOverlays(a, files).rules, id)
                    /\ Speaking(FromUser(files), id) # {} =>
                         Obeys(R!loadOverlays(a, files).rules, id, LastWord(FromUser(files), id))
<1>1. PICK N : N = Len(files) /\ N \in Nat /\ DOMAIN files = 1 .. N
  BY LenProperties DEF Packs
<1>2. PICK F : OverlaysTo(F, a, files, N) /\ R!loadOverlays(a, files) = F[N]
  BY <1>1, OverlaysRun
<1>3. F[0] = a /\ \A n \in 1 .. N : F[n] = R!joinOverlay(F[n - 1], files[n])
  BY <1>2 DEF OverlaysTo
<1>4. PICK L : L = FromUser(files)
  OBVIOUS
<1>5. L.files = files /\ L.skips = {} /\ \A n \in 1 .. N : L.label[n] = files[n].path
  BY <1>1, <1>4 DEF FromUser
<1>6. \A n \in 1 .. N : Listed(files[n])
  BY <1>1 DEF Packs, Range
<1>7. ASSUME NEW n \in 1 .. N, F[n].ok
      PROVE  /\ F[n - 1].ok
             /\ \A id : /\ n \notin Speaking(L, id) => Kept(F[n - 1].rules, F[n].rules, id)
                        /\ n \in Speaking(L, id) => Obeys(F[n].rules, id, WordOf(files[n], id, L.label[n]))
  <2>1. PICK file, b : file = files[n] /\ b = F[n - 1]
    OBVIOUS
  <2>2. F[n] = R!joinOverlay(b, file) /\ Listed(file)
    BY <1>3, <1>6, <2>1
  <2>3. \A id : n \in Speaking(L, id) <=> Naming(file, id) # {}
    BY <1>1, <1>5, <2>1 DEF Speaking
  <2>4. PICK base : base = FALSE
    OBVIOUS
  <2>5. F[n] = R!applyLayer(b, file, file.path, base) \/ F[n] = R!Broken
    BY <2>2, <2>4 DEF R!joinOverlay
  <2>6. F[n] = R!applyLayer(b, file, file.path, base)
    BY <1>7, <2>5, GoodOrBroken
  <2>7. R!applyLayer(b, file, file.path, base).ok
    BY <1>7, <2>6
  <2>8. /\ b.ok
        /\ \A id : /\ Naming(file, id) = {} => Kept(b.rules, R!applyLayer(b, file, file.path, base).rules, id)
                   /\ Naming(file, id) # {} =>
                        Obeys(R!applyLayer(b, file, file.path, base).rules, id, WordOf(file, id, file.path))
    BY <2>2, <2>7, FileTold
  <2> QED
    BY <1>5, <2>1, <2>3, <2>6, <2>8
<1>8. F[N].ok
  BY <1>2
<1>9. /\ F[0].ok
      /\ \A id : /\ Speaking(L, id) = {} => Kept(F[0].rules, F[N].rules, id)
                 /\ Speaking(L, id) # {} => Obeys(F[N].rules, id, LastWord(L, id))
  BY <1>1, <1>5, <1>7, <1>8, FilesTold
<1> QED
  BY <1>2, <1>3, <1>4, <1>9

(* Rules in force, by what three layers say of them. *)
Decided(rs, layers, id) ==
  LET said == {k \in 1 .. 3 : Speaking(layers[k], id) # {}}
  IN IF said = {} \/ LastWord(layers[Max(said)], id).disable THEN id \notin DOMAIN rs
     ELSE id \in DOMAIN rs /\ rs[id] = LastWord(layers[Max(said)], id)

(* The stages of a load that succeeds. *)
LEMMA LoadStages ==
  ASSUME NEW packs, NEW used, NEW label, NEW mine, R!Load(packs, used, label, mine).ok
  PROVE  \E a, b, yes, no :
           /\ a = R!loadPackFS(R!Loaded(R!none), packs, "embedded", yes) /\ a.ok
           /\ b = R!loadPackFS(a, used, label, no) /\ b.ok
           /\ R!Load(packs, used, label, mine) = R!loadOverlays(b, mine)
<1>1. PICK yes, no : yes = TRUE /\ no = FALSE
  OBVIOUS
<1>2. PICK a : a = R!loadPackFS(R!Loaded(R!none), packs, "embedded", yes)
  OBVIOUS
<1>3. PICK b : b = R!loadPackFS(a, used, label, no)
  OBVIOUS
<1>4. PICK c : c = R!Load(packs, used, label, mine)
  OBVIOUS
<1>5. c = R!validRules(IF (IF a.ok THEN b ELSE a).ok THEN R!loadOverlays(IF a.ok THEN b ELSE a, mine)
                       ELSE IF a.ok THEN b ELSE a)
  BY <1>1, <1>2, <1>3, <1>4 DEF R!Load
<1>6. \A l : R!validRules(l) = l \/ R!validRules(l) = R!Broken
  BY DEF R!validRules
<1>7. c.ok
  BY <1>4
<1>8. a.ok
  <2>1. ~a.ok => c = R!validRules(a)
    BY <1>5
  <2>2. ~a.ok => ~R!validRules(a).ok
    BY <1>6, GoodOrBroken
  <2> QED
    BY <1>7, <2>1, <2>2
<1>9. b.ok
  <2>1. ~b.ok => c = R!validRules(b)
    BY <1>5, <1>8
  <2>2. ~b.ok => ~R!validRules(b).ok
    BY <1>6, GoodOrBroken
  <2> QED
    BY <1>7, <2>1, <2>2
<1>10. c = R!loadOverlays(b, mine)
  <2>1. c = R!validRules(R!loadOverlays(b, mine))
    BY <1>5, <1>8, <1>9
  <2>2. c # R!Broken
    BY <1>7, GoodOrBroken
  <2> QED
    BY <1>6, <2>1, <2>2
<1> QED
  BY <1>2, <1>3, <1>4, <1>8, <1>9, <1>10

(* What is in force after a load is what the last layer said. *)
LEMMA LoadTold ==
  ASSUME NEW packs, NEW used, NEW label, NEW mine, Packs(packs), Packs(used), Packs(mine),
         R!Load(packs, used, label, mine).ok
  PROVE  \A id : Decided(R!Load(packs, used, label, mine).rules,
                         <<FromPacks(packs, "embedded"), FromPacks(used, label), FromUser(mine)>>, id)
<1>1. PICK a, b, yes, no :
           /\ a = R!loadPackFS(R!Loaded(R!none), packs, "embedded", yes) /\ a.ok
           /\ b = R!loadPackFS(a, used, label, no) /\ b.ok
           /\ R!Load(packs, used, label, mine) = R!loadOverlays(b, mine)
  BY LoadStages
<1>2. PICK start, c : start = R!Loaded(R!none) /\ c = R!Load(packs, used, label, mine)
  OBVIOUS
<1>3. start.rules = <<>>
  BY <1>2, GoodOrBroken DEF R!none
<1>4. PICK L1, L2, L3 : L1 = FromPacks(packs, "embedded") /\ L2 = FromPacks(used, label) /\ L3 = FromUser(mine)
  OBVIOUS
<1>5. \A id : /\ Speaking(L1, id) = {} => Kept(start.rules, a.rules, id)
              /\ Speaking(L1, id) # {} => Obeys(a.rules, id, LastWord(L1, id))
  BY <1>1, <1>2, <1>4, PacksTold
<1>6. \A id : /\ Speaking(L2, id) = {} => Kept(a.rules, b.rules, id)
              /\ Speaking(L2, id) # {} => Obeys(b.rules, id, LastWord(L2, id))
  BY <1>1, <1>4, PacksTold
<1>7. \A id : /\ Speaking(L3, id) = {} => Kept(b.rules, c.rules, id)
              /\ Speaking(L3, id) # {} => Obeys(c.rules, id, LastWord(L3, id))
  BY <1>1, <1>2, <1>4, OverlaysTold
<1>8. PICK layers : layers = <<L1, L2, L3>>
  OBVIOUS
<1>9. layers[1] = L1 /\ layers[2] = L2 /\ layers[3] = L3
  BY <1>8
<1>10. PICK G : G = [n \in 0 .. 3 |-> IF n = 0 THEN start.rules ELSE IF n = 1 THEN a.rules
                                      ELSE IF n = 2 THEN b.rules ELSE c.rules]
  OBVIOUS
<1>11. G[0] = start.rules /\ G[1] = a.rules /\ G[2] = b.rules /\ G[3] = c.rules
  BY <1>10
<1>12. ASSUME NEW id PROVE Decided(c.rules, layers, id)
  <2>1. PICK S : S = {k \in 1 .. 3 : Speaking(layers[k], id) # {}}
    OBVIOUS
  <2>2. PICK W : W = [k \in 1 .. 3 |-> LastWord(layers[k], id)]
    OBVIOUS
  <2>3. W[1] = LastWord(L1, id) /\ W[2] = LastWord(L2, id) /\ W[3] = LastWord(L3, id)
    BY <1>9, <2>2
  <2>4. /\ 1 \in S <=> Speaking(L1, id) # {}
        /\ 2 \in S <=> Speaking(L2, id) # {}
        /\ 3 \in S <=> Speaking(L3, id) # {}
    BY <1>9, <2>1
  <2>5. /\ 1 \in S => Obeys(G[1], id, W[1])
        /\ 2 \in S => Obeys(G[2], id, W[2])
        /\ 3 \in S => Obeys(G[3], id, W[3])
    BY <1>5, <1>6, <1>7, <1>11, <2>3, <2>4
  <2>6. /\ 1 \notin S => Kept(G[0], G[1], id)
        /\ 2 \notin S => Kept(G[1], G[2], id)
        /\ 3 \notin S => Kept(G[2], G[3], id)
    BY <1>5, <1>6, <1>7, <1>11, <2>4
  <2>7. S \subseteq 1 .. 3
    BY <2>1
  <2>8. \A n \in S : Obeys(G[n], id, W[n])
    <3>1. \A n \in S : n = 1 \/ n = 2 \/ n = 3
      BY <2>7
    <3> QED
      BY <2>5, <3>1
  <2>9. \A n \in (1 .. 3) \ S : Kept(G[n - 1], G[n], id)
    <3>1. \A n \in (1 .. 3) \ S : (n = 1 /\ n - 1 = 0) \/ (n = 2 /\ n - 1 = 1) \/ (n = 3 /\ n - 1 = 2)
      OBVIOUS
    <3> QED
      BY <2>6, <3>1
  <2>10. (S = {} => Kept(G[0], G[3], id)) /\ (S # {} => Obeys(G[3], id, W[Max(S)]))
    BY <2>7, <2>8, <2>9, LastWordHolds
  <2>11. CASE S = {}
    <3>1. id \notin DOMAIN c.rules
      BY <1>3, <1>11, <2>10, <2>11 DEF Kept
    <3> QED
      BY <2>1, <2>11, <3>1 DEF Decided
  <2>12. CASE S # {}
    <3>1. PICK m : m = Max(S) /\ m \in 1 .. 3
      BY <2>7, <2>12, LastOf
    <3>2. W[m] = LastWord(layers[m], id)
      BY <2>2, <3>1
    <3>3. Obeys(c.rules, id, LastWord(layers[m], id))
      BY <1>11, <2>10, <2>12, <3>1, <3>2
    <3> QED
      BY <2>1, <2>12, <3>1, <3>3 DEF Decided, Obeys
  <2> QED
    BY <2>11, <2>12
<1> QED
  BY <1>2, <1>4, <1>8, <1>12

(* Without a bundle its label does not matter. *)
LEMMA NoBundle ==
  ASSUME NEW packs, NEW label, NEW mine
  PROVE  R!Load(packs, <<>>, label, mine) = R!Load(packs, <<>>, "bundle", mine)
<1>1. \A a, l, base : R!loadPackFS(a, <<>>, l, base) = a
  <2>1. ASSUME NEW a, NEW l, NEW base PROVE R!loadPackFS(a, <<>>, l, base) = a
    <3>1. PICK none : none = <<>> /\ Len(none) = 0
      BY EmptySeq
    <3>2. PICK F : PacksTo(F, a, none, l, base, Len(none)) /\ R!loadPackFS(a, none, l, base) = F[Len(none)]
      BY <3>1, PacksRun
    <3>3. F[0] = a
      BY <3>2 DEF PacksTo
    <3> QED
      BY <3>1, <3>2, <3>3
  <2> QED
    BY <2>1
<1> QED
  BY <1>1 DEF R!Load

-----------------------------------------------------------------------------
(* The scan *)

(* What is known of the rules at each stage of a scan. *)
Loading(files) == R!Load(world.embedded, files, "bundle", world.overlays)
RulesInv ==
  /\ world \in Worlds
  /\ stage \in {"select", "read", "match", "done", "cancelled"} =>
       InForce(bundle) \/ (InForce(<<>>) /\ ~Loading(bundle).ok)
  /\ stage = "fallback" => ~Loading(bundle).ok
  /\ stage = "usage" => ~Loading(<<>>).ok \/ ~C!Select(catalog, world.select).ok

(* The packs of a world are lists of packs. *)
LEMMA WorldPacks ==
  ASSUME world \in Worlds
  PROVE  Packs(world.embedded) /\ Packs(bundle) /\ Packs(<<>>) /\ Packs(world.overlays)
<1>1. Packs(world.embedded) /\ Packs(world.bundle) /\ Packs(world.overlays)
  BY DetectAssumption DEF Packs, Listed
<1>2. Packs(<<>>)
  BY DEF Packs, Range
<1> QED
  BY <1>1, <1>2 DEF bundle

(* When a load succeeds, its rules are those in force. *)
LEMMA LoadedInForce ==
  ASSUME world \in Worlds, NEW used, used \in {bundle, <<>>}, NEW label, used = <<>> \/ label = "bundle",
         R!Load(world.embedded, used, label, world.overlays).ok,
         rules' = R!Load(world.embedded, used, label, world.overlays).rules, world' = world
  PROVE  Loading(used).ok /\ \A id : Decided(rules', LayersWith(used), id)
<1>1. R!Load(world.embedded, used, label, world.overlays) = Loading(used)
  <2>1. CASE used = <<>>
    BY <2>1, NoBundle DEF Loading
  <2>2. CASE label = "bundle"
    BY <2>2 DEF Loading
  <2> QED
    BY <2>1, <2>2
<1>2. Packs(world.embedded) /\ Packs(used) /\ Packs(world.overlays)
  BY WorldPacks
<1>3. PICK p, o, l : p = world.embedded /\ o = world.overlays /\ l = "bundle"
  OBVIOUS
<1>4. R!Load(p, used, l, o).ok /\ rules' = R!Load(p, used, l, o).rules
  BY <1>1, <1>3 DEF Loading
<1>5. \A id : Decided(R!Load(p, used, l, o).rules,
                      <<FromPacks(p, "embedded"), FromPacks(used, l), FromUser(o)>>, id)
  BY <1>2, <1>3, <1>4, LoadTold
<1>6. LayersWith(used) = <<FromPacks(p, "embedded"), FromPacks(used, l), FromUser(o)>>
  BY <1>3 DEF LayersWith
<1>7. \A id : Decided(rules', LayersWith(used), id)
  BY <1>4, <1>5, <1>6
<1> QED
  BY <1>1, <1>3, <1>4, <1>7

(* InForce is that every rule is decided. *)
LEMMA InForceIs ==
  ASSUME NEW used, \A id : Decided(rules, LayersWith(used), id) PROVE InForce(used)
  BY DEF InForce, Decided

(* So it is after a step. *)
LEMMA InForceNext ==
  ASSUME NEW used, world' = world, \A id : Decided(rules', LayersWith(used), id) PROVE InForce(used)'
  BY DEF InForce, Decided, LayersWith

(* Nothing that RulesInv speaks of changes unless the rules do. *)
LEMMA SameRules ==
  ASSUME UNCHANGED <<world, rules>>
  PROVE  /\ bundle' = bundle /\ catalog' = catalog
         /\ Loading(bundle)' = Loading(bundle) /\ Loading(<<>>)' = Loading(<<>>)
         /\ InForce(bundle) => InForce(bundle)'
         /\ InForce(<<>>) => InForce(<<>>)'
<1>1. bundle' = bundle
  BY DEF bundle
<1>2. catalog' = catalog
  BY DEF catalog, ruleDetector
<1>3. Loading(bundle)' = Loading(bundle) /\ Loading(<<>>)' = Loading(<<>>)
  BY <1>1 DEF Loading
<1>4. InForce(bundle) => InForce(bundle)'
  BY <1>1 DEF InForce, LayersWith
<1>5. InForce(<<>>) => InForce(<<>>)'
  BY DEF InForce, LayersWith
<1> QED
  BY <1>1, <1>2, <1>3, <1>4, <1>5

(* Each step of a scan keeps what is known of its rules. *)
LEMMA RulesStep == RulesInv /\ [DetectNext]_dvars => RulesInv'
<1> SUFFICES ASSUME RulesInv, [DetectNext]_dvars PROVE RulesInv'
  OBVIOUS
<1>1. CASE LoadRules
  <2>1. PICK l : l = Loading(bundle)
    OBVIOUS
  <2>2. /\ world' = world /\ rules' = l.rules
        /\ stage' = CASE l.ok -> "select" [] ~l.ok /\ bundle # <<>> -> "fallback" [] OTHER -> "usage"
    BY <1>1, <2>1 DEF LoadRules, Loading
  <2>3. world' \in Worlds /\ bundle' = bundle /\ Loading(bundle)' = l /\ Loading(<<>>)' = Loading(<<>>)
    BY <2>1, <2>2 DEF RulesInv, bundle, Loading
  <2>4. CASE l.ok
    <3>1. stage' = "select"
      BY <2>2, <2>4
    <3>2. PICK used, label : used = bundle /\ label = "bundle"
      OBVIOUS
    <3>3. R!Load(world.embedded, used, label, world.overlays) = l
      BY <2>1, <3>2 DEF Loading
    <3>4. \A id : Decided(rules', LayersWith(used), id)
      BY <2>2, <2>4, <3>2, <3>3, LoadedInForce DEF RulesInv
    <3>5. InForce(used)'
      BY <2>2, <3>4, InForceNext
    <3>6. InForce(bundle)'
      BY <2>3, <3>2, <3>5
    <3> QED
      BY <2>3, <3>1, <3>6 DEF RulesInv
  <2>5. CASE ~l.ok /\ bundle # <<>>
    <3>1. stage' = "fallback"
      BY <2>2, <2>5
    <3> QED
      BY <2>3, <2>5, <3>1 DEF RulesInv
  <2>6. CASE ~l.ok /\ bundle = <<>>
    <3>1. stage' = "usage"
      BY <2>2, <2>6
    <3>2. ~Loading(<<>>)'.ok
      BY <2>1, <2>3, <2>6
    <3> QED
      BY <2>3, <3>1, <3>2 DEF RulesInv
  <2> QED
    BY <2>4, <2>5, <2>6
<1>2. CASE FallBack
  <2>1. PICK used, label : used = <<>> /\ label = ""
    OBVIOUS
  <2>2. PICK l : l = R!Load(world.embedded, used, label, world.overlays)
    OBVIOUS
  <2>3. /\ stage = "fallback" /\ world' = world /\ rules' = l.rules
        /\ stage' = IF l.ok THEN "select" ELSE "usage"
    BY <1>2, <2>1, <2>2 DEF FallBack
  <2>4. world' \in Worlds /\ Loading(bundle)' = Loading(bundle) /\ Loading(<<>>)' = Loading(<<>>)
    BY <2>3 DEF RulesInv, bundle, Loading
  <2>5. ~Loading(bundle)'.ok
    BY <2>3, <2>4 DEF RulesInv
  <2>6. l = Loading(<<>>)
    BY <2>1, <2>2, NoBundle DEF Loading
  <2>7. CASE l.ok
    <3>1. stage' = "select"
      BY <2>3, <2>7
    <3>2. \A id : Decided(rules', LayersWith(used), id)
      BY <2>1, <2>2, <2>3, <2>7, LoadedInForce DEF RulesInv
    <3>3. InForce(used)'
      BY <2>3, <3>2, InForceNext
    <3>4. InForce(<<>>)'
      BY <2>1, <3>3
    <3> QED
      BY <2>4, <2>5, <3>1, <3>4 DEF RulesInv
  <2>8. CASE ~l.ok
    <3>1. stage' = "usage"
      BY <2>3, <2>8
    <3> QED
      BY <2>4, <2>6, <2>8, <3>1 DEF RulesInv
  <2> QED
    BY <2>7, <2>8
<1>3. ASSUME UNCHANGED <<world, rules>>, stage' = stage PROVE RulesInv'
  BY <1>3, SameRules DEF RulesInv
<1>4. ASSUME UNCHANGED <<world, rules>>, stage \in {"read", "match"}, stage' \in {"match", "done", "cancelled"}
      PROVE  RulesInv'
  BY <1>4, SameRules DEF RulesInv
<1>5. CASE SelectDetectors
  <2>1. UNCHANGED <<world, rules>> /\ stage = "select"
    BY <1>5 DEF SelectDetectors
  <2>2. \/ stage' = "usage" /\ ~C!Select(catalog, world.select).ok
        \/ stage' \in {"read", "done"}
    BY <1>5 DEF SelectDetectors
  <2>3. CASE stage' = "usage" /\ ~C!Select(catalog, world.select).ok
    <3>1. C!Select(catalog, world.select)' = C!Select(catalog, world.select)
      BY <2>1, SameRules
    <3> QED
      BY <2>1, <2>3, <3>1 DEF RulesInv
  <2>4. CASE stage' \in {"read", "done"}
    BY <2>1, <2>4, SameRules DEF RulesInv
  <2> QED
    BY <2>2, <2>3, <2>4
<1>6. CASE ReadFile
  BY <1>4, <1>6 DEF ReadFile
<1>7. CASE RunRule
  BY <1>3, <1>7 DEF RunRule
<1>8. CASE FileDone
  BY <1>4, <1>8 DEF FileDone
<1>9. CASE Cancel
  BY <1>4, <1>9 DEF Cancel
<1>10. CASE UNCHANGED dvars
  BY <1>3, <1>10 DEF dvars
<1> QED
  BY <1>1, <1>2, <1>5, <1>6, <1>7, <1>8, <1>9, <1>10 DEF DetectNext

(* A scan begins before its rules are loaded. *)
LEMMA RulesInit == DetectInit => RulesInv
  BY DEF DetectInit, RulesInv

(* Whatever the built-in packs, the cached bundle and the user's files say, the
   last layer that names a rule decides it; a bundle that cannot be merged is
   left out whole, and a scan is only refused for what the user wrote. *)
THEOREM LastLayerDecides == DetectSpec => []RulesInForce
<1>1. ASSUME RulesInv PROVE RulesInForce
  <2>1. R!Load(world.embedded, bundle, "bundle", world.overlays) = Loading(bundle)
    BY DEF Loading
  <2>2. R!Load(world.embedded, <<>>, "", world.overlays) = Loading(<<>>)
    BY NoBundle DEF Loading
  <2> QED
    BY <1>1, <2>1, <2>2 DEF RulesInv, RulesInForce
<1> QED
  BY <1>1, RulesInit, RulesStep, PTL DEF DetectSpec
=============================================================================
