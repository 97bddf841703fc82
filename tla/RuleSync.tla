------------------------------ MODULE RuleSync ------------------------------
(***************************************************************************)
(* The signed rule-bundle cache (internal/rulesync): Update, AutoUpdate    *)
(* and Active, run by several airom processes that share one cache         *)
(* directory and no lock, against a release channel that moves while they  *)
(* talk to it.  Any process may crash between any two steps on the disk.   *)
(*                                                                         *)
(* Versions are numbers in semver order, 0 is "none".  The disk holds      *)
(* current.json, one directory per version, and autocheck.json.  Temporary *)
(* directories have names of their own and are read by nobody, so they are *)
(* left out; a bundle appears under its version by one rename.             *)
(* Times are ages, counted in fractions of the interval up to the whole of *)
(* it: what is that old, or was never recorded, counts as Interval.        *)
(***************************************************************************)
EXTENDS Integers, FiniteSets

CONSTANTS Proc,        \* the processes
          MaxVersion,  \* versions published are 1..MaxVersion
          Interval,    \* AutoOptions.Interval, in units of time
          Mirror,      \* --rules-source: one base URL, whatever version is asked for
          InsecureSkipSignature

ASSUME RuleSyncAssumption ==
    /\ MaxVersion \in Nat \ {0} /\ Interval \in Nat \ {0}
    /\ Mirror \in BOOLEAN /\ InsecureSkipSignature \in BOOLEAN

VARIABLES
    latest,     \* the channel's latest release
    current,    \* current.json: a version, 0 (no file) or Torn
    dir,        \* per version: "absent", "partial", "genuine", "forged"
    installed,  \* versions that were ever renamed into place
    stamp,      \* the age of the time in autocheck.json
    ended,      \* how long ago the check that ended last began (history)
    lost,       \* since a check last recorded itself, autocheck.json could not be
                \* read or written (history)
    pc,         \* per process: where it is
    auto,       \* per process: AutoUpdate, or an explicit update
    age,        \* per process: how long ago its check began
    want,       \* per process: Options.Version, 0 for the latest
    from,       \* per process: what AutoUpdate found active
    got,        \* per process: the version the manifest declares
    forged,     \* per process: the manifest is not the publisher's
    overtaken   \* processes since whose look at the pointer another wrote it (history)

Version == 1..MaxVersion
Torn == MaxVersion + 1

clockVars == <<stamp, ended, lost>>
diskVars == <<current, dir, installed>>
procVars == <<auto, age, want, from, got, forged>>
vars == <<latest, clockVars, diskVars, pc, procVars, overtaken>>

Init ==
    /\ latest \in Version
    /\ current = 0
    /\ dir = [v \in Version |-> "absent"]
    /\ installed = {}
    /\ stamp = Interval /\ ended = Interval /\ lost = FALSE
    /\ pc = [p \in Proc |-> "idle"]
    /\ auto = [p \in Proc |-> FALSE]
    /\ age = [p \in Proc |-> Interval]
    /\ want = [p \in Proc |-> 0]
    /\ from = [p \in Proc |-> 0]
    /\ got = [p \in Proc |-> 0]
    /\ forged = [p \in Proc |-> FALSE]
    /\ overtaken = {}

\* The publisher releases, or withdraws, a version.
ChannelMoves ==
    /\ latest' \in Version \ {latest}
    /\ UNCHANGED <<clockVars, diskVars, pc, procVars, overtaken>>

Older(a) == IF a < Interval THEN a + 1 ELSE Interval

TimePasses ==
    /\ stamp' = Older(stamp) /\ ended' = Older(ended)
    /\ age' = [p \in Proc |-> Older(age[p])]
    /\ UNCHANGED <<latest, diskVars, lost, pc, auto, want, from, got, forged, overtaken>>

Goto(p, where) == pc' = [pc EXCEPT ![p] = where]

\* The update returns, and with it go its locals.
Return(p) ==
    /\ want' = [want EXCEPT ![p] = 0]
    /\ from' = [from EXCEPT ![p] = 0]
    /\ got' = [got EXCEPT ![p] = 0]
    /\ forged' = [forged EXCEPT ![p] = FALSE]

\* A process ends; the machine's next one takes its place.
Exit(p) ==
    /\ Return(p)
    /\ Goto(p, "idle")
    /\ auto' = [auto EXCEPT ![p] = FALSE]
    /\ age' = [age EXCEPT ![p] = Interval]

-----------------------------------------------------------------------------
(* AutoUpdate.                                                             *)

\* Active: the pointer parses and the directory it names is there.
Active == IF current \in Version /\ dir[current] # "absent" THEN current ELSE 0

\* A scan begins: throttled, or the check is on and its time is taken.  An
\* autocheck.json that is missing, torn, or cannot be read, is no time at all.
AutoStart(p) ==
    /\ pc[p] = "idle"
    /\ \/ /\ stamp < Interval
          /\ UNCHANGED <<lost, pc, auto, age>>
       \/ /\ \/ stamp = Interval /\ UNCHANGED lost
             \/ stamp < Interval /\ lost' = TRUE
          /\ Goto(p, "active")
          /\ auto' = [auto EXCEPT ![p] = TRUE]
          /\ age' = [age EXCEPT ![p] = 0]
    /\ UNCHANGED <<latest, stamp, ended, diskVars, want, from, got, forged, overtaken>>

AutoActive(p) ==
    /\ pc[p] = "active"
    /\ from' = [from EXCEPT ![p] = Active]
    /\ overtaken' = overtaken \ {p}
    /\ Goto(p, "latest")
    /\ UNCHANGED <<latest, clockVars, diskVars, auto, age, want, got, forged>>

\* The end of the command, or of AutoUpdate but for its deferred writeAutoCheck.
Finish(p) ==
    \/ auto[p] /\ Return(p) /\ Goto(p, "clock") /\ UNCHANGED <<auto, age>>
    \/ ~auto[p] /\ Exit(p)

\* writeAutoCheck, best-effort, with the time at which the check began:
\* os.MkdirAll or the opening fails, or os.WriteFile truncates the file, ...
ClockBegin(p) ==
    /\ pc[p] = "clock"
    /\ \/ /\ ended' = age[p] /\ lost' = TRUE
          /\ Exit(p)
          /\ UNCHANGED stamp
       \/ /\ stamp' = Interval
          /\ Goto(p, "clocking")
          /\ UNCHANGED <<ended, lost, procVars>>
    /\ UNCHANGED <<latest, diskVars, overtaken>>

\* ... and writes it, or fails to.
ClockEnd(p) ==
    /\ pc[p] = "clocking"
    /\ ended' = age[p]
    /\ \/ stamp' = age[p] /\ lost' = FALSE
       \/ lost' = TRUE /\ UNCHANGED stamp
    /\ Exit(p)
    /\ UNCHANGED <<latest, diskVars, overtaken>>

isNewer(remote, active) == active = 0 \/ remote > active

AutoLatest_unpinned(p) ==
    /\ pc[p] = "latest"
    /\ \/ isNewer(latest, from[p]) /\ Goto(p, "manifest") /\ UNCHANGED <<procVars, overtaken>>
       \/ ~isNewer(latest, from[p]) /\ Finish(p) /\ overtaken' = overtaken \ {p}
    /\ UNCHANGED <<latest, clockVars, diskVars>>

\* latestVersion: the channel's manifest with its signature.
AutoLatest(p) ==
    /\ pc[p] = "latest"
    /\ \E v \in IF InsecureSkipSignature THEN Version ELSE {latest} :
          \/ /\ isNewer(v, from[p])
             /\ want' = [want EXCEPT ![p] = v]
             /\ Goto(p, "manifest")
             /\ UNCHANGED <<auto, age, from, got, forged, overtaken>>
          \/ ~isNewer(v, from[p]) /\ Finish(p) /\ overtaken' = overtaken \ {p}
    /\ UNCHANGED <<latest, clockVars, diskVars>>

-----------------------------------------------------------------------------
(* Update.                                                                 *)

\* `airom rules update [version]`.
UpdateStart(p) ==
    /\ pc[p] = "idle"
    /\ \E v \in Version \cup {0} : want' = [want EXCEPT ![p] = v]
    /\ Goto(p, "manifest")
    /\ UNCHANGED <<latest, clockVars, diskVars, auto, age, from, got, forged, overtaken>>

\* The version whose assets the base URL serves now.
Served(p) == IF Mirror \/ want[p] = 0 THEN latest ELSE want[p]

FetchManifest_trustsEarly(p) ==
    /\ pc[p] = "manifest"
    /\ \E v \in Version, bad \in BOOLEAN :
          /\ ~bad => v = Served(p)
          /\ want[p] # 0 => v = want[p]
          /\ got' = [got EXCEPT ![p] = v]
          /\ forged' = [forged EXCEPT ![p] = bad]
    /\ Goto(p, "tarball")
    /\ UNCHANGED <<latest, clockVars, diskVars, auto, age, want, from, overtaken>>

\* Manifest and signature are fetched, the signature verified before any field
\* is trusted, a pinned version compared, the minAirom floor and the build time
\* checked.  What verifies is the publisher's.
FetchManifest(p) ==
    /\ pc[p] = "manifest"
    /\ \E v \in Version, bad \in BOOLEAN :
          /\ bad => InsecureSkipSignature
          /\ ~bad => v = Served(p)
          /\ want[p] # 0 => v = want[p]
          /\ got' = [got EXCEPT ![p] = v]
          /\ forged' = [forged EXCEPT ![p] = bad]
    /\ Goto(p, "tarball")
    /\ UNCHANGED <<latest, clockVars, diskVars, auto, age, want, from, overtaken>>

FetchBundle_pointerFirst(p) ==
    /\ pc[p] = "tarball"
    /\ current' = got[p]
    /\ Goto(p, "remove")
    /\ UNCHANGED <<latest, clockVars, dir, installed, procVars, overtaken>>

\* The bundle, whose checksum must be the manifest's, is extracted to a
\* temporary directory.
FetchBundle(p) ==
    /\ pc[p] = "tarball"
    /\ Goto(p, "remove")
    /\ UNCHANGED <<latest, clockVars, diskVars, procVars, overtaken>>

Fails_clockStopped(p) ==
    /\ pc[p] \in {"latest", "manifest", "tarball", "remove", "removing", "rename",
                  "write", "writing"}
    /\ ended' = IF auto[p] THEN age[p] ELSE ended
    /\ Exit(p) /\ overtaken' = overtaken \ {p}
    /\ UNCHANGED <<latest, stamp, lost, diskVars>>

\* An error on the way, from the network, a check, the archive or the disk:
\* Update returns it, and AutoUpdate keeps it to itself.
Fails(p) ==
    /\ pc[p] \in {"latest", "manifest", "tarball", "remove", "removing", "rename",
                  "write", "writing"}
    /\ Finish(p) /\ overtaken' = overtaken \ {p}
    /\ UNCHANGED <<latest, clockVars, diskVars>>

\* install, os.RemoveAll(final): the files go one by one, then the directory.
RemoveBegin(p) ==
    /\ pc[p] = "remove"
    /\ dir' = [dir EXCEPT ![got[p]] = IF @ = "absent" THEN @ ELSE "partial"]
    /\ Goto(p, "removing")
    /\ UNCHANGED <<latest, clockVars, current, installed, procVars, overtaken>>

RemoveEnd(p) ==
    /\ pc[p] = "removing"
    /\ dir' = [dir EXCEPT ![got[p]] = "absent"]
    /\ Goto(p, "rename")
    /\ UNCHANGED <<latest, clockVars, current, installed, procVars, overtaken>>

\* os.Rename(tmp, final), which fails when another process got there first.
Rename(p) ==
    /\ pc[p] = "rename"
    /\ dir[got[p]] = "absent"
    /\ dir' = [dir EXCEPT ![got[p]] = IF forged[p] THEN "forged" ELSE "genuine"]
    /\ installed' = installed \cup {got[p]}
    /\ Goto(p, "write")
    /\ UNCHANGED <<latest, clockVars, current, procVars, overtaken>>

\* Whoever has looked at current.json is overtaken by another's write to it.
Others(p) == {q \in Proc \ {p} : auto[q] /\ from[q] # 0}

\* writeCurrent: os.WriteFile truncates, then writes.
WriteBegin(p) ==
    /\ pc[p] = "write"
    /\ current' = Torn
    /\ overtaken' = overtaken \cup Others(p)
    /\ Goto(p, "writing")
    /\ UNCHANGED <<latest, clockVars, dir, installed, procVars>>

WriteEnd(p) ==
    /\ pc[p] = "writing"
    /\ current' = got[p]
    /\ overtaken' = (overtaken \ {p}) \cup Others(p)
    /\ Finish(p)
    /\ UNCHANGED <<latest, clockVars, dir, installed>>

\* The process is killed; no deferred function runs.
Crash(p) ==
    /\ pc[p] # "idle"
    /\ lost' = (lost \/ pc[p] = "clocking")
    /\ Exit(p) /\ overtaken' = overtaken \ {p}
    /\ UNCHANGED <<latest, stamp, ended, diskVars>>

Step(p) ==
    \/ AutoStart(p) \/ AutoActive(p) \/ AutoLatest(p) \/ ClockBegin(p) \/ ClockEnd(p)
    \/ UpdateStart(p)
    \/ FetchManifest(p) \/ FetchBundle(p)
    \/ RemoveBegin(p) \/ RemoveEnd(p) \/ Rename(p) \/ WriteBegin(p) \/ WriteEnd(p)
    \/ Fails(p) \/ Crash(p)

Next == ChannelMoves \/ TimePasses \/ \E p \in Proc : Step(p)

Spec == Init /\ [][Next]_vars

-----------------------------------------------------------------------------
(* Properties.                                                             *)

\* The range of every variable.
TypeOK ==
    /\ latest \in Version
    /\ current \in Version \cup {0, Torn}
    /\ dir \in [Version -> {"absent", "partial", "genuine", "forged"}]
    /\ stamp \in 0..Interval /\ ended \in 0..Interval /\ lost \in BOOLEAN
    /\ pc \in [Proc -> {"idle", "active", "latest", "manifest", "tarball", "remove",
                        "removing", "rename", "write", "writing", "clock", "clocking"}]
    /\ auto \in [Proc -> BOOLEAN]
    /\ age \in [Proc -> 0..Interval]
    /\ want \in [Proc -> Version \cup {0}]
    /\ from \in [Proc -> Version \cup {0}]
    /\ got \in [Proc -> Version \cup {0}]
    /\ forged \in [Proc -> BOOLEAN]
    /\ overtaken \in SUBSET Proc
    /\ installed \in SUBSET Version
    /\ \A p \in Proc : pc[p] \in {"tarball", "remove", "removing", "rename", "write",
                                  "writing"} => got[p] \in Version

\* The signature guards the disk: unless it was explicitly skipped, nothing but
\* the publisher's bundle ever stands under a version, whatever processes raced
\* or crashed on the way.
OnlyGenuine ==
    ~InsecureSkipSignature => \A v \in Version : dir[v] # "forged"

\* current.json comes last: whatever failed, crashed or ran at the same time,
\* it never names a version that has not been verified, extracted whole and
\* renamed into place.
PointerFollowsInstall == current \in Version => current \in installed

\* AutoUpdate moves the pointer forward: when it found a bundle active, and
\* nobody else wrote the pointer since it looked, the version it is about to
\* write is newer than the one in place, even when the channel is rolled back
\* between the check and the installation.
AutoMovesForward ==
    [][\A p \in Proc :
          auto[p] /\ from[p] # 0 /\ p \notin overtaken /\ pc[p] = "write" /\ pc'[p] = "writing"
             => current \in Version /\ got[p] > current]_vars

\* "Only a strictly NEWER version is installed" (AutoUpdate), of the pointer as
\* it is when it is written.  No configuration checks it, the code does not have
\* it: a slow update takes back what a quicker process installed meanwhile.
NeverMovesBack ==
    [][\A p \in Proc :
          auto[p] /\ pc[p] = "write" /\ pc'[p] = "writing" /\ current \in Version
             => got[p] > current]_vars

\* One check a day: once a check has come to its end, successful or not, no scan
\* dials before it is an interval old, unless its time could not be recorded or
\* read, or is just being replaced by that of another check.
Throttled ==
    [][\A p \in Proc : pc[p] = "idle" /\ pc'[p] = "active" =>
          \/ ended = Interval
          \/ lost'
          \/ \E q \in Proc : pc[q] = "clocking"]_vars

\* current's comment: written last "so a reader never sees it point at a
\* half-installed version".  No configuration checks it, the code does not
\* have it: reinstalling the active version removes it under its pointer.
NeverHalfInstalled ==
    current \in Version => dir[current] \in {"genuine", "forged"}
=============================================================================
