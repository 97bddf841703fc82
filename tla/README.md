# AIROM: models, model checking and proofs

This directory holds TLA+ modules for `airom`, a scanner that inventories the AI
components of a source tree, a repository or a container image, overlays what
is known of them (CVEs, exploited vulnerabilities, retirement dates, compliance
controls), writes documents, compares them and gates a build. Every definition
is translated from the Go source under `src/`; the `map` in `PROJECT.json` names
the lines each one stands for.

## Inventory

| Part (`src/internal/...`) | State it keeps | What it does | What makes it hard | What makes it correct |
|---|---|---|---|---|
| `engine` | two channels, errgroup, counters, one collector | producer, workers, closer, collector, `g.Wait` | cancellation and errors while every goroutine may be blocked | complete or an error; always returns; no send on a closed channel |
| `dispatch`, `detectors/project` | results per detector | file detectors in turn; project detectors on a pool | panics, refused reads, cancellation against failure | phase barrier; one detector never harms another |
| `filectx`, `xio` | memoised content, semaphore, buffer pool | one bounded read per file | stale sizes, FIFO budget, buffer reuse | every consumer told one truth; no buffer shared; no starvation |
| `engine/catalog`, `detect` index | detectors in order | selection algebra, match of files and detectors | order of tokens, globs | a selected detector sees its files, no other |
| `ruleengine` and its lexer | effective rules, masked text | layering of packs, matching of one file | region states, windows, silent fallbacks | live calls only, each by its own arguments, by the rules in force |
| `source/dirsource` | ignore state per directory, Unknowns, counters | concurrent walk; resolver | concurrent callbacks, two derivations of the ignore rules | hands out exactly what the rules leave; the resolver agrees |
| `source/imagesource` | seen paths, markers, spool budgets | squash of layers top down | broken layers, failing spools, marker scope | nothing hidden kept, nothing lost in silence, budgets |
| `source/gitsource`, `source/k8ssource` | temp clone; image list | clone and walk; list images | leftovers, partial failure | provenance, cleanup |
| `assemble` | drafts, redirects, relations | identity merge of findings | order of findings, stale keys after a fold | order independence; nothing claimed lost, nothing guessed; no dangling edge |
| `osv`, `kev`, `eol`, `compliance` | overlay on the inventory | concurrent queries; catalogs; controls | partial answers, aliases, layered and stale catalogs | what went unchecked is counted; no advisory milder than its record |
| `writer/*` | none | five documents of one inventory | separate selections and numberings | references resolve; one story |
| `diff` | two inventories | added, removed, changed, gate | identity against content | blames what changed, misses nothing |
| `app`, `cli` | configuration, inventory, error to exit with | pipeline, overlays, emit, fix, gate | each stage may fail; several targets | exit code and documents are honest |
| `rulesync` | `current.json`, version directories, `autocheck.json` | signed update, daily check | crashes and unlocked races on disk | only verified content; pointer last; an update moves it forward |
| `fix`, `app/fix.go` | manifests on disk, applied results | plan, rewrite, verify, revert | foreign edits, shared lines, interrupted resolvers | moves its own pins only; blames and undoes truthfully |
| `fix/fixui` | cursor, scroll, layout, last frame | interactive table over the plan | resizes and events against the frame drawn before them | a click acts on what was shown; a frame fits |
| detectors, metrics, tui, classify, bench, perf, conformance | none across files | parsing, formatting, measuring | bytes and layout | golden and fuzz tests of the repository |

Components meet in few places: the source calls the engine back for every
entry; the engine hands each entry to one worker, which builds a file context
and lets the dispatcher run the matched detectors on it; project detectors
query the source's resolver after phase 1; the assembler folds all findings;
overlays annotate the inventory; `emit`, the fixer and the gate read it. The
rule cache is shared with other processes, the working tree with other editors.

## Modules

| Module | Models | State and actions |
|---|---|---|
| `ScanContract` | what `Engine.Scan` promises | delivered entries, trouble, verdict; no goroutine in sight |
| `ScanPipeline` | `Engine.Scan`, `RunProject`, their call in `runScanPipeline` | one action per channel operation and select branch; channels are sets because results are sorted afterwards |
| `IOGate` | `xio.Weighted` over `x/sync`'s semaphore | units in use, holdings, FIFO queue; composed into `FileRead` |
| `FileRead` | `processEntry`, `filectx.File`, `Dispatcher.Process` | a program counter per worker over `load`; files grow and shrink meanwhile, and any open, read or probe may fail |
| `DirWalk` | `dirsource`: `Walk`, `walkState`, ignore files, resolver | a callback per worker and walk, queue of directories, nodes, what is published; files disappear, the context is cancelled |
| `ImageSquash` | `materialize`, `squash`, `squashLayer`, `spool`, `Clean` | markers of this layer and of those above, version kept per path, two budgets |
| `Catalog` | `Add`, `Select`, selector index, globs | operators over detectors and paths |
| `Lexer` | `Classify`, `Mask` for each configured language | recursive functions over a text of symbols |
| `RuleEngine` | `ParsePack`, layering, `validateRule`, `Load` | operators over packs |
| `Matcher` | prefilter, expressions, captures, bindings | operators over masked texts; extends `Lexer` |
| `Detect` | the rule detector of one scan, from packs to findings | composes the four above; one action per rule, fallback and cancellation |
| `Assemble` | every stage of `Build` | findings arrive one at a time in any order; then one action per stage |
| `Overlays` | `osv`, `kev`, `eol`, `compliance`: replies and catalogs | operators that annotate an inventory |
| `Policy` | `--fail-on` | operators over clauses and terms |
| `Documents` | CycloneDX, SPDX, SARIF, OpenVEX, table | which elements, references, facts and totals a document states |
| `InventoryDiff` | `diff.Compute` and the gate of `airom diff` | operators over two inventories |
| `Inventory` | assembly, overlays, documents, comparison | composes the five above; one action per overlay |
| `RuleSync` | `AutoUpdate`, `Update`, `install`, `writeCurrent`, `Active` | the disk as processes leave it, one step per truncation, write or rename; writes that fail, crashes, and time that passes |
| `ScanApp` | `Run` to exit code | flags, stages, concurrent queries, outputs and what their formats carry, compliance frameworks, gate, k8s loop |
| `FixSession` | `runFixes`, `applyAll`, `verifyFixes`, `offerRevert`, `internal/fix` | manifests as lines of pins, the read and the rename of an edit apart, foreign edits, resolver runs and verdicts, revert |
| `FixTable` | `internal/fix/fixui` | layout, frame, cursor; layout, paint, wait, handle; the terminal is resized meanwhile |
| `*_proofs` | - | theorems of `ScanPipeline`, `FileRead`, `ImageSquash`, `ScanApp`, `DirWalk`; of `RuleSync`, `Detect` and `RuleEngine` (`Rules_proofs`); of `FixSession` and `FixTable` (`Fix_proofs`); of `Inventory` and the modules it composes (`Inventory_proofs`) |

Each `MC*` module gives the constants of one of them their values. Operators
named `Action_variant`, such as `WalkClose_noJoin`, or marked as a mistake or a
mutant, are versions of a definition with a plausible mistake in it. No
specification uses them: they show that a property notices the mistake.

Abstractions that run through all modules: wording, logging and layout are left
out; content is a length, a few symbols or facts about it; a failure of the
operating system or the network is a choice; panics of detectors are failures,
as the recover handlers make them; spellings, versions and dates are small
tables, numbers and day numbers.

## Runs

| Run | Bounds | Shows |
|---|---|---|
| `scan_pipeline` | 3 files, 2 workers, both channels of capacity 1, 2 callbacks, 2 project detectors | `NoSendOnClosed`, `PhaseBarrier`, `ImplementsContract` (refinement), `EveryScanReturns` |
| `file_read` | 2 workers, 2 detectors, budget below the largest request, entries on each side of each threshold, files that grow to any length up to 4 | `ReadOnce`, `ContentHonest`, `PoolExclusive`, `EveryFileFinishes` |
| `dir_walk` | 31 trees of two directories, a default skip and five files, with ignore lines in four files; 2 workers, one walk and one pull, one file that disappears, a cancellation at any moment | `WalkIsExact`, `ResolverAgrees` |
| `image_squash` | two layers of up to two entries, three of up to one; a directory, a file in it and one beside it; sizes around every cap | `KeptIsVisible`, `NothingLost`, `BudgetsHonoured` |
| `rule_sync` | 2 processes, 2 versions, an interval of 2 units of time, a channel that moves at any moment | `OnlyGenuine`, `PointerFollowsInstall`, `AutoMovesForward`, `Throttled` |
| `detect` | files of up to three parts in several languages, packs in three layers, bundles and overlays that break, six selections | `LiveCallsOnly`, `OwnArguments`, `RulesInForce` |
| `inventory` | every two and three of fifteen findings, in every order; four worlds of catalogs, bundle, replies (with and without scores) and day; five policies | `OrderFree`, `ClaimsKept`, `NeverGuessed`, `RelationsAccounted`, `DocumentsResolve`, `DocumentsAgree`, `DiffBlamesTheCode`, `GateMissesNothing`, `AdvisoriesKept`, `LifecycleHonest` |
| `scan_app` | six kinds of component, up to two images, two compliance frameworks and a misspelt one, eight policies, all overlay flags, 1 or 2 outputs of every kind of format, 2 queries in flight | `GreenIsHonestForOneTarget`, `RedIsEarned`, `DocumentAgreesWithItself`, `SilenceIsExplained` |
| `fix_session` | four packages in two manifests, four clash sets, resolver runs that end in any way, edits and undos that fail, one foreign edit | `FixesOnlyItsPackage`, `BlameHasGrounds`, `RevertRestores`, `UnattendedEnds` |
| `fix_table` | three packages on six rows, six terminal sizes from too small to ample, two failing fixes | `FrameFits`, `ActsOnTheShown` |
| `file_hash` | as `file_read` | a violation: the SHA-256 of a header prefix is offered as that of the file |
| `fix_shared` | a line that holds several packages | a violation: a neighbour's pin is rewritten |

The bounds are small, but each is past the point where its case begins: a
channel of one slot is full with two workers, so every goroutine meets every
blocking position; two processes suffice for each pairwise race on the disk
(every property of `RuleSync` is about one version or one process and what
another does to it), and two units of time tell a clock that was set back by one
from the current one and from an expired one; two queries and a component left waiting fill the
semaphore; sizes lie below, at and above each cap; one foreign edit is enough to
move or change any line the session relies on; a fold, a conflict and a relation
across them need three findings; a rule layered three times, a file of three
parts and one window between them make every overlap of a call with its
neighbours; a grandchild directory below one with ignore lines is where the
nearest stored ancestor is neither the parent nor the root. `MaxLen`,
`MaxEdits`, `MaxFailed` and `MaxGone` bound counters that the program does not
bound; ages are counted up to the interval, past which the code does not tell them
apart; `MaxMatches` and `MaxAssigns` are caps of the code,
made small.

`detect`, `fix_table`, `image_squash` and `dir_walk` do not look for deadlock:
they stop when the file is done, the user quits, the image is cleaned up, the
walks have returned. The other runs do, and their specifications stutter only
where the program has ended.

### Where code and documentation disagree

Two runs check what a comment and a test say and find a counterexample:
`file_hash` (`filectx.go:184` against `squash.go:293`) and `fix_shared`
(`apply.go:119` and `apply_test.go:401` against `apply.go:128`).

The modules also state properties that the code does not have and that no run
checks; each says so where it is defined. They mark where a checked property
stops:

| Property | Why it does not hold | What does hold |
|---|---|---|
| `NoMaskedCancellation` (`ScanPipeline`) | a cancellation after the walk, or met by a project detector's second query, ends as a success with findings missing | `CompleteOnSuccess` (proved) for entries instead of findings |
| `TopmostVersion` (`ImageSquash`) | a whiteout of a directory hides nothing below it, a non-file does not replace a file, a failed spool makes way for the version below | `KeptIsVisible` for the markers as the code reads them, with the failed spool excepted |
| `NeverMovesBack` (`RuleSync`) | `AutoUpdate` compares with the pointer as it was when it looked, and no lock keeps a quicker process from installing something newer before it writes (`auto.go:113-133`), against "only a strictly NEWER version is installed" (`auto.go:86`) | `AutoMovesForward`: an update that nobody overtook |
| `NeverHalfInstalled` (`RuleSync`) | reinstalling the active version removes it under its pointer | `PointerFollowsInstall` |
| `GreenIsHonest` (`ScanApp`) | the k8s loop exits 0 for images it could not scan or gate | `GreenIsHonestForOneTarget` |
| `NoGateIsTheater` (`ScanApp`) | `--compliance A --fail-on compliance:B` passes `config.go:316` and never matches (`policy.go:344-347`), against the comment at `config.go:314` | `GreenIsHonestForOneTarget` for every other clause (`Covered`) |
| `NeverSilent` (`ScanApp`) | SARIF (`sarifw.go:729-750`), SPDX and OpenVEX list advisories and do not carry the number of unchecked components | `SilenceIsExplained` for native JSON and YAML, CycloneDX and the table; the warning on the terminal |
| `NoEditIsLost` (`FixSession`) | what somebody else writes between the read (`apply.go:97`) and the rename (`:352`) of an edit is overwritten, against `apply.go:64-67` | `FixesOnlyItsPackage`: nothing but such an edit is lost |
| `BlameIsProved` (`FixSession`) | a failure in words no list of `verify.go:105` has, such as pip without a network, is a conflict (`verify.go:262`), against "only a conflict the fixes CAUSED" (`app/fix.go`) | `BlameHasGrounds`: the manifest resolved before, and the resolver failed on it by itself |
| `KeepsTheMostSevere` (`Inventory`) | `moreSevere` compares scores first (`osv.go:275-280`), and a CRITICAL record that has a CVSS v4 vector only has score 0, so a scored MEDIUM one wins, against `osv.go:245` | `AdvisoriesKept`: the score never falls, the severity only for a record without a score |
| `ShippedRisksAlert` (`Documents`) | of a risk found several times one occurrence is kept; when that is one in a test, `sarifw.go:143-156` drops the risk | `ClaimsKept` and `DocumentsAgree` for the component that carries it |
| `LeverHelps` (`Overlays`) | once a bundle was merged, a rules update is the proposed cure even for a provider the bundle does not restate (`eol.go:493-501`) | `LifecycleHonest`: the warning itself is never missing |
| `ConflictsReported` (`Assemble`) | warnings of conflicting facets are collected (`assemble.go:387`, `:729`) and never reported, against section 9.2 of `docs/ARCHITECTURE.md` | `NeverGuessed`: findings of two ecosystems or vendors are not joined |
| `QuotedIsVerbatim` (`Detect`) | quotes are stripped before the question whether a bare word names a variable (`matcher.go:408-409`) | `OwnArguments` |
| `ResolverSeesNoMore` (`DirWalk`) | a link on the way, or an unlistable directory, is passed by the resolver (`dirsource.go:415`, `:480`) | `ResolverAgrees` |

More exceptions stand in the checked properties themselves:

* `BlameHasGrounds` and `RevertRestores` are about sessions in which nobody else
  edits the tree, and `FixesOnlyItsPackage` is run with one pin per line and one
  foreign edit. Two foreign edits that bring a pin back to the fixed version make
  the revert take it for its own. The pins of an undo that failed stay
  (`fix.go:261-272`), and `RevertRestores` excepts those that were reported.
* `ContentHonest` excepts a full buffer behind which the read of one byte more
  failed or returned nothing: `filectx.go:153` drops that error, and the prefix
  counts as the whole file, hash and all.
* `Throttled` excepts checks whose time could not be written or read back: the
  clock is best-effort (`auto.go:52-62`), against "at most once per Interval"
  (`auto.go:80-81`). It also excepts the moment in which another check replaces
  the file, which `os.WriteFile` empties first, and it counts from the beginning
  of the check that ended last, since a slow one leaves the older time
  (`auto.go:109`).
* `ImplementsContract` lets a repeated delivery pass as a stutter; that an entry is
  collected once is the theorem `Completeness`.
* `ClaimsKept` lets a configuration value go that some model binds by that name in the
  same file (`BoundElsewhere`), without the window of twelve lines in which the code
  binds. The model files a captured parameter under its bare name, the code under
  `param.<name>`.

## Fairness

* `ScanPipeline`: weak fairness of the walk, of each worker, of the gathering
  goroutines, of each project detector and of `RunProject`'s return. The Go
  scheduler runs every runnable goroutine, and detectors terminate because their
  input is capped. Cancelling and failing sources are never forced.
* `FileRead`: weak fairness of each worker. It suffices because the semaphore is
  a FIFO queue; nobody is granted past the head.
* `FixSession`: weak fairness of the session; a resolver run has a deadline. A
  user is not required to answer, hence `UnattendedEnds` is about `--fix-all`
  without a terminal.
* `Inventory`: weak fairness of its only, sequential, next step. No property
  that is run depends on it.

`ScanApp`, `ImageSquash`, `RuleSync`, `DirWalk`, `Detect` and `FixTable` state
safety only.

## Proofs

The proved theorems hold for every value of the constants the named assumption
allows. In each module the argument is `Init => IInv`, `IInv` preserved by every
action, and each property from `IInv`.

* `ScanPipeline_proofs` (`PipelineAssumption`: finite sets of files and workers,
  capacities of at least one, any number of project detectors). `IInv` says where
  every file is: pending, in a callback's select, in `tasks`, in a worker's
  hands, in `results` or collected; in one of these places at most, and in one at
  least as long as the walk met no error; a worker that left with a file in its
  hands has left an error behind. "Every entry was collected" only follows, at
  the return of `g.Wait`, from all the other places being empty, so neither
  `Completeness` nor the refinement is inductive without it. Proved: `TypeCorrect`,
  `ChannelsSafe`, `Completeness`, `Barrier` and `Refinement`
  (`Spec => ImplementsContract`: every step is a step of `ScanContract` or changes
  nothing of it).
* `Rules_proofs`, the bundle cache (`RuleSyncAssumption`: any number of processes and versions,
  with and without a mirror or the skipped signature). `IInv` adds what the
  processes carry: no forged manifest in any hands, a process about to write the
  pointer has renamed its version into place, an automatic update asks for the
  version it found newer, the pointer is as it was for whoever looked at it and was not
  overtaken, and the age on disk is that of the check that ended last, unless that was
  lost or is being replaced. Proved: `TypeCorrect`, `Genuineness`, `PointerLast`, and
  the action properties `MovesForward` and `Throttle`.
* `Rules_proofs`, the rules of a scan (`DetectAssumption`: in every world the packs of a
  layer and the rules of a pack are sequences, and a rule has an identifier, a layer
  and a mark that disables it; nothing else is asked of packs, bundle, overlays,
  selection or file). One fact carries the argument, `LastWordHolds`: along a
  sequence of rule sets in which a step either obeys a word about a rule or
  leaves that rule as it was, the last word holds at the end. It is used three times: for
  the rules of a pack, the packs of a layer, and the three layers of a load
  (`FileTold`, `PacksTold`, `OverlaysTold`, `LoadTold`). `RulesInv` says what each
  stage of a scan knows: whether the bundle was merged or the load with it failed.
  Proved: `LastLayerDecides` (`RulesInForce`).
* `FileRead_proofs` (`FileReadAssumption`). `IInv` is the range of the variables,
  `LoadInv` (where a worker is tells how far `load` has come) and `ReadInv` (what
  it knows of the stream at each place). `OneRead` needs the first, `Honesty` the
  second, in which a probe that reported nothing is remembered (`blind`); `OneOwner` says that no buffer is with two workers or with one and in
  the pool. The gate plays no part and may grant as it likes.
* `ImageSquash_proofs` (`SquashAssumption`: any images and budgets). `IInv` ties
  the markers in force to the layers above the one being read, and accounts for
  every version in the layers read so far: kept, failed, beaten by an earlier
  one, hidden, or reported. `Visibility` and `Completeness` follow at the end of
  a layer and of the image. `BookInv` says what is charged: a sum over the kept
  versions is the number of unit cells they hold, so that reserving, releasing and
  failing half-way change a set by known elements. Proved from it: `Budgets`.
* `DirWalk_proofs` (`DirWalkAssumption`: any finite tree in which every entry but
  the root has a directory above it and a link has a target; any rules, any
  workers). `SourceInv` says of every walk, at every moment, where each entry is:
  queued, in a callback's hand, handed out, ignored, pruned or below an unknown
  (`Covered`), in one place only and never below another pending one (`Once`); what
  the ignore node stored for each directory met holds, which is the lines of the
  directories on its path in the order that decides (`Lists`), so that the verdict
  of a stored node is the verdict of the whole path (`Verdict`); and what the
  counters counted (`Counted`). Proved: `Exact` and `Resolver`, for a cancellation
  and for files that disappear at any moment.
* `ScanApp_proofs` (`ScanAppAssumption`). `IInv` follows the command from place to
  place: where it may be with which configuration (`FlowInv`), what the inventory
  holds there (`KnowInv`), which output and which edit comes when (`OrderInv`), what a
  document of its format says (`DocInv`) and on which image the gate tripped (`RedInv`).
  Proved: `Green` (over the clauses that are `Covered`), `Red`, `Agreement` and
  `Silence` (of the formats that carry the count), for any configuration, frameworks
  and formats, any overlay failures and any number of queries in flight.
* `Fix_proofs`, the session (`FixSessionAssumption`: any manifests, any lines of
  pins, fixes that move a version up). `IInv`: until the first fix the tree is the
  scanned one, a verdict is about the tree it was given on or about a run that failed in
  words of no list, an offer follows from two verdicts; hence `Blame`. `AppliedInv`
  (`AppliedInvariance`): no package is fixed twice, a result names the site its package
  was found at, the revert goes over all results or none. `HeldInv` (`HeldInvariance`):
  an edit under way is one the session may make, and holds the manifest as it read
  it. `TreeInv` (`OwnTree`): as long as nobody else edits, every manifest is the
  scanned one with exactly the standing results written in, where a result that could
  not be undone stands. From
  it `Restored` (`RevertRestores`) and `OnlyItsPackage` (`FixesOnlyItsPackage` while
  nobody else edits). Both have the hypothesis `OwnPins`: a package that is declared
  on a line carries its own resolved version there. Without it they are false, which
  is what `fix_shared` shows. `OnlyItsPackageShared` allows one foreign edit at any
  moment, between the read and the rename of an edit too, on manifests of one pin a line
  (`OnePerLine`).
* `Fix_proofs`, the table (`FixTableAssumption`: any plan that is not empty, any
  terminals, resized at any moment). `TableInv`: what is painted is what the loop
  goes by until the next frame. `CursorInv` and `FitInv`: the cursor is on a row of
  the plan and within the window that `layout` computed, and the widths it computed
  add up to what the terminal has. Proved: `WhatYouSee` and `Fits`.
* `Inventory_proofs` (`AssembleAssumption`: finite sets of findings, records of a claim and
  an occurrence as `detect.Finding` is, whose kinds are those of `domain.go`, whose confidence is at most certainty, and whose relations are
  sequences of the types of `inventory.go`; lines are natural numbers and the order of
  texts is a sequence; `InventoryAssumption`: replies are sequences of records with a
  natural score or none and a severity in words, days are natural numbers or unreadable). The order of findings, the replies, the
  catalogs, the policies and the dates are arbitrary. The invariants:
  - `NamesInv`: which identities have a draft and where the redirects lead. It gives
    `Refusal` (`NeverGuessed`).
  - `KindInv`: the kind of a draft stays in the class of its identity through
    absorption, folding and minting.
  - `DraftInv`: every finding absorbed is in the draft its identity was moved to, with its
    sighting, its versions, its range and its other name, whatever was merged before and
    after; `ParamInv`: a hosted model binds only parameters of some sighting.
    With lemmas that sorting and removing repetitions leave a sighting of each place
    and detector, and that of the claims of one value the surest stays, they give
    `NothingClaimedLost` (`ClaimsKept`).
  - `RelationInv`: every claim of a relation is an edge to the only component it can
    mean, a warning, or about its own component. It gives `RelationsKept`
    (`RelationsAccounted`), with the hypothesis `Relatable`: no relation is of, or about, a
    configuration value of a name that some call gives a parameter, since
    `dropBoundAIConfig` may take such a component away and leaves its edges
    (the built-in packs and `project` detectors relate none: `configbind.go:95-114`
    names its components after files).
  - `FlowInv`: at each phase the document is what the overlays run so far make of
    the assembled inventory. From it `NothingMissed` (`GateMissesNothing`: a policy of
    terms the comparison sees, `Compared`, that the new inventory fails and
    the old one passes, is failed by the differences too), `NoAdvisoryLost`
    (`AdvisoriesKept`: the argument is an invariant of the deduplication by aliases,
    that each record lives on in a group whose score is not below its own, and whose
    severity is not either, as severities follow from scores, unless the record had no
    score and the group has one) and
    `LifecyclesHonest` (`LifecycleHonest`, with the hypothesis `BuiltInLoads` that the
    embedded catalog loads, as `eol_test.go:43` checks).
  - `RiskInv`: what a draft knows of licences, versions and downloads is what findings
    claim, and its risks are finitely many, so that a writer can number them. With
    `RelationInv` and `FlowInv` it gives `ReferencesAllResolve` (`DocumentsResolve`),
    format by format: every identifier that a document refers to is one it
    mints, and SPDX mints each once. Hypotheses: `Relatable`, as an edge that dangles
    would be a reference that does; and `Nameable`, that no two suppliers, and no two
    licences, give one fragment of an SPDX identifier, since `agent` and
    `license` would mint it twice (`spdxw.go:283`, `:325`).
  - `FormatsAgree` (`DocumentsAgree`) goes through `Coherent`: the annotated inventory
    lists finitely many components of their own identifiers, an advisory once each,
    `testOnly` as its sightings say, and an application without advisories or
    lifecycle. Of any such inventory the five documents say the same
    (`CoherentIsOneStory`): fact by fact for CycloneDX and SPDX, row by alert by
    statement for the table, SARIF and OpenVEX, whose sums are cardinalities of
    disjoint unions. Its hypothesis `Worded`: paths and versions are texts that have an
    order, and none of them, and no download location, is the `NOASSERTION` that SPDX
    writes for what is not known.
  - `GoneInv`: the steps taken so far are those of `Build`, so that the inventory of a
    run is a value of one function (`BuiltInOneGo`) and can be compared with that of other
    findings. `OnlyTheCodeBlamed` (`DiffBlamesTheCode`) follows two such values from
    stage to stage: drafts that agree in kind and sightings but for the names of a set
    (`AgreeBut`: of no name after a bump, of the name of the finding that went)
    still do after absorption, folding, minting and binding, because a redirect
    goes from a name to the same name; what agrees is handed over or dropped
    alike, unless it is a configuration value that a model now binds or no longer binds.

  `GateIsExact` is about any two inventories whose components have identifiers of
  their own: the gate judges exactly the components that are not in the old one as
  they are in the new.

Recursive functions over data (the folds of `mergeAll`, `Rows`, the sums of the
budgets) are reasoned about by induction as a fact about sets of naturals: a set
of them that is not empty has a least member.

Only model-checked: liveness (`EveryScanReturns`, `EveryFileFinishes`,
`UnattendedEnds`), which is out of the prover's reach; `OrderFree`, which is not true of
every finding one could make up: the model counts confidence in thousandths and rounds at each
step, so three relation claims behind one edge, of 845, 899 and 297, give 990 or 989 in another
order, and the run shows it for its candidates; and the two of `Detect` about what a rule finds (`LiveCallsOnly`,
`OwnArguments`), which rest on scans of a text, symbol by symbol, and on library
folds the prover does not see into.
The hypotheses `Relatable`, `Nameable` and `Worded` hold of every set of findings the
run `inventory` scans.

## Not modelled, and why

`PROJECT.json` lists every component with its status and a note.

* File detectors, and in the project detectors the derivation of findings from
  their inputs: parsers of one file each, covered by golden and fuzz tests.
  `Inventory` takes their findings as input, `ScanPipeline` their failures.
* The clone of `gitsource` and the listing of `k8ssource`: sequences of external
  commands. What follows them (a walk, a scan per image) is modelled.
* Metrics, terminal colours, progress, classification tables, native YAML and
  JSON documents, model cards: formatting of an inventory that other documents
  already carry.
* Opening docker-save and OCI archives, and `untar`'s filters: byte formats.
* Regular expressions, CVSS vectors, case folding and wildcards inside ignore
  patterns: data that no property tells apart.
* `bench`, `perf`, `conformance`: developer tools, no part of a scan.

## What the models leave to the reader

Found while translating, and outside what a property says:

* Assembly. First wins for a component's group, ecosystem and download location.
  Merging optional facts turns a conflict into unknown, and a third claim makes
  it known again (`assemble.go:736`), so that fact depends on the order of
  findings; so do the method of equally sure claims and the evidence of equal
  edges. `OrderFree` is about everything else. No built-in detector sets
  licences, download location or supplier. `assemble.go:96-147` filters components
  and `finishRelations` keeps all edges, so an edge to or from a configuration
  component that `dropBoundAIConfig` removes would dangle (the
  hypothesis `Relatable` of `RelationsKept`). Neither the built-in
  packs nor `configbind.go` relate a component named like a parameter; a user's rule
  pack could.
* Overlays. A range component of which only a test or bare declaration is known
  is not queried and not reported as unchecked. The first fixed version may be
  lower than the one in use (`osv.go:437`); the fixer refuses such a move. Of several
  records of one alias the first fix that looks like a version is kept. A catalog
  of exploited vulnerabilities without a date is never stale.
* Documents. Two components, two suppliers or two licences whose names give one SPDX
  identifier collide (`spdxw.go:986`); the model's names differ (`Nameable`). A
  version that a manifest calls `NOASSERTION` reads as unknown in SPDX (`Worded`). SPDX is silent on a deprecation
  without a shutdown date. CycloneDX picks the smallest location by comparing
  `path:line` as text.
* Comparison. It does not see marks of exploitation, the severity of an
  advisory or a confidence that stays in its band. A gate over documents
  that were scanned without an overlay passes silently.
* Rules. `rule-schema.md:132` and `:162` speak of docstrings where `validateRule`
  does not, and `:100` of keywords regardless of case. A user's overlay that
  conflicts with a bundle drops the bundle. Two calls on one line bind the first
  one's arguments; a neighbour's arguments may stand inside a window; the
  prefilter can miss a keyword split by a string; `x="a"; y="b"` binds `x` only; a
  backslash at the end of a CRLF line ends a string.
* Interactive table. While the terminal is too small, enter and clicks still
  act on the row that would be shown. Type-ahead is looked up on the newest
  frame. Resizes are modelled where the loop waits.
* Directories. An ignore glob `**/n/**` covers a directory `n` and what lies below it
  (`dirsource.go:393-398`); whether the glob library also matches a file of that name
  is left out, and no tree of the run has one. The model's tree is fixed but for files that vanish. A file below
  an unlistable directory can still be opened by name.

## What is left

1. The clone of `gitsource` with its cleanup and cancellation, composed with
   `DirWalk`.
2. The queries of the project detectors against the resolver, with their
   derivations.
3. Proofs of what is still only model-checked in `Inventory` and `Detect`: that, but for
   the rounding of confidence, the order of findings does not matter, and that calls are
   live and their arguments their own.
4. The reading of image archives, with interrupted downloads and the layer cache.
