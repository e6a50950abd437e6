# Formal model of the Pathfinder data path

TLA+ modules for the durable, concurrent and crash-prone parts of Pathfinder
(`src/pathfinder/`), their TLC configurations, and TLAPS proofs.

Run a model with `tlc -config X.cfg M` and a proof with `tlapm M.tla`; the pairs
are listed under [Runs](#runs) and [Proofs](#proofs).

## The system

Pathfinder runs matrices of trials over eight logical nodes. A trial reads
indexed raw or derived data, has a model answer a question, and has the answer
scored against labels nobody else can see. The services are threaded HTTP
servers over SQLite files, directories or memory; the runs are command-line
processes that keep a journal, submit workflows to FlowMesh (external) and may
be started again. Beside the semantic path there are a simulator of the same
matrix, container nodes that measure it, a pilot that lets FlowMesh agents read
data through a gateway, and a reduced oracle that tries physical designs.

| part | state it keeps | operations | talks to |
|---|---|---|---|
| N1 hidden oracle (`hidden_oracle.py`) | one-shot score ledger bound to a label package | `score`, start | route coordinators |
| N1 remote verification (`full_flow_n1_remote_verification.py`) | consumed challenges | `verify` | holders of N1 evidence |
| N4 derived store (`n4_derived_data_plane.py`, `n4_publication_http.py`) | publications, current pointer, generation directories | `publish` | provisioning clients |
| N5 frame service (`n5_materialization.py`) | staged sources, results, request rows; in-flight ids, runtime memory | stage, `execute`, `result` | provisioning clients |
| N5 digest service (`n5_digest_http.py`, `n5_digest_materialization.py`) | sources, output directories, request records | stage, `execute`, `result` | vision model, provisioning clients |
| bulk provisioning (`full_flow_bulk_live_provisioning.py`) | journal, receipts, checkpoints, aggregate | run, resume, verify | N5, N4 |
| N7/N8 artifact cache (`full_flow_cache.py`) | index, payload files, LRU order | `lookup`, `put`, start | route adapters |
| route coordinator (`full_flow_semantic_route_runtime.py`, `..._service_factory.py`) | one row for each trial | `execute` | N1 to N6, FlowMesh |
| cache adapter and lineage (`full_flow_route_adapters.py`) | who inserted which key in which epoch | `lookup`, `read`, `insert` | cache, node |
| semantic matrix runner (`full_flow_matrix_runner.py`, `semantic_matrix_trial.py`) | journal, checkpoints, final documents | run, resume with acknowledgement, verify | FlowMesh |
| W4 coordinators and runner (`full_flow_w4_flowmesh_service.py`, `full_flow_w4_candidate_coordinator.py`, `w4_candidate_matrix.py`) | one row for each trial, cache contents in memory | `execute`, start, run | FlowMesh, cache |
| container node (`container_node.py`, `full_flow_runtime.py`) | ledgers of operations, completions and trials; LRU caches; all in memory | `execute`, `semantic_complete`, trial | Data Agent, N6, N1 |
| container matrix runner (`container_matrix_runner.py`) | lock, contract, journal, checkpoints, failure document | run, resume, recover, adopt | FlowMesh, nodes |
| Data Agent (`data_agent_server.py`, `data_agent_client.py`) | operations, transfer rows; lock pool, reservations | access, transfer, telemetry | gateway, pilot |
| gateway and pilot (`gateway.py`, `adapter.py`, `pilot.py`) | sessions, events, records | tool calls, run, recover, reconcile | Data Agent, FlowMesh |
| discrete-event engine (`engine.py`) | heap, queues, caches, event log | one run | its scenario |
| reduced oracle and recovery (`reduced_oracle/`) | designs on disk, records, ledger of attempts, canonical result | run, plan, recover, finalize | pilot, file system |

What is hard, and what makes each part correct:

* **Threads.** Handlers of one server interleave between their transactions, and
  wait for each other on conditions and locks. N4 must not lose updates, N1 must
  score a unit once, an id must have one execution and one answer, nobody may
  wait for a wake-up that never comes, and no cache may delete what a writer or a
  reader relies on.
* **Process deaths.** Each publication, put, operation, trial and transition is
  a sequence of durable writes in different places (renames, transactions,
  journal lines). After a death between any two of them the next process must
  start, and must neither repeat an effect nor refuse its own files.
* **Lost answers and retries.** A client that never saw its answer sends the
  request again; a runner that gave up on a workflow submits another one while
  the first still runs. Effects must happen once, and all answers must agree.
* **State in two places.** Lineage and cache, telemetry and transfers, a
  coordinator's memory and an external cache, a journal and its checkpoints: one
  is read, the other changes.
* **Bounds.** Cache capacities, access budgets, challenges, admission slots,
  attempts and circuits.

`PROJECT.json` lists these hazards at their source lines, with the properties
that would catch each of them going wrong.

## Modules

| module | models | kind |
|---|---|---|
| `N4Data` | requests, generations, rows, and how a publication combines them | data |
| `N4Catalog` | one catalog changed by whole publications | abstract specification |
| `N4Store` | N4 store and its HTTP handlers | component |
| `N5Materialization` | frame service and digest service | component |
| `DerivedProvisioning` | `N4Store` and `N5Materialization` with their clients | composition |
| `DerivedProvisioningProofs` | theorems about `N4Store` alone, then about both services and their clients | proofs |
| `BulkProvisioning` | bulk N5-to-N4 coordinator, with the N4 catalog it writes to | component |
| `ScoreData` | score requests, label packages, rows | data |
| `OneShotLedger` | each evaluation unit scored once | abstract specification |
| `ScoreLedger` | N1 oracle and its HTTP handlers | component |
| `N1Verification` | `ScoreLedger` with the remote verifier | composition |
| `N1VerificationProofs` | theorems about the oracle and the verifier | proofs |
| `CacheData` | keys, contents, sizes | data |
| `LruCache` | an LRU index that drops no more than it must | abstract specification |
| `ArtifactCache` | N7/N8 cache and its HTTP handlers | component |
| `ArtifactCacheProofs` | theorems about `ArtifactCache`, and that it implements `LruCache` | proofs |
| `RouteCache` | trials of cached routes: coordinator, lineage, node, `LruCache`'s cache | composition |
| `RouteCacheProofs` | theorems about `RouteCache` | proofs |
| `RouteExecution` | FlowMesh workflows, route coordinator and its execution store | component |
| `MatrixRunner` | the semantic matrix runner over `RouteExecution` | composition |
| `MatrixRunnerProofs` | theorems about `MatrixRunner` | proofs |
| `W4Candidate` | W4 coordinators, their caches, FlowMesh and competing runners | composition |
| `W4CandidateProofs` | theorems about `W4Candidate` | proofs |
| `ContainerNode` | one container node with its ledgers, caches and trials | component |
| `FlowMeshNode` | FlowMesh and the nodes, as the container matrix runner sees them | component |
| `ContainerMatrix` | the container matrix runner over `FlowMeshNode` | composition |
| `ContainerMatrixProofs` | theorems about `ContainerMatrix` | proofs |
| `DataAgentServer` | the Data Agent's server | component |
| `PilotSession` | gateway, client, adapter and pilot over `DataAgentServer` | composition |
| `PilotSessionProofs` | theorems about `PilotSession` with `DataAgentServer` | proofs |
| `SimulatorEngine` | the discrete-event engine | component |
| `DesignTransition` | physical transitions of the reduced oracle | component |
| `OracleRecovery` | oracle and audited recovery over `DesignTransition` | composition |
| `MC...` | constants, symmetry and refinement mappings for TLC | instances |

A handler's `pc` names its next step; a step is what the code does between two
points where another thread can run or a death leaves different files: a
SELECT, a transaction, a rename, a journal line, an answer. Digests are modelled
by the value they commit to, so that equal digests mean equal contents.
Operators whose comment starts with `Mutant:` are plausible bugs; the pairs in
`PROJECT.json` (`mutants`) show that each property fails when its definition is
replaced by one of them. They are used nowhere else.

Most checked invariants are conjunctions of named parts, the module's type
invariant among them; [Runs](#runs) lists the parts.

### N4 store

`current`, `publications` and `generations` are the two SQLite tables and the
generation directories; `base` and `candidate` what a handler read and built.
`Receive` is the first part of `publish` (the replay lookup), `ReadCurrent` the
snapshot, `BuildCandidate` the package, `InstallGeneration` the rename to the
content-addressed directory, `Commit` the transaction with the repeated replay
lookup and the version comparison. `BuildFails` and `PublishFails` are the
error paths, `Crash` a death of the process. A generation directory equal to an
existing one is reused, as in the code.

Left out: the package layout, `package_id`, the HTTP framing, and
`.candidate-*` directories that a dead process leaves behind (never read again).

### N5 services and provisioning

Frame service: `Claim` is one turn of `execute`'s loop, under the condition and
in one transaction; it refuses, answers from the row, waits, or writes a
`RUNNING` row with this process's epoch. `RunPlan` is the runtime with its own
memory (an id stays bound to a plan after a failure, until a restart),
`CompleteFrames` the transaction with result and row, `RollBack` the `except`
block, `RollBackFails` that block when its own transaction fails. Digest
service: `SubmitDigest` checks plan and source before the lock, `AfterLookup` is
the decision under it, and model call, directory rename and record are steps of
their own. The model may answer anything each time. `DigestDies` restarts the
service with a registry; sources no plan names are removed.

`DerivedProvisioning` lets clients publish at N4 what they downloaded from N5.
Left out: decoding and prompts, the plan documents, temporaries of uploads and
of output directories (a name nobody looks up), and the verification of an
answer after its record is written.

### Bulk provisioning

Operation *i* publishes label *i* expecting label *i-1*. The module keeps the
four durable places apart (N4 `commits`, `receipts`, `checkpoints`, `journal`)
and writes them in the code's order. `StartResume` reads the journal with
`Readable`, the assertions of `_read_journal`. `SkipCheckpointed`,
`AdoptReceipt` and `JournalAdopted` are the resumed walk. `ExecutorFails` raises
any failure class; `ForeignPublish` is another N4 client. `Leftover` says which
temporary a write leaves when it is cut short. The history variable `wedged` records
a death in `CrashWindow`.

Left out: journal lines cut in the middle (a line is one flushed write) and the
content of the aggregate documents.

### N1 oracle and verifier

`SelectById` and `SelectByUnit` are the two SELECTs of `replay_if_present`,
outside any transaction; `ExecuteOnce` is the `BEGIN IMMEDIATE` transaction that
looks again and stores. `Start` binds the database to the mounted package.
`evidence` collects the results that reached a client, which is what the
verifier is later shown: `N1Verification` consumes a challenge before it answers
and never reads the oracle's database. `Remount` starts the verifier with other
labels. HMACs are modelled by the row they authenticate.

### Artifact cache

`put` holds `lock` from `PutBegin` to `Sweep`; `lookup` releases it before
`ReadPayload`. `Kept` is the eviction loop, `Oldest` its ORDER BY, `Reconcile`
the removal of temporaries and unreferenced payloads on start and after a put.
`Recency`, the cached keys in the order of `last_access_sequence`, is the
`order` of the abstract cache, and `LruSpec` says that the index implements it.
Left out: the event log and the migration of older databases.

### Cached routes

The cache is `LruCache`'s (which `ArtifactCache` implements: `ImplementsLru`), the node
contributes its epoch, the coordinator its rows and the lineage store. A trial
goes artifact by artifact through lookup, resolution of the lineage, read or
fetch, put, and record, any of which may meet a restart of the node, a death of
the coordinator, a lost answer, or the other execution. Repetition 0 must miss,
repetition *r* must hit what repetition *r - 1* inserted; the plans admit more
repetitions than that, and `PairsComplete` says that they never complete.

### Matrix runner and route execution

The journal is represented by the value of the left fold that `_audit_journal`
is: completed trials, last state, active trial, results. `Append` applies one
entry to it; an entry the audit would refuse makes it `invalid`. This keeps the
state finite without a bound on retries, which liveness needs. A digest passed as
acknowledgement is the latest failure's, an older one's, or none. Results are
reduced to whether the coordinator executed or replayed. A missing run
directory is an empty journal: `_initialize_run` installs it with one rename.

`RouteExecution` keeps one row for each trial and at most one running
`_execute_once`; `abandoned` counts workflows that FlowMesh still has queued
when the executor stops waiting. One coordinator stands for the trial's N7 or
N8. The stages before the score are part of the `running` execution, which may
fail at any point before or after `Score`.

Left out: the documents' contents, power loss in the middle of a journal line,
and two runners on one directory (the code has no lock; listed as a hazard).

### W4 candidate matrix

One workflow is a chain of tasks over both coordinators. `execute` runs under a
lock: `Stored` and `Replay` answer a completed trial, `Admissible` are the
checks of order, occupancy and uniqueness, then the cache life cycle of the
trial runs one operation at a time. `Start` rebuilds the memory of the cache from the
stored responses and refuses when the number of entries differs. A task that
times out leaves its request at the coordinator. Operations other than those on
the cache are one step that may fail. A read of the cache's health that fails at an
admission is left out: it writes nothing, and the caller may ask again.

### Container node and container matrix runner

`ContainerNode` has the three ledgers of the node: a repeated request waits for
the running one, is answered from the ledger, or runs; `Condition`, `Notified`
and `Raise` are their condition variables. `Inserted` is the eviction loop.
Trials add the download, the adapter whose last call's metadata is shared, and
the score.

`ContainerMatrix` has both commands on one directory, with the file lock, the
directory and the three files a fresh run creates in order, the journal (as the fold of
`_validate_journal`), checkpoints, the failure document, one audited recovery of a
phase, and the adoption of its results. A phase is reduced to its zero-byte schedule
marker and its work, since recovery and adoption tell only these apart.
Left out: contents of contract, telemetry and payloads; the statistics.

### Data Agent and pilot

The server: `Lock` is the counted lock of an access id in the pool, then replay
or execution and `put_if_absent`; a transfer is reserved in memory, sent,
recorded in SQLite and released; telemetry reads rows between two watermarks and
is stable if neither the reservations nor the generation moved. The gateway runs
tool calls under one lock with budget and slots computed from the stored events
(`Spent` sums their quoted prices). The
pilot registers, submits, binds, waits, folds telemetry into events and records
the outcome; after a death it recovers its bound session. An operation of the
session store may fail at every call of it: in a tool call (`StoreFails`), at
the registration (`PinningFails`), the binding (`BindFails`), the write-back
(`UpdateFails`), the finish of a session that is done and the read after it
(`FinishDoneFails`), at giving a session up (`FinishFails`) and when a session is
read again (`RecoverFails`). Left out: byte ranges, signatures and
authorization, inline text, the trial plan and the summaries. FlowMesh and its
agent are external.

### Discrete-event engine

One step is one action popped from the heap; the scenario is chosen at the start
from a family with zero and equal durations, full resources, evictions and
conditional operations. Durations are data of the scenario; costs, jitter, the
report and the last check that every trial executed events are left out.

### Reduced oracle and recovery

`DesignTransition` writes what the code writes in its order: ownership before the copy,
deletion before disowning, the active design, `active_plan.json`, the
observation. The oracle and its recovery have a runtime directory each and share
the files. `OracleRecovery` adds the loops over designs and trials, sessions
that outlive a process, the ledger of attempts with its limits and circuit, and
the canonical result; a death may cut the last line of a file short. One process
runs at a time. `intact` says that the incident still has the digests the plan
froze; the model starts nothing over the incident once it has changed, since
no recovery is possible any more. `astray` is a history variable: a process has
ended away from the safe design, or in a transition, and no transition to the
safe design was completed since. Left out: costs, digests, summaries, the
preparing and ready marks of single files in `transition_state.json`, and
`.tmp` files left over; the analysis files and the manifest of the oracle are one write
(`FinishRun`), and an interrupt of the recovery from the keyboard is a death.

## Runs

Each run asks one question of one part of the system; the parts of a
conjunction are in parentheses.

| run | instance | shows |
|---|---|---|
| `derived_provisioning` | N4 with 2 handlers, 4 publications and 1 death; N5 with 2 threads, 2 frame plans and 2 digest plans that reuse ids, 2 registries, 2 failures or deaths | `CommittedIsServable`, `ReplyIsDurable`, `MaterializedOnce` (`N5AnswersAgree`, `ClaimsAreOwned`), `PublishedIsMaterialized`, refinement of `N4Catalog` |
| `bulk` | 3 operations, 2 deaths, 2 failures of any class, 1 foreign publication, torn writes | `ProvisionedInOrder` (`DurableOrder`, `ChainContiguous`, `OneInFlight`, `VerifiedIsProvisioned`, `StopsForInvestigation`), `ReadableOutsideWindow`, `Provisioned` (liveness) |
| `n1_services` | 2 handlers, competing and repeated requests, 2 packages, 1 death, 1 database error, 2 challenges for 1 slot, a remount | `AnswersAreTrue` (`ReplyIsStored`, `ConflictIsJustified`, `ScoresMatchLabels`), `AttestedOnce` (`AttestationIsDurable`, `AttestedWithinCapacity`), refinement of `OneShotLedger` |
| `artifact_cache` | 2 handlers, 3 keys, capacity 3, payloads of different sizes, 1 death | `FilesAreKept` (`Restartable`, `WriterUndisturbed`), `UnreadableOnlyIfEvicted`, refinement of `LruCache` |
| `matrix_runner` | 3 trials, 2 failures, 2 deaths of runner or coordinator | `ScoredOnce`, `JournalLegal`, `NeverReexecuted`, `Settles` (liveness) |
| `container_matrix` | 2 processes, an unconditional and a conditional trial, 2 deaths, 3 failures, 1 restart of the nodes | `FilesAgree` (`JournalValidates`, `MemoryIsFile`, `DocumentIsFirst`), `MeasuredOnce` (`WorkSentOnce`, `ResultsAreMeasured`, `CompleteIsMeasured`), `Settles` (liveness) |
| `container_node` | 2 threads, 6 ids with one reused, cache of 2, 1 failure, 1 restart | `AnsweredOnce` (`AnswersAgree`, `DownloadedOnce`, `OwnMetadata`), `SleepersAreOwed`, `LruPerEpoch` |
| `route_cache` | 5 trials of 2 workloads over 3 keys in a cache of 2, 2 at a time, 1 restart, 1 death, 1 failed call | `LineageIsSound` (`LineageIsTrue`, `LineageHasBytes`), `PairsComplete` (`CompletedIsPaired`, `OnlyPairsComplete`), `NoSpuriousFailure` |
| `w4_candidate` | 2 runs, 2 nodes, 3 trials, any 2 faults | `OneExecution` (`ExecutedOnce`, `OneRun`, `PublishedIsDurable`), `CacheIsHonest` (`MissThenHit`, `CacheIsReplayed`), `Settles` (liveness) |
| `pilot_session` | 2 tool threads, 2 Data Agent threads, 1 trial, any 2 faults | `AccessesAreExact` (`ExecutesAlone`, `EventsAreOperations`, `WithinLimits`, `TransfersAccounted`), `OutcomeIsCounted` (`SubmittedOnce`, `SuccessIsCounted`, `RecordAgrees`), `CompleteIsExact`, `TrialRecorded` (liveness) |
| `simulator_engine` | some 1160 scenarios of 3 trials | `RunIsSchedule` (`PublishedIsSchedule`, `SlotsAreShared`, `AdmissionIsFifo`), `CacheIsCausal`, `Ends` (liveness) |
| `oracle_recovery` | a safe design with a file of its own, 2 overlapping candidates, 3 trials, 3 files of which 1 is foreign, 3 faults | `DesignIsActive` (`ForeignKept`, `TrialUnderDesign`, `StopsSafe`), `LedgerIsTrue` (`LedgerInOrder`, `CircuitHolds`, `CompletedNotRepeated`, `CanonicalIsTrue`), `Settles` (liveness) |

### Limits of the code that the properties name

Where the code falls short of what one would like, the property that holds says
so, and that nothing else goes wrong.

* N4's version comparison trusts labels its clients choose, although `publish`
  calls lost updates impossible. With labels that name one publication each
  (`UniqueLabels`, assumed by the run and by two theorems) no update is lost;
  nothing enforces such labels.
* A frame request whose execution fails and whose roll-back fails too stays
  in flight: requests with its id wait until the service is restarted
  (`ClaimsAreOwned`).
* A bulk run that dies between a checkpoint and its journal line writes, when
  resumed, a journal it can never read again, and one that dies before its
  first intent cannot be resumed (`CrashWindow`, in `ReadableOutsideWindow` and
  `Provisioned`).
* N1 may answer an identical concurrent request with a conflict instead of a
  replay: the two SELECTs of the lookup straddle the other's commit. The score
  is right (`ConflictIsJustified` allows for it).
* A cache lookup counted as a hit may fail to read its payload when a put evicts
  it at that moment (`UnreadableOnlyIfEvicted`: only then).
* A failed or interrupted route marks its row for ever, and a matrix run killed
  while writing a file leaves a temporary that its verification never forgives
  (`Unfinishable`, in `Settles` of `MatrixRunner`).
* A container matrix run whose process dies while its directory is created or
  between `RUN_FAILED` and the failure document, whose nodes restart, or whose
  failure is of another kind, cannot be continued (`DeadEnd`).
* The third repetition of a cached workload always fails, and an evicted
  artifact fails every later lookup of its epoch (`OnlyPairsComplete`,
  `NoSpuriousFailure`).
* A W4 execution that was cut short blocks its coordinator
  (`Ambiguous`, in `Settles` of `W4Candidate`), as documented.
* After a restart of the Data Agent, a transfer that was in progress or could not
  be recorded is unknown and its access looks quiescent (`forgotten`, in
  `TransfersAccounted`). A tool call its agent abandoned may transfer after
  the reconciliation (`SuccessIsCounted` counts what was reserved before).
* The simulator's loader accepts two route forms that the engine refuses in the
  middle of a run (`Nested`, `NamedTwice`, in `Ends`).
* A recovery that died between its last restore of a design and the
  observation, or with a line cut short in the ledger or in the transitions, can
  never be finished (`Stuck`).
* A transition away from the safe design removes the files it owns and the
  candidate does not want before it writes the active design
  (`transition.py` 257-277). After a death or an error in between, the state has
  the safe design active, and both `run_reduced_oracle` (`runner.py` 198) and
  `run_reduced_oracle_recovery` (`recovery.py` 1345) then make no transition: safe
  trials may run with a file of the safe design missing or a file of a candidate
  left over. A command also starts so when the other one has died away from the
  safe design or in a transition, since it reads only its own state (the
  recovery copies the incident's once). `TrialUnderDesign` says that this
  (`astray`) is the only way: the files of a candidate are always laid out
  exactly, those of the safe design until a process ends astray and again after
  the next completed transition to it. Files that only the other command owns
  may be there under any design (`OfOther`).
* A recovery whose transition back fails writes its manifest all the same
  (`MoveFails`, `Raise`); `StopsSafe` is about the other ends.
* The comment in `FlowMeshAgentAdapter.run` (`adapter.py` 125-128) says that once a
  session row exists every exit is a recorded one. When `finish_session` fails in
  the handler that gives a session up (166-172, 213-217, 228-234), or
  `get_session` or `list_events` in `recover`, the pilot records an
  infrastructure failure (`pilot.py` 1411-1432) and never looks at the trial
  again, while the session stays created, running or done, and one created or
  running keeps accepting tool calls. `RecordAgrees` says that these are the only
  records a session may contradict (`recorded = "unsaved"`); a failure of any
  other operation of the store ends in a failed session or none.

### Bounds

Two threads are enough for every race the code has: each check that is repeated
inside a transaction is raced by one other commit. Three operations or trials
give a first, a middle and a last one, so that a resumed run has completed,
current and untouched work at once. Two deaths allow a death during the
recovery from a death; three faults in `oracle_recovery` allow a failed trial, a
death of the oracle and one of its recovery, or one infrastructure failure more
in a row than the circuit lets a process have; a start of the oracle over an
incident that has a plan counts as a fault of the operator. Its designs are the
smallest in which every step of a transition meets a file that matters: a
transition to `local` removes the safe design's only file, one to `pair` keeps
it, the two candidates share a file, and one file of `local` is foreign.
Requests are chosen so that they compete for a version, a unit or a key, reuse
an id for another content, and exceed the capacity.

Bounds of the exploration: `MaxCrashes`, `MaxDeaths`, `MaxRestarts`,
`MaxFailures`, `MaxFaults`, `MaxForeign`, `MaxJournal`, `MaxSequence`,
`MaxRemounts`, `MaxConcurrent`, `MaxCalls` (calls open at a time over N4 and
N5), `MaxEvents` and `MaxTransfers`. The code's own limits: `Capacity`,
`MaxVerifications`, `MaxAccesses`, `Budget`, `MaxRetries`, `MaxConsecutive` and
`MaxAttempts`. Symmetry is used where handlers, threads or trials are alike and
no liveness is checked (`derived_provisioning`, `container_node`).

`CHECK_DEADLOCK FALSE` is said where the system rightly stops for good: a
refused or dead-ended run (`bulk`, `container_matrix`, `w4_candidate`,
`oracle_recovery`), trials that are all done (`route_cache`), and ids that wait
for a restart (`derived_provisioning`).

### Fairness

Weak fairness of each process's own steps: a thread of a server, a runner, a
coordinator, the engine and FlowMesh keep running. Weak fairness of the operator
who starts a stopped run again: the liveness of a resumable run is a promise to
an operator who resumes it, with the digest the failure names. Strong fairness in
three places: a caller that waits for a W4 coordinator's lock gets it in the end,
although others take it in between; the deadline of the pilot's poll for
quiescence passes, although every poll restarts the wait (it is a clock); and the operator starts
a recovery again, although an oracle run may hold the machine in between.
Failures, deaths, lost answers and new requests are never fair.

## Proofs

The first part of `DerivedProvisioningProofs` is about `N4Store` and holds for
every set of handlers, requests, keys, contents and labels and any number of deaths, under `DataAssumption` and `HandlerAssumption`
(requests are well typed, the null values are not data).

* `TypeCorrect`, `Servable` (`CommittedIsServable`), `DurableReplies`
  (`ReplyIsDurable`), `FinalReceipts` (a stored receipt is never rewritten).
* `ImplementsCatalog` (`CatalogSpec`) and `OneChain` (no catalog version is
  replaced twice), assuming `UniqueLabels`: no two requests commit one label.

The inductive invariant adds to the properties what a handler knows between its
steps: its `base` was committed and had the version it expects, the package it
is about to commit is in its directory already, and a stored row carries its
request's label and artifacts. With unique labels an equal label in the commit
transaction then means that the base is still current (`CommitReplacesBase`),
which makes the commit a step of the abstract catalog.

`MatrixRunnerProofs` holds for every number of trials, failures and deaths, under
`MatrixAssumption`: `TypeCorrect`, `OneScore` (`ScoredOnce`), `LegalJournal`
(`JournalLegal`), `NoSecondCall` (`NeverReexecuted`). The invariant relates a
row to its execution and the score it spent (`RowInv`), a workflow that ended
well to the stored evidence (`WorkflowInv`), the runner's step to the last
journal entry (`PhaseInv`), and checkpoints to the journal (`CheckpointInv`).
`RowInv` is the heart: a score is spent only by the one execution that found no
row, and no row ever disappears.

`N1VerificationProofs` is about the oracle with its verifier (`SystemSpec`), for
every set of requests and label packages, every capacity and any number of
deaths, database errors and remounts: `TrueAnswers` (`AnswersAreTrue`),
`ImplementsOneShotLedger` (`OneShotSpec`), `AttestsDurableScores`
(`AttestedOnce`). The invariant says that a service is mounted with the package
its database is bound to (`MountInv`), that a row is filed under its request's id
and scored with that package (`RowInv`), and what a handler knows between the two
SELECTs and the transaction (`HandlerInv`). Since rows stay (`RowsStay`), whatever
made an answer true when it was decided is true when it is sent, and what the
verifier consumed stays durable although it never sees the table. The
assumptions are those of `ScoreData`, `ScoreLedger` and `N1Verification`
(requests well typed, null values not data, at least one slot).

The rest of `DerivedProvisioningProofs` is about N5 and N4 with their clients:
`N5Invariance`, `Materialized` (`MaterializedOnce`), `PublishedEvidence`
(`PublishedIsMaterialized`), and `SystemUsesStore`, by which all theorems about
the store hold inside the composition. The core is `OwnInv`: the ids in
flight are exactly the `RUNNING` rows of this process's epoch, and each has one
owner that works on the row's plan, unless its roll-back failed. For the digests the
holder of the lock is the only one between lookup and record, and a call of the
model that left no output is paid for by a fault (`DigestInv`). Provenance
follows because bundles, outputs and records are never taken back
(`EvidenceStays`). The assumptions are `N5Assumption` and those of `N4Store`.

`W4CandidateProofs`, under `W4Assumption` (every trial has a node and is a first
or a second repetition): `Invariance`, `ExecutesOnce` (`OneExecution`),
`HonestCache` (`CacheIsHonest`). A coordinator sees its own trials only; that an
execution stands on completed ones of its own run is brought to it by the chain
of tasks. Hence the invariant follows that fact through rows, requests and
workflows (`RowChain`, `RequestChain`, `FlowChain`), and `CacheInv` keeps three
pictures of a cache together: stored responses, memory, external cache.

`RouteCacheProofs`, under `RouteCacheAssumption`: `Invariance`, `SoundLineage`
(`LineageIsSound`), `CompletePairs` (`PairsComplete`), `FailsForAReason`
(`NoSpuriousFailure`). The assumption that an artifact belongs to one workload and occurs
once in it is what `_normalise_artifact_bindings` and
`_normalise_public_tasks` enforce (`full_flow_semantic_matrix.py`); without it two
workloads could complete each other's pairs. The invariant says what an
execution has obtained so far, in which epoch (`GotInv`), what its current stage
knows about the cache and the lineage (`StageInv`), and that only a first
repetition puts (`PutInv`).

`ContainerMatrixProofs`, for any number of trials, commands, failures, deaths and
restarts of the nodes, under `ContainerAssumption` and `ProcessAssumption`:
`Invariance`, `FilesStayTrue` (`FilesAgree`), `MeasuresOnce` (`MeasuredOnce`). The work of
a phase is sent once because a phase is submitted only when no workflow of its
that FlowMesh ever accepted is `Active`: can still send its work, or has sent
it. `JournalMesh` says so of every phase the journal has not come to, and that
of a bound phase only the bound workflow may be active (`Sole`). Each command decides by the
journal because it alone holds the lock and its memory is the file (`LockInv`),
and what it has established on its way is in `CommandInv` and `LoopInv`. An audited
recovery submits a phase again, and keeps within this picture only because
`Authorizable` admits it for an ended workflow that never sent its work.

`ArtifactCacheProofs`, under `CacheAssumption` and `PutAssumption`:
`FilesAreAlwaysKept` (`FilesAreKept`), `UnreadableWasEvicted`
(`UnreadableOnlyIfEvicted`) and `ImplementsLru` (`LruSpec`), for any handlers,
keys, payloads, sizes, capacity and number of deaths. The invariant says that
rows carry distinct sequence numbers not above the counter
(`RowsAreStamped`), that their payloads are on disk and fit the capacity, that
a put holds the lock from its first step to its sweep
(`WriterHoldsLock`), and that nothing happens while the service is down. The
eviction loop is the function `kept` on sets of rows. What it keeps
fits beside the new payload and was used more recently than anything it drops,
and it drops no row needlessly; this is shown for every finite set of rows by
induction on its size. The refinement maps the abstract `order` to `Recency`, a
CHOOSE: that such a sequence exists and is the only one is the second
induction, and each operation then is the abstract one or a stutter. With this
theorem `RouteCacheProofs`, which is about the abstract cache, speaks of the
real one's index.

`PilotSessionProofs`, under `PilotAssumption` and for any handlers, tools,
representations, prices, limits and number of faults: `AlwaysInvariant`,
`AccessesAlwaysExact` (`AccessesAreExact`), `OutcomeAlwaysCounted`
(`OutcomeIsCounted`), `CompleteAlwaysExact` (`CompleteIsExact`). The invariant
has six parts.

* `ServerInv`, of the Data Agent alone. `PoolIsExact`: an entry of the pool
  counts the handlers that refer to it and is there exactly while one does, so
  that two handlers of one access id meet at one lock. `TransfersReserved`: a
  transfer under way has its reservation. `MarksHold`: while the generation is
  the one read before the summary and nothing was in flight then, no row has
  changed; with the second watermark this is `CompleteIsExact`.
* `LinksAreServed`: a call in flight has a handler of its own, which works on
  what was asked, also after retries of calls whose first handler goes on.
* `GateIsHeld`: past the gateway's lock a tool call holds it, so the index and
  the budget it was admitted with are still those of the stored events.
* `EventsAreOrdered`: events are numbered without gaps, name stored operations,
  and stay within slots and budget.
* `RunnerAgrees`: the pilot's step fits the session, the workflow and the record,
  whatever it died after and whichever operation of the session store failed. It has
  `RecordAgrees`, so the theorem leaves open, as the property does, only what
  is recorded after the session itself could not be read or given up
  (`"unsaved"`); it is not assumed anywhere that such an operation succeeds.
* `CollectedCounts` follows the figures of an event from the answer of the
  server over what the pilot has collected to what it has written, and says at
  each place that they count what was due.

`ServerInv` is preserved by the server's own steps and not touched by those
of its callers (`SessionIsServer`), and each of the other parts is proved from
it separately. `Spent` is a recursive function on the positions of the events;
that an event appended adds its price, and that folding telemetry into events
leaves the sum, is again shown by induction on that domain. `PilotAssumption` asks for
finitely many handlers and tools and at least one representation, and for null
values that are not data.

The library's induction theorems take an operator as parameter, which the
provers cannot instantiate. Where an induction is needed (the eviction loop,
the order of the cached keys, the spent budget, cardinalities) the statement is
written as a set of numbers that contains 0 and is closed under successor, so that
it can be instantiated as a first-order fact. No theorem is about a `RECURSIVE`
operator.

Every inductive invariant was checked by TLC on the instance of its run before
it was proved.

Only model-checked:

* all liveness properties (fairness and ENABLED are outside the prover's reach);
* the safety of `BulkProvisioning`, `ContainerNode`, `SimulatorEngine`, and
  `OracleRecovery` with `DesignTransition`.

## Not modelled

`PROJECT.json` lists every part of the repository with its status. Most of the
implementation's lines build, load and validate frozen documents (plans, routes,
deployments, admissions, certificates, reports), or parse arguments: one
process reads its inputs and writes its output once, with no state to interleave and
nothing to recover. A model of these would repeat the code field by field.
Read-only services (N2, N3, the read path of N4) and the stateless N6 have no
state after their start. The world model, the experiment design and the
statistics compute with floating-point numbers. FlowMesh itself is external and
modelled by what its clients can see.

## Plan

The next proofs, in this order; the invariants are conjunctions of named parts
so that each part can be proved by itself.

1. `BulkProvisioning`: `ProvisionedInOrder` (`DurableOrder`, `ChainContiguous`).
2. `ContainerNode`: `AnsweredOnce`, `SleepersAreOwed`.
3. `OracleRecovery`: `DesignIsActive` (`ForeignKept`, `TrialUnderDesign`).
4. `SimulatorEngine`: `RunIsSchedule`, which is about a schedule computed from the
   scenario and needs an order of events as its measure.

After that, the frame bundle ingest (`frame_bundle_ingest.py`), whose staged
directory installs resemble those of `N4Store`.
