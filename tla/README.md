# Verification of the controlled ingest

The repository turns documents into a governed Obsidian knowledge vault. A
*workflow* registers sources, splits them into units, has model workers read the
units (*Passes*), reduces what they found into draft pages, commits the pages
(*Build Finalize*), publishes *releases* of them and indexes a release for
queries. Every step is recorded in JSON files below `_system/` of the vault;
every command is a short-lived process that takes a file lock, reads its
records, checks them and writes them back. What can go wrong is therefore
seldom inside one function. It is in the order of calls from workers,
coordinators and operators, in what a process leaves behind when it dies
between two files, and in a decision taken on something that has changed since.
That is what this directory models and checks.

Abbreviations for paths: **HSU** is `src/hermes-source-units/src/hermes_source_units`
(the other skills carry byte-identical copies below `lib/`), **ORCH** is
`src/hermes-obsidian-governed-ingest-orchestrator/lib`.

    LeaseContract                    what the slice ledger promises its workers
        ^ implements
    SliceLedger        <- MCSliceLedger         SliceLedgerProofs
    IngestWorkflow     <- MCIngestWorkflow      IngestControlProofs, first part
        ^ extends
    IngestControl      <- MCIngestControl       IngestControlProofs, second part
    PassTransactions   <- MCPassTransactions    PassTransactionsProofs
    PageCalls          <- MCPageCalls           PageCallsProofs
    UnitSets           <- MCUnitSets            UnitSetsProofs
    ConverterSlots     <- MCConverterSlots      ConverterSlotsProofs
    VaultRelease       <- MCVaultRelease        VaultReleaseProofs
    ReleaseIndex       <- MCReleaseIndex        ReleaseIndexProofs

Contents: [1 The system](#1-the-system), [2 The modules](#2-the-modules),
[3 The runs](#3-the-runs), [4 Fairness](#4-fairness), [5 The proofs](#5-the-proofs),
[6 Where the code and its documents disagree](#6-where-the-code-and-its-documents-disagree),
[7 What is not modelled](#7-what-is-not-modelled), [8 Plan](#8-plan).

## 1 The system

### Components that carry the control

| Component | State | Operations | Called by |
|---|---|---|---|
| Pass-slice ledger (`HSU/knowledge_build.py`, `pass_capacity.py`, `pass_skips.py`) | one file per slice (state, attempt, lease, retry time), one batch record (slice ids, cooldown, cancellation, capacity) | initialise, next-slice, heartbeat, complete, fail, refresh, reclaim, reconcile (reslice), cancel, resume, set capacity, skip | workers, the coordinator, operators |
| Ingest workflow ledger (`HSU/ingest_workflow.py`, `ingest_pauses.py`, `pass_skips.py`) | one workflow record: stage, state, resume stage, checkpoints, canary, skips, release plan, latched pause, continuations | start, source outcomes, repair, reconcile, approve, canary arm/disarm/skip/promote, skip passes, latch, continue, cancel, resume, bind and refresh a release | the dispatcher, workers at the end of a card, operators |
| Write guard (`HSU/workflow_guard.py`) | none; reads the workflow record under its lock | admits or refuses a worker's domain write | every worker write |
| Recovery epoch (`HSU/recovery_control.py`) | the operator's last stop | lets a stop supersede automatic recovery | recovery, page calls |
| Build Finalize (`HSU/knowledge_build.py` `finalize`, `build_acceptance.py`, `partial_finalize.py`) | page sidecars, pages, page registry, run manifest | commit a draft run | a card, operators |
| Vault Finalize (`HSU/vault_finalize.py`) | knowledge release state, release plans, navigation snapshots and pages, manifests, redirects in the vault | plan, apply | a card, operators |
| Native calls and page budgets (`ORCH/native_page_pairs.py`, `split_page_calls.py`, `page_transport_recovery.py`, ...) | reservations, responses and receipts of model calls | reserve, send, capture, settle, recover | the Reduce worker's threads, the recovery controller |
| Kanban projection (`ORCH/ingest_kanban.py`, the dispatch and watch scripts) | Hermes cards, card bindings, reports | sync, cancel, resume, finish a card | the watcher, operators |
| Execution plan (`HSU/execution_plan.py`) | an append-only chain of plan amendments, a journal | plan, amend | coordinator, operators |
| Workflow storage (`HSU/workflow_storage.py`) | a root and content-addressed segments | read, write, migrate | the workflow ledger |
| File locks (`HSU/file_locks.py`) | kernel locks and owner markers | acquire, recover | everything above |
| SourceUnit repository (`HSU/source_units.py`) | artifacts, unit sets, `current.json` | prepare, build, read | preparation, operators |
| Section ledger (`manage_bundle_ingest.py`) | a section table | read, update | workers |
| Document governance (`governance_repository.py`) | governance records, a lock file | mutate | operators |
| Converter supervision (`supervise_mineru.py`) | slot records, child processes | admit, run, reap | preparation |
| Query traces (`query_session.py`) | traces and their states | start, retrieve, answer | queries |
| Release index (`sync_release_index.py`, `qmd-like-rag`) | generation directories, `index-state.json`, the Vault's retrieval manifest | synchronise, rebuild, recall | a card, operators, queries |

The remaining components (packets and prompts, validators, lint, bootstrap,
packaging) keep no state of their own, or are external; `PROJECT.json` lists all of them with the reason.

### How they interact

* The **watcher** runs `sync` again and again: it reads the workflow record,
  advances it (`reconcile`), reclaims and refreshes slices, and projects the
  result on Hermes **cards**. Hermes starts a worker process for a ready card.
* A **worker** leases a slice, works for minutes, and writes its results. Each
  domain write goes through the *write guard*, which takes the workflow's lock
  and looks at the record as it is now, not as it was when the worker began.
* **Operators** cancel, resume, approve, continue a pause, skip, repair and
  recover, each by a command of its own, at any moment.
* The workflow ledger and the batch's slice ledger are different records under
  different locks. An operator's cancellation changes first one, then the other.
* A build and a release hold different locks, and write the same Markdown files.
* **Preparation** normalises a document, for PDFs through a **converter** that
  shares the host's slots with every other workflow, and publishes a unit set.
* A release is searched through the **Provider**, which builds an index of it and
  serves queries all the while.

### What makes it hard, and what must hold

* *Leases against a clock, a capacity and a late worker*: a slice is worked on by
  one worker, within the capacity, and only its last attempt publishes.
* *Crashes between files*: slice files before the batch record, redirects and
  navigation before the release state, sidecars before the registry before the
  run manifest. A retry must complete what was begun, once.
* *Stop and go*: cancellation, resumption, repair and release refresh in any
  order must not lose work, reopen what is superseded, skip a checkpoint or walk
  a stage back.
* *Pauses*: a boundary holds from the step that reaches it, not from the later
  step that records it; one continuation releases one boundary once.
* *Calls that are paid for*: a call whose outcome is unknown must not be made
  again, and a reply that was paid for must be used, whatever crashes, stops and
  restarts come in between.
* *Two writers on the vault*: neither may destroy the other's file; a redirect
  must lead somewhere.
* *One projection, many writers*: a card is offered, closed or parked from a copy
  of the record that may be old, and behind it a worker may live or have died.
* *The same card again*: a Pass whose lease expired or that is to be tried again
  has its card offered once more, from two places, while the process that lost the
  lease may still live; a run that ended untold must not be repeated.
* *Transactions over several files*: a skip of failed work and an amendment of the
  plan each leave a journal when they are interrupted; the same request must be
  able to finish, whatever was commanded meanwhile, and nothing may run before.
* *Publication in two steps*: a directory is renamed into place, a pointer then
  replaced; whatever is pinned or being read must stay what it was.
* *Slots of a host*: neither lost with a supervisor that dies, nor given away
  while something it started lives.
* *Progress*: expired leases, due retries and closed cooldowns must not keep a
  batch from coming to rest.

`PROJECT.json` lists these hazards one by one, at their lines.

## 2 The modules

All modules follow the same conventions. One operation under one lock is one
action; where an operation writes several files and a process may die in
between, the action also has the prefixes of its writes as outcomes (`Save`,
`NextSliceDies`, `Reconcile` in *SliceLedger*) or is split write by write
(*VaultRelease*). An operation that refuses changes nothing and is no step. An
operator named `X_Y` is `X` with the mistake `Y`: nothing uses it, it shows that
a property would catch the mistake. Names of operations follow the source.

### SliceLedger

`slice[s]` is the record in the file of slice `s`; `batch` the control fields of
the batch record; `claim[w]` what worker `w` was last handed, which is all a
worker knows; `skipped` the tasks given up.

| Action | Code (`HSU/knowledge_build.py` unless named) |
|---|---|
| `InitializeSlices` | `initialize_slices`, `_ensure_slices` |
| `Grant`, `ExistingLease`, `NoLease`, `Refused`, `NextSliceDies` | `batch_next_slice`: the outcomes of one call, and its death between two writes |
| `Heartbeat`, `Complete`, `Fail` | `slice_heartbeat`, `slice_complete`, `slice_fail` |
| `Refresh`, `ReclaimExpired`, `Reconcile` | `refresh_ready_slices`, `reclaim_expired_slices`, `reconcile_slice_inputs` |
| `Cancel`, `Resume` | `cancel_batch`, `resume_cancelled_batch` |
| `SetCapacity` | `set_capacity` in `pass_capacity.py` |
| `SkipSlice` | `skip_pass_slices` in `pass_skips.py`, as far as slices and tasks go |
| `Tick` | time |

A deadline is what is left of it, in ticks. Three calls take their moment before
they wait for the lock (`batch_next_slice` line 810, the heartbeat, the
completion), so they take a parameter `d`, how old their moment is. A reply may
be lost after the lease was written (`Handed`). Failure classes are the ones
`_failure_class` tells apart for control; unknown codes act like `permanent`.
Model workers, measurements, Pass content and the execution plan are left out;
`Replacement` and `Oversize` stand for what measuring yields.

### LeaseContract

What the ledger promises, without clocks, retries and files: an owner per slice,
a set of finished slices, a limit. *SliceLedger* implements it under `owner =
worker`, `done = completed slices`, `limit = capacity`. That includes that a
changed capacity never finds a lease open.

### IngestWorkflow

The workflow record, field by field (`stage`, `state`, `resumeAt`, `scope`,
`outcome`, `mode`, `chosen`, `skipped`, `approved`, `release`, `pause`,
`history`), the batch's own two control fields, and the domain work as six facts
(`initialized`, `done`, `drafted`, `finalized`, `applied`, `synced`).

| Actions | Code |
|---|---|
| `RecordOutcome`, `RepairPreparation` | `record_source_outcome`, `repair_preparation` |
| `ArmCanary`, `DisarmCanary`, `SkipCanary`, `PromoteCanary` | `arm_canary` ... `promote_canary` |
| `SkipPasses` | `skip_pass_slices` (`pass_skips.py`), as far as the workflow goes |
| `Reconcile`, `Conclude` | `reconcile`, to the next stage, or to `partial` and `failed` |
| `Approve`, `ApproveAutomatic` | `approve`, by a person and by the program |
| `BindReleasePlan`, `RefreshRelease` | `bind_release_plan`; `ORCH/governed_release.py` |
| `Cancel`, `Resume` | `cancel`, `resume` |
| `LatchPause`, `ContinueWorkflow` | `latch_pause`, `continue_workflow` |
| `InitializeSlices` ... `SyncIndex` | the domain writes, admitted by `workflow_guard.py` |
| `ValidateBatch`, `CancelBatch`, `ResumeCancelledBatch` | the batch's operations, under the batch's lock only |

Any caller may call anything at any moment, so the module says what holds
whatever dispatcher, workers and operators do. It does not say that what they do
is sensible; that is the business of *IngestControl*.

A pause pins the hashes of what it stands on. The module keeps only whether one
of them was rewritten since (`stale`), which is exact because every pinned record
carries a revision that grows.

### IngestControl

Extends *IngestWorkflow* by those who act: each process is split where it holds
no lock, so that others, or its death, come between. `card[n]` is the native card
of a node, `failed[n]` its failure report, `worker[n]` where its worker is, `op`
the operator's command, `co`, `seen`, `graph`, `todo` the coordinator with its
copy of the record. `fresh` holds the callers whose copy is current: a write with
an old revision is refused. Of the slice of a Pass it keeps what decides over its
card: `lease[s]` (ready, leased, to be retried, held for somebody), the attempts
`used`, and `erred[s]`, that its last error is of its last run. `late` holds the
Passes whose lease was taken back while the worker process lives on.

A card is new (blocked, as it was created), held (scheduled), ready or running
until its run ends. Then it is reaped (the native board blocked it) or ended (it
was parked since), or again (offered once more), and at last done or archived.

| Actions | Code (`ORCH/ingest_kanban.py` unless named) |
|---|---|
| `CoBegin`, `CoInitialize`, `CoSettle`, `CoGraph` | `_sync_locked` up to the graph: latch a pause, promote a canary, advance the stage |
| `CoReclaim`, `CoGiveBack`, `CoRefresh` | its settling of leases: `reclaim_expired_slices`, `_settle_ended_pass_leases` (the lease of a run that ended, with a failure report), `refresh_ready_slices` |
| `CoBind`, `CoHold`, `CoProject`, `CoEnd` | the cards: created, parked, then one by one closed, archived, offered or left |
| `CoRefused`, `CoCrash` | a refused write and a death; the watcher starts again |
| `RefillLatch`, `Acknowledge`, `RefillGiveBack`, `Refill` | `reconcile_pass_workers`, before each dispatch: settles the cards of Passes without a new graph |
| `Claim` | `native_program_dispatch.py`: a ready card gets its worker |
| `Lease` | `_worker_begin`, `batch_next_slice`: the worker of a Pass takes its slice |
| `Write`, `Check`, `Validate`, `Refuse`, `Commit`, `ApproveStep` | a worker: its domain write (`program_worker.py`), then `_batch_worker`, `_complete_batch_worker`, `_approve_automatic` |
| `WorkerFail`, `WorkerDies`, `NativeEnd` | an error report; a death; the native run is seen to have ended (`run_program_worker.py`) |
| `PassFail`, `PassLeaves`, `LateEnds` | `worker_fail` with `slice_fail`, to be tried again or not; a Pass that finds its batch stopped (`native_ingest.py`); the end of a process that lost its lease |
| `OpCancel` ... `OpReopen`, `OpCrash` | `cancel`, `resume`: workflow, batch and cards one after the other |
| `PersonDecides` | approvals, continuations and skips |

When a run ends without a result, what becomes of its card depends on the slice. If
the slice's last error is as young as the run (`Durable`: the lease expired, or the
Pass failed with a code), the run is told of, no failure is reported, and the card is
offered again as soon as the slice is ready. Otherwise the projection reports a
stopped worker (`Report`), and nothing is offered before a repair. The refill asks
less: it offers the card of a ready slice that the native board blocked and of which
no failure is reported.

Left out: gate cards, which nobody runs; revisions and recoveries with their new
cards; the capacity, the window of Pass cards and the cooldown of a batch, which
*SliceLedger* has and which only delay an offer (a retry that is not due yet stands
for the cooldown); the branch for a projection that does not fit the record
(`ReadyFits` shows that it is not reached); the watcher's own exit at a pause. `used`
is kept only as long as the slice is unfinished. A lease may expire at any time. The
refill of one card is one step, although its file reads and the native command are
not: it holds the dispatch lock, so that no coordinator comes between, and the
dispatcher checks the record again before it starts a worker.

### PassTransactions

The two transactions an operator runs on a stopped workflow in its Pass stage,
write by write: the skip of failed work (`HSU/pass_skips.py`) and the amendment of
the execution plan (`HSU/execution_plan.py`). State: the workflow record
(`revision`, `cancelled`, `stage`, `mode`, `plan`, and `gaps`, its skip history),
the batch record (`batchRevision`, `batchCancelled`, `batchPlan`, `sliceIds`), the
slice files, Pass results, failure reports, skip reports and plan manifests, and
the two journals (`skipPending`, `amendPending`). `at` says where the process is
that holds the workflow's lock; it is `idle` when nobody does.

| Actions | Code |
|---|---|
| `Claim`, `Pass`, `Complete`, `Fail` | a worker on a slice, under the workflow's lock: admission in `_slice_worker` and `_worker_begin` (`ORCH/ingest_kanban.py`), `slice_complete`, `slice_fail` |
| `Cancel`, `CancelAgain`, `CancelBatch`; `Resume`, `ResumeBatch`; `CallerDies` | `cancel` and `resume` in their two steps, and a death between them |
| `Disarm`, `Arm`, `Promote`, `FinishPasses` | `disarm_canary`, `arm_canary`, `promote_canary`, `reconcile` to reducing |
| `BeginSkip`, `RetrySkip`, `ReplaySkip` | `skip_pass_slices` up to the journal: a new request, one whose journal is there, one that is recorded already |
| `SkipTask`, `SkipReport`, `SkipRecord`, `SkipUnlink` | its writes |
| `BeginAmendment`, `RetryAmendment`, `CheckAmendment` | `amend_execution`: `_execution_preview` with the journal; the request again; the checks before the writes |
| `AmendSlice`, `AmendManifest`, `AmendBatch`, `AmendRecord`, `AmendUnlink` | its writes |
| `Crash` | the death of a transaction; its locks go with it |

A slice is the plan that made it with the tasks it owns. A failure is one of the
semantic kind, which nothing here repairs but a skip. How an amendment packs the
unfinished tasks is a free choice of consecutive runs, since it goes by
measurements. The preview of an amendment and its journal are one step, though the
batch's lock is given back in between: a batch operation that comes between them
could as well come after, because nothing of the batch is looked at again before
`CheckAmendment`. Pauses, Pass revisions, changed sources, the retirement of cards
and the skip of Reduce tasks, which has the same journal, are left out.

`orderly` says which operators there are: one who ends what was begun, a command of
two steps or a transaction, before the next command, or several whose commands
overlap. Only `TransactionsEnd` asks.

### UnitSets

`artifacts` and `sets` are the directories in place (a set with the revision in
its manifest), `current` is `current.json`, `work[p]` what a process has computed,
`selected` the history of `current`.

| Actions | Code (`HSU/source_units.py`) |
|---|---|
| `Stage`, `PublishArtifact` | `_publish_artifact_guarded`: no lock |
| `Generate` | `_generate`: set, manifest and its revision, before the lock is taken |
| `Busy`, `Conflict`, `Adopt`, `Write` | `build` under the publish lock: refused; the set is there; it is written |
| `PutInPlace`, `Select` | the rename, then `current.json` |
| `Die` | a process is killed anywhere |

The workflow's guard, governance checks and caches are left out, and so are
temporary directories that a process with a recycled number would find.

### ConverterSlots

`record[i]` is `slot-N.json`: who wrote it and in which boot, or that it is half
written (`Torn`); the lock of slot `i` is held while its supervisor or its
converter lives (`Locked`), since the converter inherits the descriptor.
`detached` are processes the converter has let loose, which carry its mark in
their environment but not the lock.

| Actions | Code (`supervise_mineru.py`) |
|---|---|
| `Start`, `Withdraw`, `Enter` | `supervise` waits for admission |
| `ReadTorn`, `RemoveOld`, `CleanOrphan`, `Occupied` | one record found, of each kind; `cleanup` |
| `Take`, `Poll`, `WriteRecord` | a slot, or none; the record |
| `Launch`, `Exec`, `Launched`, `Detach`, `Exit` | the converter |
| `Finish`, `Clean`, `Remove`, `Close` | the end of the supervisor |
| `Kill`, `Reboot` | faults |

### VaultRelease

Build runs (`run`), committed revisions (`sidecar`), the page registry
(`registry`), the Markdown files (`file`), and the release's records (`ledger`,
`plan`, `versioned`, `navigation`, `manifest`). `building` and `applying` are the
two processes at work, each with the writes it has left.

| Action | Code |
|---|---|
| `Reduce` | a draft run for a page, `knowledge_build.py` |
| `BeginCommit`, `WriteCommit` | `_finalize_locked`: the checks, then the writes one by one |
| `Plan` | `vault_finalize.py` `plan`, `_build_plan`, `_redirects`, `_runs` |
| `BeginApply`, `WriteRedirect`, `WriteRelease` | `_apply_locked`: the checks, then the writes one by one |
| `BuilderDies`, `ReleaserDies` | a crash between two writes |

`serialised` chooses between the two ways the code runs: builds and releases of
one workflow exclude each other through the workflow's lock; those of different
workflows, or started by hand, do not.

### ReleaseIndex

`store[g]` is the directory of generation `g` (windows embedded, windows recorded
as complete, `bm25.json`, the projection manifest), `selected` is
`index-state.json`, `manifest` the Vault's retrieval manifest with its temporary
file `scratch`; `caller[c]` is a script or worker that asks for a sync, `sync[c]`
the Provider process that serves it.

| Actions | Code (`qmd_like_rag/indexer.py` unless named) |
|---|---|
| `ApplyRelease` | a new current release, in one step (*VaultRelease* has the steps) |
| `Identify`, `Call`, `Confirm`, `WriteScratch`, `Rename` | `sync_release_index.py`; `sync_provider` in `ORCH/program_worker.py` |
| `Lock`, `Read`, `Reuse` | the writer lock, the corpus, an index already there |
| `Embed`, `Save`, `OpenBM25`, `WriteBM25`, `Verify`, `List`, `Select`, `Answer` | `_sync`, write by write |
| `ProviderDies`, `CallerDies`, `CallerTimesOut` | a process is killed; a caller gives up while the Provider goes on |
| `ReadSelection`, `Compare`, `OpenGeneration` | `recall` in `runtime.py` |

The indexing configuration is constant. (Going back to an earlier configuration
rewrites `bm25.json` of a generation that may be in service.)

### PageCalls

The index of a Reduce's page calls (`attempts`, `retried`), the files it refers
to (`answer`, `responses`, `receipts`, `draft`), what the recovery of calls goes
by (`failed`, `granted`, `generation`), the workflow's stop (`stopped`, `epoch`),
and the one worker with its threads (`run`, `todo`, `agenda`, `thread`). `sent`
counts sendings; no code reads it.

| Action | Code (`ORCH/native_page_pairs.py` unless named) |
|---|---|
| `Start`, `RecoverResponse`, `RecoverReply`, `ClaimRetry`, `Held` | the worker goes through the requests it finds (lines 196 to 224); `claim_transport_retry` in `split_page_calls.py` |
| `BeginCalls`, `BeginCorrections`, `End` | the two rounds of `run_groups`, and the end |
| `Reserve`, `ReserveRefused` | `submit`, `reserve` in `split_page_calls.py` |
| `Send`, `Answer`, `FailCall`, `LoseCall` | `model_call`, `_dispatch_model_call` in `fixed_semantic.py`; `record` in `native_call_state.py` |
| `Capture` | `capture` in `split_page_calls.py` |
| `Settle`, `SettleRefused`, `SettleDies` | `settle` in `split_page_calls.py`, `persist`; its end by a stop, its death between two writes |
| `Stop`, `Resume` | `record_cancel` in `HSU/recovery_control.py`, `cancel`, `resume` |
| `StopToRecover`, `Admit` | `page_transport_recovery.py`: `recover`, `select`, `verify` |
| `Renew` | `recover_reduce_execution`: a new task that grants nothing |

A request is its pages and their ordinal; the code hashes its text and the epoch
too, but an ordinal of a page is reserved once, so these determine it. What a
reply holds for a page is one of three verdicts of validation. Whether two pages
fit one request is a free choice. A worker's error report, which the card's
recovery goes by, is left out: `StopToRecover` and `Renew` may come where some
other error was reported.

## 3 The runs

Every run must finish; `CHECK_DEADLOCK FALSE` is set because each system may
really stop (all slices completed, a workflow ended, all runs released). The two
of *IngestControl* check for deadlock: its watcher never stops.

| Run | Instance | Shows |
|---|---|---|
| `slice_leases` | one slice that splits in two, 2 workers, 2 attempts, capacity 1 to 2, leases of 2 ticks, clock readings up to 1 tick old, 1 crash | leases are within the capacity, marked, gone from a stopped batch (`LeasesHold`); only the last attempt publishes, and there is a last one (`AttemptsHold`); no task is in work twice; the contract is implemented |
| `slice_progress` | the same slices, 1 worker, a cancellation and a resumption, fairness | a batch comes to rest; no task loses its slice |
| `workflow_pauses` | 2 sources or an adopted batch in any state, all three modes, repairs, 3 slices, 2 continuation ids, each boundary alone or with another, one refreshed release | planning stands on decided sources and what follows the Passes on settled slices (`StagesGrounded`); unreleased pauses hold, checkpoints gate, continuations release one boundary once; no step goes on behind a pause, walks back or revives what ended (`StepsHold`) |
| `control_operator` | 2 Passes, one of them the canary, 2 attempts, 2 stops and resumptions, 2 processes that die, 1 process that outlives its lease, skips | a card is never offered while a worker of it may still write; one whose run ended is offered again only for an unfinished Pass that nobody holds and whose run is known to be over (`NeverOfferedAgain`) |
| `control_chain` | 1 Pass with 2 attempts and the eight batch phases, with canary, Pass pause and index or without, 1 process that dies, fairness | cards tell the truth (`CardsTruthful`); the workflow always comes to rest visibly; every result is acknowledged |
| `pass_transactions` | 3 tasks in 2 slices, one of them the canary, 2 skips, 2 amendments, 2 commands, 1 death, operators of both kinds, fairness | nothing runs while a transaction is unfinished; gaps are accounted for, given-up work is not offered again, Reduce begins on what is read or in a gap (`SkipsHold`); a running workflow has one plan and each task one slice; completed slices stay in force; an orderly operator's transactions are finished (`TransactionsEnd`) |
| `page_calls` | 2 pages, 2 threads, 1 stop, 2 new tasks, 1 crash, fairness | nothing is sent again unless its sendings failed; budgets and pairs hold; what is settled is true and what a crash leaves fits (`SettledTruthfully`); saved replies settle |
| `unit_sets` | 3 processes, 2 artifacts, 2 configurations, 3 revisions, 2 deaths | what `current.json` ever said still resolves; revisions are dense and name one set; a crash between the two steps is made good |
| `converter_slots` | 3 conversions, 1 slot, 3 faults, fairness | converters and what they left never exceed the slots (`SlotsBound`); slots come back |
| `vault_releases` | 2 pages, 2 paths, 3 builds, 2 releases, 1 crash | releases take effect once, manifests prove it and navigation is not old (`CommittedOnce`), redirects end and stand only where a page was (`RedirectsLeadOn`), interrupted applies and commits can be retried (`RetriesSucceed`), no foreign file is replaced |
| `vault_commit_retry` | 1 page, 2 paths, 2 builds, 1 crash | violated: the disagreement of section 6 |
| `release_index` | a script over HTTP, a worker over the command, a recall, 2 windows, 2 releases, 3 calls, 1 rebuild, 1 fault, fairness | what is served is whole (`IndexHolds`) and untouched; a Vault that says query ready tells the truth; a sync that holds the lock selects its release |

### Why the bounds are enough

* *SliceLedger*. Two workers make every race over one lease; a third adds none
  that two do not have, as leases do not refer to each other except through their
  number. Two attempts are a first and a last one. One slice with two tasks is
  the only shape resplitting has: a slice is split at most once. Capacity 1 and 2
  make the limit bind and move. Leases of 2 ticks with readings up to 1 tick old
  make a reading valid, stale, and wrong about an expiry. The proofs (section 5)
  cover all values.
* *IngestWorkflow*. Two sources make one that failed beside one that is ready. Three
  slices make a canary of 2 a proper part. Two ids release the two boundaries of a
  scope and are sent again; the third boundary of a refreshed release waits. One refresh gives the
  release boundaries a second pass. The scopes hold each boundary at least once
  with its predecessor or successor. All invariants, and all the action
  properties, are also proved for every value.
* *VaultRelease*. Two paths and two pages make every conflict over a path (a page
  leaves a path, another takes it, the first returns); three builds make a page
  move twice, or move and be replaced; two releases make one overtake the other;
  one crash at any of the ten writes. A page that moves along a chain of three
  paths adds the cases of section 6, and is out of reach beside the second page.
  The proofs cover all values.
* *IngestControl*. Two Passes of which one is the canary make a card that may be
  offered beside one that may not, with a slice that another worker's lease makes
  ready; two attempts make one that is repeated and a last one (`MaxAttempts`); two
  stops make a second one that finds what the first left (`MaxStop`). One process
  that outlives its lease (`MaxLate`) meets every place of its successor, two deaths
  (`MaxCrash`) take a worker and whoever settles its lease. In the
  chain one Pass is enough, since the phases behind it are single cards; the two
  scopes are the longest chain, with a pause in the middle, and the shortest. One
  death falls between any two steps of any process. There a lease expires only when
  its worker is gone (`MaxLate = 0`). The operator does not stop the chain: with stops every liveness property only says that somebody stopped.
* *UnitSets*. Two artifacts and two configurations make sets that differ in
  either; three processes make a publication overtaken twice, or overtaken and
  died upon; three revisions make a return to the first set. The module is proved
  for every value.
* *PassTransactions*. A slice of two tasks can fail with one of them done, so that a
  skip takes part of it and an amendment cuts it; the other slice is completed,
  held or in work beside it. Two amendments make a plan with a predecessor that is
  not the first; two skips make a gap that must survive the next one. One death falls between any two writes of
  any of them; a second one would fall into a retry, which goes through the same
  writes as the first attempt. The invariants are proved for every value.
* *ConverterSlots*. With one slot, the default, every conversion competes for it;
  three make one that holds, one that cleans and one that waits. Three faults are
  a kill, a clean-up that fails and a reboot, in any order. The bounds are proved
  for any number of slots, conversions and faults.
* *ReleaseIndex*. Two windows make a partial generation; two releases make an
  answer late; three calls make a retry beside a competitor; one rebuild makes a
  second directory of the same release.
* *PageCalls*. Two pages make each grouping: a pair, singles, a correction of
  one page of a pair while the other is valid, refused or open. Two threads make
  every race over the index; a worker handles one request per thread. Two new
  tasks make a grant that is used, used late by the next task, and followed by a
  second grant. One stop makes an epoch that a settlement can miss; automatic
  stops do not count. One crash falls anywhere, and on a worker already recovering
  from an error.

## 4 Fairness

`slice_progress`, `control_chain`, `pass_transactions`, `page_calls`,
`converter_slots` and `release_index` use fairness. The watcher loops over
`sync` (`watch_ingest_workflow.py`), which initialises the slices, reclaims
expired leases, refreshes due retries and starts a worker per ready slice; so
`InitializeSlices`, `ReclaimExpired`, `Refresh` and `Grant` are weakly fair, as
is time. Nothing is assumed of a worker (it may never complete or fail), of an
operator (who may never resume or reconcile), or of clock readings: `Grant` is
fair only for a fresh one. A worker that heartbeats for ever keeps its lease for
ever, so `ComesToRest` excludes that by its premise.

In *PageCalls* the worker process and the threads of its pool are weakly fair:
Hermes starts the card's worker, an ended one is started again by Hermes or, after
an error, by an operator or the recovery controller; a call returns, fails or is
given up (the network retries of one call end by the connection's return or a stop),
and the pool takes every group of a round. Stops, resumptions and admissions are
not fair. `SavedSettle` has as premise that the workflow is in the end running,
without a request whose outcome nobody knows.

In *IngestControl* the coordinator's steps, the dispatcher's claims, the workers'
steps and the reaping of native runs are weakly fair: the watcher loops, Hermes
ticks, and a worker is a program that ends. Operators, persons and crashes are
not; a coordinator or worker that died is started again. The promotion of a retry is
strongly fair: the watcher asks in every round, and the time of a retry comes, but
between two rounds nothing is promoted. The refill and the expiry of leases are not
fair: what they do for the rest of the system the coordinator does as well.

In *PassTransactions* a process that has begun a transaction, or stands between
the two steps of a command, goes on unless it dies: weak fairness. Sending an
interrupted request again is strongly fair: its operator tries it until it is
accepted, and other commands, which take the same lock, come and go. Beginning a
transaction, workers and all other commands are not fair.

In *ConverterSlots* a supervisor's steps and taking a slot are strongly fair: a
waiting run polls every few seconds for as long as it is wanted, and the
admission lock is let go in between, so it gets in, and finds the host with room,
if that is so again and again. Without that assumption another run might be
admitted first for ever. The exec after a fork is weakly fair. A converter need
never end, but its supervisor gives up on it.

In *ReleaseIndex* only the steps of a Provider that serves a call are weakly
fair. Nobody need call it, and after a refusal nobody need retry.

## 5 The proofs

`SliceLedgerProofs`, `IngestControlProofs` (of *IngestWorkflow* and *IngestControl*),
`PassTransactionsProofs`, `PageCallsProofs`, `ConverterSlotsProofs`, `UnitSetsProofs`,
`VaultReleaseProofs` and `ReleaseIndexProofs` prove what follows for every value of the
constants that satisfies the modules' assumptions.

**Slice ledger.** `IInv` is the type invariant together with
*WorkerExactlyWhileLeased*, *StoppedBatchHoldsNoLease*, *ResultOfLastAttempt*,
*LeasesWithinCapacity*, *AttemptsBounded* and two strengthenings:

* `AttemptsLeft`: a slice that is ready or waits for a retry has attempts left.
  Without it the bound on attempts is not inductive: leasing adds one to whatever
  a ready slice has.
* `CompletedTimersOff`: a completed slice has no timer running. Without it time
  itself would change a completed record, and *CompletedIsFinal* would fail.

`Invariance` is `Spec => []IInv`. From it follow `TypeCorrect`,
`CapacityHolds`, `WorkerMarksLease`, `StoppedMeansIdle`, `LastAttemptPublishes`,
`AttemptsAreBounded`, the action property `CompletedStays`, and the refinement
`ImplementsContract` (`Spec => Contract!Spec`). The lemmas first say what each
helper makes of one record, then of all slices (`Calm`: leases only disappear and
attempts do not grow), and each action is then one step of the induction.
Prefixes of writes after a crash are covered by one lemma: a part of a calm
change is calm.

Where the tasks are needs two invariants of its own, each with a condition under
which the code keeps it; `Follows` says of every action that it keeps both.

* `Traced`, while nothing was resumed: a slice that was ever leased is in the
  batch's list, and a replacement is in the list only beside the slice it replaced,
  cancelled. `TasksWorkedOnce` follows: two slices share a task only when one
  replaces the other. A resumption reopens the replaced slice (section 6), hence the
  condition.
* `Covered`, while nothing died: the slice files are those of the batch's list, a
  slice is skipped whole or not at all, and every task has a slice, one that is not
  cancelled as long as the batch runs and the task is not skipped.
  `TasksNotDropped` follows, whatever is resumed. A process that dies while it
  cancels leaves slices cancelled in a batch that is not.

Both rest on `PartitionAssumption`: the first plan gives each task to one slice, and
the replacements of a slice share its tasks out among them, which is how
`_ensure_slices` and `_split` cut lists of tasks.

**Workflow ledger.** `IInv` is the type invariant with *PausesHold*, *GatesHold*,
*CoverageHolds*, *SourcesFirst*, *GrantsOnce* and three strengthenings:

* `Bookkeeping`: that a cancelled, adopted workflow comes back to the stage it
  is at, that only validation ends a workflow, that before a batch is adopted
  nothing downstream has happened, and that a dispatch mode stands on
  initialised slices. Cancellation and resumption preserve the gates only because
  of it.
* `ReleaseOrder`: how far the domain work may be ahead of the stage. `GatesHold`
  speaks of finalized builds and applied releases, which do not follow from the
  stage a caller may have advanced; a refreshed release walks the stage back.
* `LatchedIsHeld`: the latched boundary is not released yet. A continuation
  releases what is latched, so `GrantsOnce` needs it.

`TypeCorrect`, `PausesAlwaysHold`, `GatesAlwaysHold`, `StagesAlwaysGrounded`,
`GrantsAlwaysOnce` and the action properties `PausedStandsStill`, `StagesNeverBack`,
`EndedForGood` follow.

**Ingest control.** `ControlImplements` is the refinement `ControlSpec => Spec`:
each step of the coordinator, the dispatcher, the workers and the operator is a
step of *IngestWorkflow* or leaves its record and batch alone. All that is proved
of the ledger therefore holds of the composed system (`ControlledSafely`). The one
assumption is that no phase behind the Passes has the name of a slice. What the
cards add needs `ControlInv`, on top of the ledger's `IInv`:

* `WorkersHaveRuns`: behind a worker's process there is a card that runs, was parked or
  closed while it ran, never one that is held, reaped or offered. `OneWorkerPerNode`
  is read off it.
* `LeasesHeld`: nobody writes for a slice whose last run told how it ended, and for a
  leased slice only the one that leased it. With `WorkersHaveRuns` it
  makes every card that is offered again one whose worker is gone (`OfferedAgain`, a
  part of what `CardMoves` says of each step, and `RefilledIsEarned` for the refill).
* `NotYetDecided`: a checkpoint that was not reached carries no decision, so that
  the copy's idea of a decided gate cannot be undone by reaching it again.
* `CopyStillTrue`: a result that the coordinator's copy of the record shows is
  still there. The copy may be old by the time it is projected; it is never wrong
  about a result because no step of the ledger takes one back.
* `DoneTruthful`: a card closed as done has its domain result.
* `ProcessTypes`: at which place of their programs the operator and the coordinator
  are, with the graph and the cards still to be projected; and that the workflow
  is `bound` to its batch.

`OneWorkerAlways`, `EndedNeverOffered` and `DoneAlwaysTruthful` follow.

That a ready card of a workflow that may run is one that the record admits
(`ReadyFits`) is the harder half of `CardsTruthful`: the coordinator offers a card from
its copy, one by one, while others write. `ReadyInv` closes the gap from both sides.

* From below, what admitted the node is not lost (`AllEarned`): the copy is of an
  earlier record (`CopyBehind`), and no ledger operation of these processes takes back
  a stage, a decision, a skip, a result or a dispatch mode; disarming the canary and
  refreshing a release would, and none of them calls those.
* From above, the stage has not gone past the node. A card that waits has no result in
  the record (`ResultsByRuns`), because only a worker writes one and a worker has a card
  that ran; and the stages stand on the results before them (`ResultsFirst`).
* For the Passes the stage alone does not say so: Reduce has no trace of the slices'
  cards. Once Reduce is offered no Pass is (`PassesOver`), because all cards of Passes
  come before it in the order of projection (`Provided`), and a coordinator whose copy is
  past the Passes has taken back each one it went through (`CopySettled`).

`CardsAlwaysTruthful` is the theorem of the whole.

**Page calls.** `IInv` is the type invariant with *BudgetHolds* and
*SettledTruthfully*, and what links the threads to the index and the files:

* `ThreadsApart`: a busy thread has a request that is reserved, no two have the
  same one, and what a settling thread has left to settle is open in the index. A
  request is new when it is reserved because it stands at the next ordinal of each
  of its pages (`NewRequest`).
* `LeadAlone`: while found requests are gone through nobody else works, so a claim
  cannot meet a thread that is about to send the same request.
* `RepliesKnown`: how far a thread is says whether a reply is saved, and replies
  exist only for reserved requests.
* `ReceiptsTrue`: a receipt says what the reply says of its page. A crash can leave
  one that the index does not know of; the next settlement takes it as it is.
* `GrantsPaid`: generation g is granted, or used, for a failure in generation g - 1.
* `SendingsCounted`: a request was sent at most once more than grants of it were
  used, and one that is about to be sent, one less.

`SentAgainOnlyAfterFailure` then follows by counting: the generations used inject
into the generations that failed.

**Unit sets.** The properties speak of what `current.json` has said; what a
process is about to write is not in them. `IInv` adds that:

* `LockMeansWork`: only the process that holds the publish lock writes or points,
  and it is at one of these places while it holds it.
* `WorkFits`: what a process has computed is a set of an artifact in place, with
  the revision after the one it expected, or, for the set that was current at
  that revision, with that revision.
* `CheckedHolds`: what a process has checked under the lock stays true until it
  points: its expectation, and the directory that is not there yet, or is its own.
* `RevisionsDense`: the revisions that were current are 1 up to the current one,
  which makes a new revision one that no set has had.
* `SetsNotAhead`: no directory carries a revision beyond the next.

`PointersHold`, `RevisionsHold`, `OrphansHold` and the action property
`SupersededStays` follow. `RevisionsHold` is the reason that building without the
lock is safe: the second of two builds with one expectation is refused.

**Pass transactions.** None of the invariants is inductive. `IInv` adds, besides
the types, what each journal vouches for:

* `Journals`: there is one journal of a kind, and a transaction that writes has
  one, a stopped batch, and an amendment that its checks allow.
* `Stopped`: behind a journal the workflow is cancelled and *no* slice file is
  leased, in force or not. Resumption is what would break it; it is refused by
  `ExecutionReady`.
* `Files`: a slice that is not in force was cancelled before it was superseded; one
  in force exists, rests when the batch is stopped, and is completed only with its
  Passes.
* `Plans`: how far the two records are, seen from the journal: both behind, the
  batch ahead, or both there. That is why a retry whose batch revision is still the
  old one has found the batch stopped, and why manifests never name a later plan.
* `Owned`: the slices kept and the slices to come own every task once *before* they
  are in force; completed ones are among those kept.
* `Skips`: what a skip will give up is owned by no completed slice, and what is
  given up already only by cancelled ones.

`StoppedWhilePending`, `WorkOwnedOnce` and `SkippedNotOffered` follow;
`GapsAccounted` and `ReducingAccounts`, with it the parts of `SkipsHold`, are in
`IInv` as they stand. `OutcomesStay` needs `Owned` for
the one step that changes the list of slices.

**Converter slots.** Neither bound is inductive: both count processes, and what
keeps them apart are the locks and records. `IInv` adds that the admission lock
is held by the run that examines (`AdmissionHeld`), that a slot's lock has one
holder (`SlotsApart`), that a record is half written only by its taker
(`TornWhileRecording`), that a converter without its mark is being launched or
has escaped (`ForkedKnown`, `EscapedKilled`), that a run has no processes before
its launch or after its clean-up (`TreelessPlaces`), and that the processes of
every other run are named by its record (`TreeRecorded`), which is what a later
run cleans up by. The two bounds then follow because runs with different slots
inject into the slots (`ApartFit`): `ConvertersFit` from `SlotsApart`, `TreesFit`
from `TreeRecorded`.

**Releases.** None of what is claimed of *VaultRelease* is inductive: a property of
the files on disk between two writes of one process has to survive the writes of
the other, and the plans in which a release recorded what it saw are carried out
later. `IInv` consists of:

* `Typed`: the types, and that serialised builds and releases are never both at work.
* `Pages`. `Lineage`: a revision's parent is a revision of its page, pages are at
  paths of their own. `NeverBack`: a page does not return to the parent of a
  revision it has had, so that no build can bring an old text back. `Succeeded`: a
  completed build's revision is the current one or has a successor.
* `Files`. `CurrentFile`: a page's current file holds its text, the next text half
  committed, or (not serialised) a redirect. `Committing`: what the build at work
  finds at each of its writes. `Retriable`: a committed revision either was passed
  by another or finds page and file as they were.
* `Releases`. `Plans`: what a plan recorded of builds and redirects stays true, and
  what its place among the releases implies. `Counted`: the state revision counts
  the releases, and the current one can be recovered. `Applying`: what the apply at
  work has written, by the write it is at.
* `Moves`. `OldFilesGone`: the text that a plan redirects, once gone, never comes
  back, and no build is about to write it. `RedirectFiles`: all redirects of a page
  lead to one path, where a text of that page is. `Leading`: so do those still to be
  written, and each replaces a file of its page.

From it follow `TypeCorrect`, `CommittedAlwaysOnce`, `RedirectsAlwaysLeadOn`,
`RetriesAlwaysSucceed` and the action property `OnlyOwnEverReplaced`, for any
number of pages, paths, builds, releases and crashes. Each write of a commit and of
an apply has a lemma of its own. The redirects end for a simpler reason than a
measure that decreases: the target of a redirect is never a redirect.

**Release index.** `IInv` says why an answer may be late and a directory half full
without anybody being told something untrue:

* `LockHeld`: who is at work in the store holds the lock.
* `Forward`: selections follow the releases and never go back; a recall's choice is
  not newer than the selection, and what is being filled not older. A sync of a release
  that was overtaken may still select it, but only before a sync of a later one has the
  lock, since each reads the current release with the lock held.
* `OwnDirectories`: a rebuild's number is its own, and nothing in service has it before
  its sync has selected. A plain sync works in a directory that others of that release
  may have left; that it serves nothing follows from `Forward`, for a sync whose release
  is selected reuses the selection (`TargetApart`).
* `FillingApart`: the directory being filled is not in service, and how far it is at
  each place of the sync. A window whose record is saved has its vectors
  (`SavedAfterVectors`), so complete records mean complete vectors, whoever wrote them.
* `Claims`: a ready answer, in a caller, in the temporary file or in the manifest, is of
  a release that was selected, hence not newer than the selection.
* `CallsCounted`: successes are not more than calls, which is all the types need.

`IndexAlwaysHolds`, `ServedNeverTouched` and `QueryReadyAlwaysTrue` follow, the last from
`Claims` and `Forward`: what is ready for the current release is neither newer nor older
than the selection.

**Only model-checked** is liveness under fairness, which
the prover cannot do: `ComesToRest` (of *SliceLedger* and *IngestControl*),
`ResultsAcknowledged`, `SavedSettle`, `SlotsComeBack`, `TransactionsEnd`, `SyncSelects`. Every
safety and action property of the passing runs is a theorem. Induction over
data and recursive operators are beyond the prover too; no module uses either.

## 6 Where the code and its documents disagree

**`vault_commit_retry`** finds that a build which updates a page in place and dies
between the page and the registry cannot be retried: the registry still names the
parent, so the old text is looked for where the build's own new text stands
(`knowledge_build.py:2570`), and the release plans of the whole vault are refused
as well. `source-units.md:112` says an interruption can be safely retried.
`CommitRetries`, a part of `RetriesSucceed`, says when it can. `Overtaken` names the
other cases in which it cannot. One of them needs three paths: a release planned
between the writes of a build that moves a page redirects the new page
(`NewestIsNoRedirect` below), late, when the page's next build has begun and died;
its retry looks for a text where that redirect is.

The modules also define formulas that the documents suggest and that do not hold.
They are at the end of each module; the instances below refute them.

| Definition | Said | What happens | Instance |
|---|---|---|---|
| `SupersededStaysCancelled` (*SliceLedger*) | `source-units.md:166`: a reslice cancels the superseded slice | resuming a cancelled batch reopens *every* cancelled slice, that one too; its tasks are in work in it and in its replacements | `slice_leases` with `MaxResumes = 1` |
| `PlanCheckRecovers` (*SliceLedger*) | `OFFICIAL_TECHNICAL_SPECIFICATION.md:60`: the process is recoverable | a crash in `reconcile_slice_inputs` before the batch record leaves a batch whose every `next-slice`, and second reconcile, is refused | `slice_progress` with `MaxResumes = 0`, `MaxCrashes = 1` |
| `CommittedIsRecognised` (*VaultRelease*) | `vault-finalize.md:21`: a redirect is made when the old file matches its committed revision | of several revisions at one old path the file is compared with the one whose *hash* sorts last; planning may refuse every release | one page, paths a, b, c, three builds, two releases, no crash |
| `PlanIsApplicable` (*VaultRelease*) | a valid plan can be applied | planning accepts an old path that holds an earlier redirect, applying refuses it | the same with three releases |
| `NewestIsNoRedirect` (*VaultRelease*) | redirects are for old paths | a release between the writes of a build that moves a page turns the new page into a redirect to the old one | the same with two releases and one crash |
| `LastSuccessKept` (*ReleaseIndex*) | `release-indexing.md:26`: the prior last success is preserved | the manifest is read before a long call and written back after it: of two scripts, the one that fails later restores an earlier last success | two scripts, no worker or recall, one window, one release, two calls, one fault |
| `SkipFinishes` (*PassTransactions*) | `operations.md:228`: interrupted updates block execution until that exact request finishes | an amendment, which never looks for the journal of a skip (`execution_plan.py:545`), raises the revision of the workflow; the skip's own request is refused as out of date from then on, and its journal blocks every resume. Disarming the canary (`ingest_workflow.py:607`) does the same | `pass_transactions` under `Spec` with one skip, one amendment, no canary |
| `AmendFinishes` (*PassTransactions*) | `compact-execution.md:78`: the exact saved request is retried and then finishes | a resume whose second step is late (`ingest_kanban.py:1265`) reopens the batch behind a later cancellation and the journal; the batch is neither as the amendment found it nor as it writes it, and stays so | the same without a skip |
| `ResumeClears` (*IngestControl*) | `operations.md:54`: resume clears a permitted stop | a `validate_batch` that began before the stop rewrites the batch's state after it; the batch's stop is then never cleared, and resume says nothing | one Pass, no canary or pause, one stop, no crash |

Met while modelling as well:

* `source-units.md:171` calls a cancelled batch terminal; `resume_cancelled_batch`
  reopens it. `source-units.md:170` calls the cancellation atomic; it writes slice
  after slice (`knowledge_build.py:1188`).
* `workflow-contract.md:15` calls `pause_after` immutable; `repair_preparation`
  replaces it.
* `repair_preparation` accepts a scope that `start` refuses ("Canary off requires
  auto_full without a canary pause", `ingest_workflow.py:280` and `:441`): a
  canary that is off and paused after, or off outside `auto_full`, can then be
  neither skipped nor promoted.
* A later rate limit overwrites a longer cooldown (`knowledge_build.py:1047`),
  where `source-units.md:158` has one pause for the batch.
* A worker of checkpoint 1 that dies between advancing the stage and approving
  leaves an automatic workflow at a pending checkpoint that only a person decides
  (`ingest_kanban.py:2280`); `ComesToRest` counts it as visible.
* A worker that is refused after its domain result was written reports an error,
  which keeps the cards behind it parked although the result is there.
* A Pass process that lost its lease lives beside the next run of its card. It can
  write nothing, but when it ends with an error it may report a failure against the
  node (`execution_failure`, `ingest_kanban.py:886`, asks for the card, not for the
  run), which then stops its successor.
* Of the run of a Pass that died before it took its lease nothing tells. The
  projection reports it as stopped and holds the card; a refill that comes first finds
  the slice ready and no failure, and offers the card again (`ingest_kanban.py:1057`).
  Which of the two happens depends on which looks first.
* A program worker that lives through cancel and resume is taken for a dead one
  when its card comes up, until a trusted recovery.
* Cancelling does not take the dispatch lock: a coordinator that projects at the
  same time may offer a card the command has just parked (`operations.md:57`). The
  dispatcher's check of the record stops its worker.
* A sync that is refused for the Provider's lock while an earlier release is
  indexed leaves the index stale until somebody calls again; nothing retries it.
* A supervisor killed while it writes its record leaves a file that every later
  conversion fails to parse (`supervise_mineru.py:149`), until it is removed by
  hand; and a converter whose supervisor dies between fork and exec has no mark
  yet, so that no clean-up finds it. `SlotsComeBack` and `TreesBounded` name both.
* A unit set that was put in place by a build that then died, and whose revision
  another build has taken, can never be published: it is refused as historical
  although it has never been current (`source_units.py:613`).
* The `build_finalize` pause is passed when somebody reconciles to release
  planning before the builds are finalized (`operations.md:96`,
  `ingest_workflow.py:687`); *PausesHold* therefore leaves that boundary out.
* A release whose apply died after the state write is refused once another release
  was applied, although `vault-finalize.md:30` says an interrupted apply is
  retried (`vault_finalize.py:385`). *InterruptedResumes*, a part of
  `RetriesSucceed`, is stated for the current release only.
* Leaving out `build_run_ids` is to select "unapplied completed builds"
  (`vault-finalize.md`), but fails when there is a draft build (`_runs`).
* Recovery of page calls stops at the first unknown request in the order of the
  request hashes and leaves saved responses behind it unsettled
  (`native_page_pairs.py:197`), where `workflow-maintenance.md` says a saved
  response is replayed mechanically; `paired_reviews.py` goes on. This is why the premise of
  `SavedSettle` excludes every request of unknown outcome.
* When two requests are granted another sending and the first fails again, the
  worker ends there, and the next admission is refused: the second has no failure
  of the new task (`page_transport_recovery.py:81`). Both stay open.
* An operator's stop writes its epoch before the workflow record
  (`ingest_workflow.py:856`); a crash in between ends a settlement without a stop,
  which the next worker repeats. *PageCalls* takes the stop as one step.

## 7 What is not modelled

Content: the text of pages, Passes, prompts, hashes and fingerprints, measurements
and eligibility. Pure I/O and external programs: conversion itself, embedding,
packaging. A lock is taken as given, with its release at the death of its owner.

Within the modelled components: execution plans in *SliceLedger* (they are in
*PassTransactions*, without leases and retries); skips as one step in *SliceLedger*
and *IngestWorkflow*; Pass revisions,
partial finalize and reduce coverage in *IngestWorkflow* (each reopens stages
under an authorization of its own), and the recoveries that clear a stale pause;
builds of several pages, merges, delivery scopes and quality holds in
*VaultRelease*; paired reviews, the older budget format and the sizes of requests
in *PageCalls*; what section 2 says of the others.

Components with control of their own that have no module, each with the hazard it
is exposed to:

* *File locks* (`HSU/file_locks.py:147`): a marker left by another host, or by an
  older program, blocks the lock until a supported recovery.
* *Workflow storage* (`HSU/workflow_storage.py:324`): segments, a prepared record
  and the root are written in turn.
* *Section ledger* (`manage_bundle_ingest.py:685`): read, changed and written
  without a lock, so that one of two workers loses its update.
* *Document governance* (`governance_repository.py:141`): the mutation lock is a
  file its owner removes; after a crash somebody must confirm and remove it.
* *Query traces* (`query_session.py:146`): open traces are looked for and then one
  started, without a lock.

The skills carry copies of `HSU` below `lib/`; they are the same program, and the
map names the original only.

## 8 Plan

Done: the ledgers, the control above them, the transactions of the Pass stage, page calls, publication of units,
converters, releases and their index. What would come next, in this order:

1. The paired reviews (`paired_reviews.py`), which share the protocol of *PageCalls*
   and differ in their recovery.
2. The refinement from *UnitSets* to the fixed set that *SliceLedger* takes as given.
3. **FileLock** with markers and recovery; **WorkflowStorage** with its segments
   and migration; both as the abstract record and lock the other modules assume.
4. Retries and leases of *SliceLedger* over the plans of *PassTransactions*; the
   skip of Reduce tasks and the reopening of coverage, with their journals.
5. **SectionLedger**, **Governance**, **QueryTraces**: one small module each.
