--------------------------- MODULE IngestWorkflow ---------------------------
(***************************************************************************)
(* The control ledger of one ingest workflow (ingest_workflow.py and its   *)
(* mixins ingest_pauses.py and pass_skips.py): the stage the workflow has  *)
(* reached, its two checkpoints, the canary, the operator's pauses, and    *)
(* cancellation.  Beside it stands the domain work the ledger admits: the  *)
(* batch record, Passes, drafts, finalized builds, releases, the index.    *)
(*                                                                         *)
(* Every ledger operation runs under the workflow's exclusive lock on the  *)
(* record as it is then, and changes nothing when it refuses, so it is one *)
(* step.  Any caller may call any operation at any moment; what the        *)
(* dispatcher calls, and when, is not modelled here.  A worker's domain    *)
(* write holds the same lock (workflow_guard.py); the batch's own          *)
(* operations hold only the batch's lock and never look at the workflow.   *)
(*                                                                         *)
(* The bytes a pause pins are not kept: stale says whether one of them     *)
(* was rewritten since.  Every pinned record carries a revision that only  *)
(* grows, so bytes that changed once never match again.                    *)
(*                                                                         *)
(* Left out: Pass revisions, reduce tests, reduce coverage and partial     *)
(* finalize (they reopen earlier stages under authorizations of their      *)
(* own), replaced slices (SliceLedger has them), templates and cards.      *)
(*                                                                         *)
(* An operator named X_Y is X with the mistake Y: no definition uses it;   *)
(* it shows what the properties would catch.                               *)
(***************************************************************************)
EXTENDS Integers, FiniteSets

CONSTANTS
  Source,      \* the sources a scope may name
  Slice,       \* the slices the batch is planned into
  Scope,       \* the scopes a workflow may be started with
  Id,          \* continuation ids
  CanarySize,  \* the size of a full canary, and the most one may hold
  MaxRefresh   \* bound: governed release refreshes

Stage == 0..12
Created == 0
SourcePreparing == 1
Planning == 2
Analyzing == 3
Reducing == 4
Checkpoint1 == 5
BuildFinalizing == 6
ReleasePlanning == 7
Checkpoint2 == 8
Applying == 9
Indexing == 10
Validating == 11
Completed == 12
NoStage == -1

Boundary == 1..8   \* PAUSE_BOUNDARIES, in the order they are evaluated
ExactPlan == 1
CanaryRun == 2
PassRun == 3
Gate1 == 4
BuildFinalize == 5
Gate2 == 6
ReleaseApply == 7
ReleaseSync == 8
NoPause == 0

Mode == {"manual", "canary_only", "auto_full"}

\* A scope start accepts: pauses and a skipped canary are for auto_full runs.
Acceptable(s) ==
  /\ s.pause # {} => s.mode = "auto_full"
  /\ s.canary = "off" => s.mode = "auto_full" /\ CanaryRun \notin s.pause

ScopeRecord ==
  [sources: SUBSET Source, mode: Mode, canary: {"default", "sample", "off"},
   provider: {"skip", "sync"}, pause: SUBSET Boundary]

ASSUME WorkflowAssumption ==
  /\ Slice # {} /\ CanarySize \in Nat /\ MaxRefresh \in Nat
  /\ Scope \subseteq ScopeRecord /\ \A s \in Scope : Acceptable(s)

VARIABLES
  scope,         \* the scope in force
  outcome,       \* outcome[s]: "none", "ready" or "failed"
  bound,         \* whether a batch is adopted
  stage,         \* current_stage
  state,         \* "active" (the ledger then repeats the stage) or how it ended
  resumeAt,      \* resume_stage
  mode,          \* dispatch_policy.mode
  chosen,        \* dispatch_policy.slice_ids
  skipped,       \* the slices of pass_skip_history
  approved,      \* approved[c]: checkpoint c carries a passing decision
  release,       \* whether a release plan is bound
  generation,    \* how often the release was refreshed
  pause,         \* the latched boundary, or NoPause
  stale,         \* whether evidence the latched pause pins was rewritten
  history,       \* the continuations granted
  initialized,   \* whether the batch's slices exist
  done,          \* the completed slices
  drafted,       \* whether Reduce produced the draft runs
  finalized,     \* whether every build run is completed
  applied,       \* whether the bound release is applied
  synced,        \* whether the index is synchronized to it
  batchState,    \* "open", "checkpoint_1" or "cancelled"
  batchStopped   \* the batch's own cancel_requested

place == <<stage, state, resumeAt>>
plan == <<scope, outcome, bound>>
dispatch == <<mode, chosen, skipped>>
releases == <<approved, release, generation>>
pausing == <<pause, stale, history>>
work == <<initialized, done, drafted, finalized, applied, synced>>
batch == <<batchState, batchStopped>>
vars == <<place, plan, dispatch, releases, pausing, work, batch>>

(***************************************************************************)
(* Reading the ledger.                                                     *)
(***************************************************************************)
Running == state = "active" /\ stage # Completed

FailedSources == {s \in scope.sources : outcome[s] = "failed"}

\* source_coverage has nothing pending, and something to build from.
SourcesDecided ==
  /\ \A s \in scope.sources : outcome[s] # "none"
  /\ \E s \in scope.sources : outcome[s] = "ready"

Settled == done \cup skipped

Sample == IF Cardinality(Slice) < CanarySize THEN Cardinality(Slice) ELSE CanarySize

CanaryCount ==
  IF scope.canary = "off" THEN 0 ELSE IF scope.canary = "sample" THEN Sample ELSE CanarySize

AllPassed == initialized => Slice \subseteq Settled

CanaryPassed ==
  chosen # {} /\ Cardinality(chosen) = CanaryCount /\ chosen \subseteq Settled

\* A refreshed release always stops once it is applied.
Wanted == scope.pause \cup (IF generation > 0 THEN {ReleaseApply} ELSE {})

PerRelease == {Gate2, ReleaseApply, ReleaseSync}

Released ==
  {h.boundary : h \in {g \in history :
     g.boundary \notin PerRelease \/ g.generation = generation}}

Ready(b) ==
  \/ b = ExactPlan /\ stage = Analyzing
  \/ b = CanaryRun /\ stage = Analyzing /\ CanaryPassed
  \/ b = PassRun /\ stage = Analyzing /\ initialized /\ AllPassed
  \/ b = Gate1 /\ stage = Checkpoint1 /\ approved[Checkpoint1]
  \/ b = BuildFinalize /\ stage = BuildFinalizing /\ finalized
  \/ b = Gate2 /\ stage = Checkpoint2 /\ approved[Checkpoint2]
  \/ b = ReleaseApply /\ stage = Indexing
  \/ b = ReleaseSync /\ stage = Validating
  \/ b = ReleaseSync /\ stage = Indexing /\ scope.provider = "skip"

\* The boundaries reached and not released; a stopped workflow has none.
Reached ==
  IF ~bound \/ state = "cancelled" THEN {} ELSE {b \in Wanted \ Released : Ready(b)}

\* assert_not_paused: a reached boundary holds even before it is latched.
NotPaused == pause = NoPause /\ Reached = {}

Touch == stale' = (stale \/ pause # NoPause)

(***************************************************************************)
(* Sources, before a batch is adopted.                                     *)
(***************************************************************************)
\* An adopted batch may be planned, worked on, stopped, and drafted already;
\* one whose builds are finalized has nothing left for a workflow to do.
Init ==
  /\ scope \in Scope
  /\ outcome = [s \in Source |-> "none"]
  /\ bound \in {FALSE, scope.sources = {}}
  /\ stage = IF bound THEN Analyzing ELSE Created
  /\ state = "active" /\ resumeAt = NoStage
  /\ mode = "disabled" /\ chosen = {} /\ skipped = {}
  /\ approved = [c \in {Checkpoint1, Checkpoint2} |-> FALSE]
  /\ release = FALSE /\ generation = 0
  /\ pause = NoPause /\ stale = FALSE /\ history = {}
  /\ initialized \in BOOLEAN /\ (initialized => bound)
  /\ done \in SUBSET Slice /\ (done # {} => initialized)
  /\ drafted \in BOOLEAN /\ (drafted => bound)
  /\ finalized = FALSE /\ applied = FALSE /\ synced = FALSE
  /\ batchStopped \in BOOLEAN /\ (batchStopped => bound)
  /\ batchState = IF batchStopped THEN "cancelled" ELSE "open"

RecordOutcome(s, result) ==
  /\ state # "cancelled" /\ ~bound /\ stage \in {Created, SourcePreparing}
  /\ s \in scope.sources /\ outcome[s] = "none"
  /\ outcome' = [outcome EXCEPT ![s] = result]
  /\ UNCHANGED <<scope, bound, state, resumeAt, dispatch, releases, pausing, work, batch>>
  /\ stage' = IF SourcesDecided' THEN Planning ELSE SourcePreparing

RepairPreparation_KeepsStage(m, pauses, reset) ==
  /\ state = "cancelled" /\ ~bound /\ (pauses # {} => m = "auto_full")
  /\ reset \subseteq FailedSources
  /\ outcome' = [s \in Source |-> IF s \in reset THEN "none" ELSE outcome[s]]
  /\ scope' = [scope EXCEPT !.mode = m, !.pause = pauses]
  /\ UNCHANGED <<bound, place, dispatch, releases, pausing, work, batch>>

\* The operator may also replace the mode and the pauses; start's rules for a
\* skipped canary are not applied again.
RepairPreparation(m, pauses, reset) ==
  /\ state = "cancelled" /\ ~bound
  /\ pauses # {} => m = "auto_full"
  /\ reset \subseteq FailedSources
  /\ outcome' = [s \in Source |-> IF s \in reset THEN "none" ELSE outcome[s]]
  /\ scope' = [scope EXCEPT !.mode = m, !.pause = pauses]
  /\ resumeAt' = SourcePreparing
  /\ UNCHANGED <<bound, stage, state, dispatch, releases, pausing, work, batch>>

(***************************************************************************)
(* The canary.                                                             *)
(***************************************************************************)
\* What canary_preview selects: the first selection stands, a new one is
\* taken from the slices that are ready.
Selectable(S) ==
  IF chosen # {} THEN S = chosen
  ELSE /\ S # {} /\ S \cap Settled = {} /\ Cardinality(S) <= CanarySize
       /\ scope.canary = "sample" => Cardinality(S) = Sample

ArmCanary(S) ==
  /\ NotPaused /\ state # "cancelled" /\ stage = Analyzing /\ mode = "disabled"
  /\ initialized /\ ~batchStopped
  /\ Selectable(S)
  /\ mode' = "canary" /\ chosen' = S
  /\ UNCHANGED <<place, plan, skipped, releases, pausing, work, batch>>

DisarmCanary ==
  /\ mode = "canary"
  /\ mode' = "disabled"
  /\ Touch
  /\ UNCHANGED <<place, plan, chosen, skipped, releases, pause, history, work, batch>>

SkipCanary_Paused ==
  /\ state # "cancelled" /\ stage = Analyzing /\ mode = "disabled"
  /\ scope.canary = "off" /\ scope.mode = "auto_full" /\ initialized
  /\ mode' = "full" /\ chosen' = {}
  /\ UNCHANGED <<place, plan, skipped, releases, pausing, work, batch>>

SkipCanary ==
  /\ NotPaused /\ state # "cancelled" /\ stage = Analyzing /\ mode = "disabled"
  /\ scope.canary = "off" /\ scope.mode = "auto_full"
  /\ initialized
  /\ mode' = "full" /\ chosen' = {}
  /\ UNCHANGED <<place, plan, skipped, releases, pausing, work, batch>>

PromoteCanary ==
  /\ NotPaused /\ state # "cancelled" /\ stage = Analyzing /\ mode = "canary"
  /\ scope.mode = "auto_full"
  /\ CanaryPassed
  /\ mode' = "full"
  /\ UNCHANGED <<place, plan, chosen, skipped, releases, pausing, work, batch>>

SkipPasses_Latched(S) ==
  /\ state = "cancelled" /\ stage = Analyzing /\ bound
  /\ mode \in {"canary", "full"} /\ initialized /\ batchStopped
  /\ S # {} /\ S \cap Settled = {}
  /\ skipped' = skipped \cup S
  /\ UNCHANGED <<place, plan, mode, chosen, releases, pausing, work, batch>>

\* A stopped batch's unfinished slices are given up, as an explicit gap.
SkipPasses(S) ==
  /\ state = "cancelled" /\ stage = Analyzing /\ bound /\ pause = NoPause
  /\ mode \in {"canary", "full"} /\ initialized /\ batchStopped
  /\ S # {} /\ S \cap Settled = {}
  /\ skipped' = skipped \cup S
  /\ UNCHANGED <<place, plan, mode, chosen, releases, pausing, work, batch>>

(***************************************************************************)
(* Stages and checkpoints.                                                 *)
(***************************************************************************)
Admits_OpenSlices(t) ==
  /\ t \in {Planning, Analyzing} /\ ~bound /\ scope.sources # {} => SourcesDecided
  /\ t = Reducing => scope.mode # "canary_only"
  /\ t = Reducing /\ scope.mode = "auto_full" => mode = "full"
  /\ t = Checkpoint1 => drafted /\ batchState = "checkpoint_1"
  /\ t = Completed => FailedSources = {} /\ skipped = {}

\* What reconcile checks of the domain before it enters stage t.
Admits(t) ==
  /\ t \in {Planning, Analyzing} /\ ~bound /\ scope.sources # {} => SourcesDecided
  /\ t = Reducing => scope.mode # "canary_only"
  /\ t = Reducing /\ scope.mode = "auto_full" => mode = "full" /\ AllPassed
  /\ t = Checkpoint1 => drafted /\ batchState = "checkpoint_1"
  /\ t = Completed => FailedSources = {} /\ skipped = {}

\* A stage is left only when the checkpoint it is, if any, was passed.
MayLeave == stage \in {Checkpoint1, Checkpoint2} => approved[stage]

Reconcile(t) ==
  /\ NotPaused /\ Running /\ MayLeave
  /\ t = stage + 1 /\ Admits(t)
  /\ stage' = t
  /\ bound' = (bound \/ t = Analyzing)
  /\ approved' = [c \in {Checkpoint1, Checkpoint2} |-> approved[c] /\ c # t]
  /\ UNCHANGED <<scope, outcome, state, resumeAt, dispatch, release, generation, pausing,
                 work, batch>>

\* Acceptance may also end the workflow as partial or failed.
Conclude(verdict) ==
  /\ NotPaused /\ Running /\ stage = Validating
  /\ state' = verdict
  /\ UNCHANGED <<stage, resumeAt, plan, dispatch, releases, pausing, work, batch>>

\* A named person decides, on whatever grounds.
Approve(c) ==
  /\ state # "cancelled" /\ stage = c /\ ~approved[c]
  /\ approved' = [approved EXCEPT ![c] = TRUE]
  /\ Touch
  /\ UNCHANGED <<place, plan, dispatch, release, generation, pause, history, work, batch>>

\* The program decides: the batch is validated again, or the plan read again.
ApproveAutomatic(c) ==
  /\ scope.mode = "auto_full"
  /\ state # "cancelled" /\ stage = c /\ ~approved[c]
  /\ c = Checkpoint1 => drafted
  /\ c = Checkpoint2 => release /\ ~applied
  /\ approved' = [approved EXCEPT ![c] = TRUE]
  /\ batchState' = IF c = Checkpoint1 THEN "checkpoint_1" ELSE batchState
  /\ Touch
  /\ UNCHANGED <<place, plan, dispatch, release, generation, pause, history, work,
                 batchStopped>>

BindReleasePlan ==
  /\ state # "cancelled" /\ stage = ReleasePlanning
  /\ finalized /\ ~release
  /\ release' = TRUE
  /\ Touch
  /\ UNCHANGED <<place, plan, dispatch, approved, generation, pause, history, work, batch>>

RefreshRelease_ResumesIndexing ==
  /\ state = "cancelled" /\ stage = Indexing /\ pause = NoPause
  /\ release /\ applied /\ ~synced /\ generation < MaxRefresh
  /\ generation' = generation + 1
  /\ release' = FALSE /\ applied' = FALSE
  /\ approved' = [approved EXCEPT ![Checkpoint2] = FALSE]
  /\ stage' = ReleasePlanning
  /\ UNCHANGED <<resumeAt, state, plan, dispatch, pausing, initialized, done, drafted,
                 finalized, synced, batch>>

\* A stopped workflow whose release is applied but not indexed plans another.
RefreshRelease ==
  /\ state = "cancelled" /\ stage = Indexing /\ pause = NoPause
  /\ release /\ applied /\ ~synced
  /\ generation < MaxRefresh
  /\ generation' = generation + 1
  /\ release' = FALSE /\ applied' = FALSE
  /\ approved' = [approved EXCEPT ![Checkpoint2] = FALSE]
  /\ stage' = ReleasePlanning /\ resumeAt' = ReleasePlanning
  /\ UNCHANGED <<state, plan, dispatch, pausing, initialized, done, drafted, finalized,
                 synced, batch>>

(***************************************************************************)
(* Cancellation and pauses.                                                *)
(***************************************************************************)
Cancel ==
  /\ Running
  /\ state' = "cancelled" /\ resumeAt' = stage
  /\ UNCHANGED <<stage, plan, dispatch, releases, pausing, work, batch>>

Resume ==
  /\ state = "cancelled"
  /\ state' = "active" /\ stage' = resumeAt /\ resumeAt' = NoStage
  /\ UNCHANGED <<plan, dispatch, releases, pausing, work, batch>>

\* The first boundary reached is recorded with the evidence it stands on; an
\* exact plan waits for its slices, and a stopped batch is no evidence.
LatchPause(b) ==
  /\ pause = NoPause
  /\ b \in Reached /\ \A c \in Reached : b <= c
  /\ b = ExactPlan => initialized
  /\ ~batchStopped
  /\ pause' = b /\ stale' = FALSE
  /\ UNCHANGED <<place, plan, dispatch, releases, history, work, batch>>

ContinueWorkflow_AnyId(i, b) ==
  /\ Running /\ b # NoPause /\ pause = b
  /\ ~stale /\ ~batchStopped
  /\ history' = history \cup {[id |-> i, boundary |-> b, generation |-> generation]}
  /\ pause' = NoPause
  /\ UNCHANGED <<place, plan, dispatch, releases, stale, work, batch>>

\* One continuation releases the boundary it names; an id already used
\* releases nothing more.
ContinueWorkflow(i, b) ==
  /\ \A h \in history : h.id # i
  /\ Running /\ b # NoPause /\ pause = b
  /\ ~stale /\ ~batchStopped
  /\ history' = history \cup {[id |-> i, boundary |-> b, generation |-> generation]}
  /\ pause' = NoPause
  /\ UNCHANGED <<place, plan, dispatch, releases, stale, work, batch>>

(***************************************************************************)
(* The work.  A worker's write is refused once the workflow is stopped or  *)
(* a boundary is reached, however long ago the worker began.  A manual     *)
(* workflow has no workers: its operator writes in the foreground, and no  *)
(* guard applies.                                                          *)
(***************************************************************************)
MayWrite == scope.mode = "manual" \/ (Running /\ NotPaused)

\* The stages at which the worker of each kind may have begun.
PassOpen(s) ==
  \/ mode = "full" /\ stage \in {Analyzing, Reducing}
  \/ mode = "canary" /\ s \in chosen

BatchOpen(t) == scope.mode = "auto_full" /\ mode = "full" /\ stage >= t

InitializeSlices ==
  /\ bound /\ ~initialized /\ ~batchStopped
  /\ initialized' = TRUE
  /\ Touch
  /\ UNCHANGED <<place, plan, dispatch, releases, pause, history, done, drafted, finalized,
                 applied, synced, batch>>

CompleteSlice(s) ==
  /\ initialized /\ ~batchStopped /\ s \notin Settled
  /\ MayWrite /\ (scope.mode = "manual" \/ PassOpen(s))
  /\ done' = done \cup {s}
  /\ Touch
  /\ UNCHANGED <<place, plan, dispatch, releases, pause, history, initialized, drafted,
                 finalized, applied, synced, batch>>

Reduce ==
  /\ bound /\ ~batchStopped /\ ~drafted
  /\ MayWrite /\ (scope.mode = "manual" \/ BatchOpen(Reducing))
  /\ drafted' = TRUE /\ batchState' = "open"
  /\ Touch
  /\ UNCHANGED <<place, plan, dispatch, releases, pause, history, initialized, done,
                 finalized, applied, synced, batchStopped>>

FinalizeBatch ==
  /\ drafted /\ ~finalized
  /\ MayWrite /\ (scope.mode = "manual" \/ BatchOpen(BuildFinalizing))
  /\ finalized' = TRUE /\ batchState' = "open"
  /\ Touch
  /\ UNCHANGED <<place, plan, dispatch, releases, pause, history, initialized, done,
                 drafted, applied, synced, batchStopped>>

\* The worker checks the second checkpoint itself before it applies.
ApplyRelease ==
  /\ release /\ ~applied
  /\ MayWrite
  /\ scope.mode = "manual" \/ (BatchOpen(Applying) /\ approved[Checkpoint2])
  /\ applied' = TRUE
  /\ Touch
  /\ UNCHANGED <<place, plan, dispatch, releases, pause, history, initialized, done,
                 drafted, finalized, synced, batch>>

SyncIndex ==
  /\ scope.provider = "sync" /\ applied /\ ~synced
  /\ MayWrite /\ (scope.mode = "manual" \/ BatchOpen(Indexing))
  /\ synced' = TRUE
  /\ Touch
  /\ UNCHANGED <<place, plan, dispatch, releases, pause, history, initialized, done,
                 drafted, finalized, applied, batch>>

(***************************************************************************)
(* The batch's own operations, which the workflow's lock does not cover.   *)
(***************************************************************************)
\* Validation rewrites the batch's state whether or not it was stopped.
ValidateBatch(ok) ==
  /\ bound /\ (ok => drafted)
  /\ batchState' = IF ok THEN "checkpoint_1" ELSE "open"
  /\ Touch
  /\ UNCHANGED <<place, plan, dispatch, releases, pause, history, work, batchStopped>>

CancelBatch ==
  /\ bound /\ ~batchStopped
  /\ batchStopped' = TRUE /\ batchState' = "cancelled"
  /\ Touch
  /\ UNCHANGED <<place, plan, dispatch, releases, pause, history, work>>

ResumeCancelledBatch ==
  /\ batchStopped /\ batchState = "cancelled"
  /\ batchStopped' = FALSE /\ batchState' = "open"
  /\ Touch
  /\ UNCHANGED <<place, plan, dispatch, releases, pause, history, work>>

PrepareNext ==
  \/ \E s \in Source, result \in {"ready", "failed"} : RecordOutcome(s, result)
  \/ \E m \in Mode, pauses \in {s.pause : s \in Scope}, reset \in SUBSET Source :
       RepairPreparation(m, pauses, reset)

CanaryNext ==
  \/ \E S \in SUBSET Slice : ArmCanary(S)
  \/ DisarmCanary
  \/ SkipCanary
  \/ PromoteCanary
  \/ \E S \in SUBSET Slice : SkipPasses(S)

StageNext ==
  \/ \E t \in Stage : Reconcile(t)
  \/ \E verdict \in {"partial", "failed"} : Conclude(verdict)
  \/ \E c \in {Checkpoint1, Checkpoint2} : Approve(c)
  \/ \E c \in {Checkpoint1, Checkpoint2} : ApproveAutomatic(c)
  \/ BindReleasePlan
  \/ RefreshRelease

PauseNext ==
  \/ Cancel
  \/ Resume
  \/ \E b \in Boundary : LatchPause(b)
  \/ \E i \in Id, b \in Boundary : ContinueWorkflow(i, b)

WorkNext ==
  \/ InitializeSlices
  \/ \E s \in Slice : CompleteSlice(s)
  \/ Reduce
  \/ FinalizeBatch
  \/ ApplyRelease
  \/ SyncIndex

BatchNext ==
  \/ \E ok \in BOOLEAN : ValidateBatch(ok)
  \/ CancelBatch
  \/ ResumeCancelledBatch

Next == PrepareNext \/ CanaryNext \/ StageNext \/ PauseNext \/ WorkNext \/ BatchNext

Spec == Init /\ [][Next]_vars

(***************************************************************************)
(* Properties.                                                             *)
(***************************************************************************)
TypeOK ==
  /\ scope \in ScopeRecord
  /\ outcome \in [Source -> {"none", "ready", "failed"}]
  /\ bound \in BOOLEAN
  /\ stage \in Stage
  /\ state \in {"active", "cancelled", "partial", "failed"}
  /\ resumeAt \in Stage \cup {NoStage}
  /\ mode \in {"disabled", "canary", "full"}
  /\ chosen \subseteq Slice /\ skipped \subseteq Slice /\ done \subseteq Slice
  /\ approved \in [{Checkpoint1, Checkpoint2} -> BOOLEAN]
  /\ release \in BOOLEAN /\ generation \in 0..MaxRefresh
  /\ pause \in Boundary \cup {NoPause} /\ stale \in BOOLEAN
  /\ history \subseteq [id: Id, boundary: Boundary, generation: 0..MaxRefresh]
  /\ initialized \in BOOLEAN /\ drafted \in BOOLEAN /\ finalized \in BOOLEAN
  /\ applied \in BOOLEAN /\ synced \in BOOLEAN
  /\ batchState \in {"open", "checkpoint_1", "cancelled"} /\ batchStopped \in BOOLEAN

\* The stage the workflow is at, or comes back to.
Place == IF state = "cancelled" THEN resumeAt ELSE stage

\* What boundary b holds back has not happened.
HeldBack(b) ==
  /\ b = ExactPlan => stage <= Analyzing /\ mode = "disabled"
  /\ b = CanaryRun /\ scope.canary # "off" => stage <= Analyzing /\ mode # "full"
  /\ b = PassRun => stage <= Analyzing
  /\ b = Gate1 => stage <= Checkpoint1 /\ ~finalized
  /\ b = Gate2 => stage <= Checkpoint2 /\ ~applied
  /\ b = ReleaseApply => stage <= Indexing /\ (scope.mode = "auto_full" => ~synced)
  /\ b = ReleaseSync => stage <= Validating /\ state \notin {"partial", "failed"}

\* A pause the operator asked for and did not release holds what comes after
\* it: no stage is entered, no dispatch widened and nothing written, whoever
\* calls, latched or not, through cancellations and refreshed releases.
\* build_finalize is not among them: reconcile may enter release planning
\* before the builds are finalized, and then the pause is never reached.
PausesHold == \A b \in Wanted \ Released : HeldBack(b)

\* No stage after a checkpoint, and in an automatic workflow no finalized
\* build and no applied release, without the checkpoint's decision.
GatesHold ==
  /\ Place > Checkpoint1 => approved[Checkpoint1]
  /\ Place > Checkpoint2 => approved[Checkpoint2]
  /\ scope.mode = "auto_full" =>
       /\ finalized => approved[Checkpoint1]
       /\ applied => approved[Checkpoint2] /\ release /\ finalized

\* An automatic workflow leaves the Pass phase with every slice passed or
\* given up explicitly, and with a gap anywhere it does not end as completed.
CoverageHolds ==
  /\ scope.mode = "auto_full" /\ Place > Analyzing =>
       initialized /\ mode = "full" /\ Slice \subseteq Settled
  /\ Place = Completed => FailedSources = {} /\ skipped = {}

\* Planning and everything after it stand on a decision about every source,
\* one of them ready; a repair that takes a decision back goes back before it.
SourcesFirst == Place >= Planning /\ scope.sources # {} => SourcesDecided

\* A stage stands on the sources and the Passes it takes as decided.
StagesGrounded == SourcesFirst /\ CoverageHolds

\* A continuation id releases one boundary, and a boundary is released once:
\* the release boundaries once for each release.
GrantsOnce ==
  \A g, h \in history :
    \/ g.id = h.id
    \/ g.boundary = h.boundary /\ (g.boundary \notin PerRelease \/ g.generation = h.generation)
    => g = h

\* From a reached boundary on, until it is released, an automatic workflow
\* writes no result and moves neither its stage nor its canary forward.
StillWhilePaused ==
  [][scope.mode = "auto_full" /\ ~NotPaused =>
       /\ UNCHANGED <<done, skipped, drafted, finalized, applied, synced, stage>>
       /\ mode' \in {mode, "disabled"}]_vars

\* An adopted batch stays adopted and the stages are not walked back, by a
\* cancellation and a resumption neither; only a new release is planned again.
NeverBack ==
  [][bound => bound' /\ (stage' >= stage \/ generation' > generation)]_vars

Final == state \in {"partial", "failed"} \/ (state = "active" /\ stage = Completed)

\* A workflow that has ended stays as it ended: nobody resumes it, decides
\* about it or pauses it, and no late worker adds to an automatic one.
EndsForGood ==
  [][Final => /\ UNCHANGED <<place, plan, skipped, releases, pause, history>>
              /\ scope.mode = "auto_full" => UNCHANGED work]_vars

\* No step, of whatever actor, takes back or adds to what is settled.
StepsHold == StillWhilePaused /\ NeverBack /\ EndsForGood
=============================================================================
