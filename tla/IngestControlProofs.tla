------------------------- MODULE IngestControlProofs -------------------------
(***************************************************************************)
(* First what IngestWorkflow promises, for any number of sources and       *)
(* slices, any scopes, continuation ids and refreshes.                     *)
(*                                                                         *)
(* Then what IngestControl promises, for any slices, scopes, stops and     *)
(* crashes: the coordinator, the dispatcher, the workers and the operator  *)
(* together implement IngestWorkflow, so that the theorems of the first    *)
(* part hold of them; no card is offered while a worker of it may write;   *)
(* one whose run ended is offered again only for an unfinished Pass that   *)
(* nobody holds and whose run is known to be over; a card is closed only   *)
(* on a result that is there; an offered card is one the record admits.    *)
(***************************************************************************)
EXTENDS IngestControl, TLAPS

(***************************************************************************)
(* FIRST PART: the workflow ledger.                                        *)
(***************************************************************************)
\* Before a batch is adopted nothing downstream has happened.
Untouched ==
  /\ stage < Analyzing /\ (state = "cancelled" => resumeAt < Analyzing)
  /\ state \in {"active", "cancelled"}
  /\ mode = "disabled" /\ skipped = {} /\ pause = NoPause /\ generation = 0
  /\ ~initialized /\ ~drafted /\ ~finalized /\ ~release /\ ~applied /\ ~synced

\* Where a workflow comes back to, and what its dispatch mode stands on.
Bookkeeping ==
  /\ scope.pause # {} => scope.mode = "auto_full"
  /\ state = "cancelled" => resumeAt \in Stage
  /\ state \in {"partial", "failed"} => stage = Validating
  /\ bound => stage >= Analyzing /\ (state = "cancelled" => resumeAt = stage)
  /\ ~bound => Untouched
  /\ mode # "disabled" => initialized
  /\ mode = "full" => scope.mode = "auto_full"

\* How far the domain work may be ahead of the stage.
ReleaseOrder ==
  /\ release => finalized
  /\ scope.mode = "auto_full" =>
       /\ finalized => stage >= BuildFinalizing
       /\ applied => stage >= Applying

\* What is latched is not released.
LatchedIsHeld == pause # NoPause => pause \notin Released

\* The inductive invariant.
IInv ==
  /\ TypeOK
  /\ Bookkeeping
  /\ ReleaseOrder
  /\ LatchedIsHeld
  /\ PausesHold
  /\ GatesHold
  /\ CoverageHolds
  /\ SourcesFirst
  /\ GrantsOnce

----------------------------------------------------------------------------
(* What each group of actions leaves alone.                                 *)

LEMMA PrepareFrame ==
  ASSUME PrepareNext
  PROVE  /\ ~bound /\ bound' = bound /\ state' = state
         /\ UNCHANGED <<dispatch, releases, pausing, work, batch>>
  BY DEF PrepareNext, RecordOutcome, RepairPreparation, dispatch, releases, pausing, work, batch

LEMMA CanaryFrame ==
  ASSUME CanaryNext
  PROVE  UNCHANGED <<place, plan, releases, pause, history, work, batch>>
  BY DEF CanaryNext, ArmCanary, DisarmCanary, SkipCanary, PromoteCanary, SkipPasses, pausing

LEMMA StageFrame ==
  ASSUME StageNext
  PROVE  UNCHANGED <<scope, outcome, dispatch, pause, history, initialized, done, drafted,
                     finalized, synced, batchStopped>>
  BY DEF StageNext, Reconcile, Conclude, Approve, ApproveAutomatic, BindReleasePlan,
     RefreshRelease, plan, pausing, work, batch

LEMMA PauseFrame ==
  ASSUME PauseNext
  PROVE  UNCHANGED <<plan, dispatch, releases, work, batch>>
  BY DEF PauseNext, Cancel, Resume, LatchPause, ContinueWorkflow

LEMMA WorkFrame ==
  ASSUME WorkNext
  PROVE  UNCHANGED <<place, plan, dispatch, releases, pause, history, batchStopped>>
  BY DEF WorkNext, InitializeSlices, CompleteSlice, Reduce, FinalizeBatch, ApplyRelease,
     SyncIndex, batch

LEMMA BatchFrame ==
  ASSUME BatchNext
  PROVE  UNCHANGED <<place, plan, dispatch, releases, pause, history, work>>
  BY DEF BatchNext, ValidateBatch, CancelBatch, ResumeCancelledBatch

----------------------------------------------------------------------------
(* Type correctness.                                                        *)

LEMMA TypeInit == Init => TypeOK
  <1> SUFFICES ASSUME Init PROVE TypeOK
    OBVIOUS
  <1>1. scope \in ScopeRecord
    BY WorkflowAssumption DEF Init
  <1>2. stage \in Stage
    BY DEF Init, Stage, Created, Analyzing
  <1>3. approved \in [{Checkpoint1, Checkpoint2} -> BOOLEAN]
    BY DEF Init
  <1>4. generation \in 0..MaxRefresh
    BY WorkflowAssumption DEF Init
  <1> QED
    BY <1>1, <1>2, <1>3, <1>4 DEF Init, TypeOK, NoStage, NoPause

LEMMA TypeStep == TypeOK /\ Bookkeeping /\ [Next]_vars => TypeOK'
  <1> SUFFICES ASSUME TypeOK, Bookkeeping, [Next]_vars PROVE TypeOK'
    OBVIOUS
  <1>1. ASSUME NEW s \in Source, NEW result \in {"ready", "failed"}, RecordOutcome(s, result)
        PROVE TypeOK'
    BY <1>1 DEF TypeOK, RecordOutcome, Stage, Planning, SourcePreparing,
       dispatch, releases, pausing, work, batch
  <1>2. ASSUME NEW m \in Mode, NEW pauses \in {s.pause : s \in Scope},
               NEW reset \in SUBSET Source, RepairPreparation(m, pauses, reset)
        PROVE TypeOK'
    <2>1. pauses \in SUBSET Boundary
      BY WorkflowAssumption DEF ScopeRecord
    <2>2. scope' \in ScopeRecord
      BY <1>2, <2>1 DEF TypeOK, RepairPreparation, ScopeRecord
    <2>3. outcome' \in [Source -> {"none", "ready", "failed"}]
      BY <1>2 DEF TypeOK, RepairPreparation
    <2> QED
      BY <1>2, <2>2, <2>3 DEF TypeOK, RepairPreparation, Stage, SourcePreparing,
         dispatch, releases, pausing, work, batch
  <1>3. CASE CanaryNext
    <2>1. mode' \in {"disabled", "canary", "full"} /\ chosen' \subseteq Slice /\ skipped' \subseteq Slice
      BY <1>3 DEF TypeOK, CanaryNext, ArmCanary, DisarmCanary, SkipCanary, PromoteCanary, SkipPasses
    <2>2. stale' \in BOOLEAN
      BY <1>3 DEF TypeOK, CanaryNext, ArmCanary, DisarmCanary, SkipCanary, PromoteCanary,
         SkipPasses, Touch, pausing
    <2> QED
      BY <1>3, <2>1, <2>2, CanaryFrame DEF TypeOK, place, plan, releases, work, batch
  <1>4. CASE StageNext
    <2>1. stage' \in Stage /\ resumeAt' \in Stage \cup {NoStage}
      <3>1. ReleasePlanning \in Stage
        BY DEF ReleasePlanning, Stage
      <3> QED
        BY <1>4, <3>1 DEF TypeOK, StageNext, Reconcile, Conclude, Approve, ApproveAutomatic,
           BindReleasePlan, RefreshRelease, place
    <2>7. bound' \in BOOLEAN
      BY <1>4 DEF TypeOK, StageNext, Reconcile, Conclude, Approve, ApproveAutomatic,
         BindReleasePlan, RefreshRelease, plan
    <2>2. state' \in {"active", "cancelled", "partial", "failed"}
      BY <1>4 DEF TypeOK, StageNext, Reconcile, Conclude, Approve, ApproveAutomatic,
         BindReleasePlan, RefreshRelease, place
    <2>3. approved' \in [{Checkpoint1, Checkpoint2} -> BOOLEAN]
      BY <1>4 DEF TypeOK, StageNext, Reconcile, Conclude, Approve, ApproveAutomatic,
         BindReleasePlan, RefreshRelease, releases
    <2>4. release' \in BOOLEAN /\ stale' \in BOOLEAN /\ applied' \in BOOLEAN
      BY <1>4 DEF TypeOK, StageNext, Reconcile, Conclude, Approve, ApproveAutomatic,
         BindReleasePlan, RefreshRelease, releases, pausing, work, Touch
    <2>5. generation' \in 0..MaxRefresh
      BY <1>4, WorkflowAssumption DEF TypeOK, StageNext, Reconcile, Conclude, Approve,
         ApproveAutomatic, BindReleasePlan, RefreshRelease, releases
    <2>6. batchState' \in {"open", "checkpoint_1", "cancelled"}
      BY <1>4 DEF TypeOK, StageNext, Reconcile, Conclude, Approve, ApproveAutomatic,
         BindReleasePlan, RefreshRelease, batch
    <2> QED
      BY <1>4, <2>1, <2>2, <2>3, <2>4, <2>5, <2>6, <2>7, StageFrame DEF TypeOK, dispatch
  <1>5. CASE PauseNext
    <2>1. /\ stage' \in Stage /\ resumeAt' \in Stage \cup {NoStage}
          /\ state' \in {"active", "cancelled", "partial", "failed"}
      BY <1>5 DEF TypeOK, Bookkeeping, PauseNext, Cancel, Resume, LatchPause,
         ContinueWorkflow, place
    <2>2. pause' \in Boundary \cup {NoPause} /\ stale' \in BOOLEAN
      BY <1>5 DEF TypeOK, PauseNext, Cancel, Resume, LatchPause, ContinueWorkflow, pausing
    <2>3. history' \subseteq [id: Id, boundary: Boundary, generation: 0..MaxRefresh]
      BY <1>5 DEF TypeOK, PauseNext, Cancel, Resume, LatchPause, ContinueWorkflow, pausing
    <2> QED
      BY <1>5, <2>1, <2>2, <2>3, PauseFrame DEF TypeOK, plan, dispatch, releases, work, batch
  <1>6. CASE WorkNext
    <2>1. /\ initialized' \in BOOLEAN /\ drafted' \in BOOLEAN /\ finalized' \in BOOLEAN
          /\ applied' \in BOOLEAN /\ synced' \in BOOLEAN /\ stale' \in BOOLEAN
      BY <1>6 DEF TypeOK, WorkNext, InitializeSlices, CompleteSlice, Reduce, FinalizeBatch,
         ApplyRelease, SyncIndex, Touch
    <2>2. done' \subseteq Slice /\ batchState' \in {"open", "checkpoint_1", "cancelled"}
      BY <1>6 DEF TypeOK, WorkNext, InitializeSlices, CompleteSlice, Reduce, FinalizeBatch,
         ApplyRelease, SyncIndex, batch
    <2> QED
      BY <1>6, <2>1, <2>2, WorkFrame DEF TypeOK, place, plan, dispatch, releases
  <1>7. CASE BatchNext
    <2>1. /\ batchState' \in {"open", "checkpoint_1", "cancelled"}
          /\ batchStopped' \in BOOLEAN /\ stale' \in BOOLEAN
      BY <1>7 DEF TypeOK, BatchNext, ValidateBatch, CancelBatch, ResumeCancelledBatch, Touch
    <2> QED
      BY <1>7, <2>1, BatchFrame DEF TypeOK, place, plan, dispatch, releases, work
  <1>8. CASE UNCHANGED vars
    BY <1>8 DEF TypeOK, vars, place, plan, dispatch, releases, pausing, work, batch
  <1> QED
    BY <1>1, <1>2, <1>3, <1>4, <1>5, <1>6, <1>7, <1>8 DEF Next, PrepareNext

----------------------------------------------------------------------------
(* The workflow's own bookkeeping.                                          *)

LEMMA InitInv == Init => IInv
  <1> SUFFICES ASSUME Init PROVE IInv
    OBVIOUS
  <1>1. TypeOK
    BY TypeInit
  <1>2. stage \in {Created, Analyzing} /\ state = "active"
    BY DEF Init
  <1>3. Bookkeeping
    BY <1>2, WorkflowAssumption
    DEF Init, Bookkeeping, Untouched, Acceptable, Created, Analyzing, NoPause
  <1>4. ReleaseOrder /\ LatchedIsHeld
    BY DEF Init, ReleaseOrder, LatchedIsHeld
  <1>5. PausesHold
    BY <1>2 DEF Init, PausesHold, HeldBack, Created, Analyzing, Checkpoint1, Checkpoint2,
       Indexing, Validating, CanaryRun
  <1>6. GatesHold
    BY <1>2 DEF Init, GatesHold, Place, Created, Analyzing, Checkpoint1, Checkpoint2
  <1>7. CoverageHolds
    BY <1>2 DEF Init, CoverageHolds, Place, Created, Analyzing, Completed
  <1>8. SourcesFirst
    <2>1. scope.sources # {} => ~bound
      BY DEF Init
    <2> QED
      BY <1>2, <2>1 DEF Init, SourcesFirst, Place, Created, Planning
  <1>9. GrantsOnce
    BY DEF Init, GrantsOnce
  <1> QED
    BY <1>1, <1>3, <1>4, <1>5, <1>6, <1>7, <1>8, <1>9 DEF IInv

LEMMA BookkeepingStep == IInv /\ [Next]_vars => Bookkeeping'
  <1> SUFFICES ASSUME TypeOK, Bookkeeping, [Next]_vars PROVE Bookkeeping'
    BY DEF IInv
  <1>1. ASSUME NEW s \in Source, NEW result \in {"ready", "failed"}, RecordOutcome(s, result)
        PROVE Bookkeeping'
    BY <1>1 DEF Bookkeeping, Untouched, RecordOutcome, Planning, SourcePreparing, Analyzing,
       dispatch, releases, pausing, work, batch
  <1>2. ASSUME NEW m \in Mode, NEW pauses \in {s.pause : s \in Scope},
               NEW reset \in SUBSET Source, RepairPreparation(m, pauses, reset)
        PROVE Bookkeeping'
    BY <1>2 DEF Bookkeeping, Untouched, RepairPreparation, Stage, SourcePreparing, Analyzing,
       dispatch, releases, pausing, work, batch
  <1>3. CASE CanaryNext
    <2>1. /\ mode' = "full" => scope.mode = "auto_full"
          /\ mode' # "disabled" => initialized
      BY <1>3 DEF Bookkeeping, CanaryNext, ArmCanary, DisarmCanary, SkipCanary, PromoteCanary,
         SkipPasses
    <2>2. ~bound => mode' = "disabled" /\ skipped' = {}
      BY <1>3 DEF Bookkeeping, Untouched, CanaryNext, ArmCanary, DisarmCanary, SkipCanary,
         PromoteCanary, SkipPasses
    <2> QED
      BY <1>3, <2>1, <2>2, CanaryFrame DEF Bookkeeping, Untouched, place, plan, releases, work
  <1>4. CASE StageNext
    <2>1. ASSUME NEW t \in Stage, Reconcile(t) PROVE Bookkeeping'
      <3>1. /\ stage' = stage + 1 /\ state = "active" /\ state' = state
            /\ bound' <=> (bound \/ stage' = Analyzing)
        BY <2>1 DEF TypeOK, Reconcile, Running
      <3>2. stage \in 0..12 /\ (bound => stage >= 3) /\ (~bound => stage < 3)
        BY DEF TypeOK, Stage, Bookkeeping, Untouched, Analyzing
      <3>3. (bound' => stage' >= 3) /\ (~bound' => ~bound /\ stage' < 3)
        BY <3>1, <3>2 DEF Analyzing
      <3> QED
        BY <2>1, <3>1, <3>3 DEF Bookkeeping, Untouched, Reconcile, Analyzing, dispatch, pausing, work
    <2>2. ASSUME NEW verdict \in {"partial", "failed"}, Conclude(verdict) PROVE Bookkeeping'
      BY <2>2 DEF Bookkeeping, Untouched, Conclude, Validating, Analyzing,
         plan, dispatch, releases, pausing, work
    <2>3. CASE \E c \in {Checkpoint1, Checkpoint2} : Approve(c) \/ ApproveAutomatic(c)
      BY <2>3 DEF Bookkeeping, Untouched, Approve, ApproveAutomatic, place, plan, dispatch, work
    <2>4. CASE BindReleasePlan
      BY <2>4 DEF Bookkeeping, Untouched, BindReleasePlan, place, plan, dispatch, work
    <2>5. CASE RefreshRelease
      BY <2>5 DEF Bookkeeping, Untouched, RefreshRelease, Stage, Analyzing, ReleasePlanning,
         Indexing, plan, dispatch, pausing
    <2> QED
      BY <1>4, <2>1, <2>2, <2>3, <2>4, <2>5 DEF StageNext
  <1>5. CASE PauseNext
    <2>1. CASE Cancel
      BY <2>1 DEF TypeOK, Bookkeeping, Untouched, Cancel, plan, dispatch, releases, pausing, work
    <2>2. CASE Resume
      BY <2>2 DEF TypeOK, Bookkeeping, Untouched, Resume, plan, dispatch, releases, pausing, work
    <2>3. ASSUME NEW b \in Boundary, LatchPause(b) PROVE Bookkeeping'
      BY <2>3 DEF Bookkeeping, Untouched, LatchPause, Reached, place, plan, dispatch, releases, work
    <2>4. ASSUME NEW i \in Id, NEW b \in Boundary, ContinueWorkflow(i, b) PROVE Bookkeeping'
      BY <2>4 DEF Bookkeeping, Untouched, ContinueWorkflow, place, plan, dispatch, releases, work
    <2> QED
      BY <1>5, <2>1, <2>2, <2>3, <2>4 DEF PauseNext
  <1>6. CASE WorkNext
    <2>1. /\ initialized => initialized'
          /\ ~bound => /\ initialized' = initialized /\ drafted' = drafted
                       /\ finalized' = finalized /\ applied' = applied /\ synced' = synced
      BY <1>6 DEF Bookkeeping, Untouched, WorkNext, InitializeSlices, CompleteSlice, Reduce,
         FinalizeBatch, ApplyRelease, SyncIndex, MayWrite, BatchOpen, BuildFinalizing, Analyzing
    <2> QED
      BY <1>6, <2>1, WorkFrame DEF Bookkeeping, Untouched, place, plan, dispatch, releases
  <1>7. CASE BatchNext
    BY <1>7, BatchFrame DEF Bookkeeping, Untouched, place, plan, dispatch, releases, work
  <1>8. CASE UNCHANGED vars
    BY <1>8 DEF Bookkeeping, Untouched, vars, place, plan, dispatch, releases, pausing, work
  <1> QED
    BY <1>1, <1>2, <1>3, <1>4, <1>5, <1>6, <1>7, <1>8 DEF Next, PrepareNext

----------------------------------------------------------------------------
(* The work keeps its order, and stays behind the stage.                    *)

LEMMA ReleaseOrderStep == IInv /\ [Next]_vars => ReleaseOrder'
  <1> SUFFICES ASSUME TypeOK, Bookkeeping, ReleaseOrder, [Next]_vars PROVE ReleaseOrder'
    BY DEF IInv
  <1>1. CASE PrepareNext
    BY <1>1, PrepareFrame DEF Bookkeeping, Untouched, ReleaseOrder, releases, work
  <1>2. CASE CanaryNext
    BY <1>2, CanaryFrame DEF ReleaseOrder, place, plan, releases, work
  <1>3. CASE StageNext
    <2>1. ASSUME NEW t \in Stage, Reconcile(t) PROVE ReleaseOrder'
      <3>1. stage' = stage + 1 /\ stage \in 0..12
        BY <2>1 DEF TypeOK, Reconcile, Stage
      <3> QED
        BY <2>1, <3>1 DEF ReleaseOrder, Reconcile, work, BuildFinalizing, Applying
    <2>2. CASE \E verdict \in {"partial", "failed"} : Conclude(verdict)
      BY <2>2 DEF ReleaseOrder, Conclude, plan, releases, work
    <2>3. CASE \E c \in {Checkpoint1, Checkpoint2} : Approve(c) \/ ApproveAutomatic(c)
      BY <2>3 DEF ReleaseOrder, Approve, ApproveAutomatic, place, plan, work
    <2>4. CASE BindReleasePlan
      BY <2>4 DEF ReleaseOrder, BindReleasePlan, place, plan, work
    <2>5. CASE RefreshRelease
      BY <2>5 DEF ReleaseOrder, RefreshRelease, plan, ReleasePlanning, BuildFinalizing
    <2> QED
      BY <1>3, <2>1, <2>2, <2>3, <2>4, <2>5 DEF StageNext
  <1>4. CASE PauseNext
    <2>1. bound => stage' = stage
      BY <1>4 DEF TypeOK, Bookkeeping, PauseNext, Cancel, Resume, LatchPause, ContinueWorkflow, place
    <2> QED
      BY <1>4, <2>1, PauseFrame DEF Bookkeeping, Untouched, ReleaseOrder, plan, releases, work
  <1>5. CASE WorkNext
    <2>1. /\ finalized => finalized'
          /\ scope.mode = "auto_full" =>
               /\ finalized' => finalized \/ stage >= BuildFinalizing
               /\ applied' => applied \/ stage >= Applying
      BY <1>5 DEF WorkNext, InitializeSlices, CompleteSlice, Reduce, FinalizeBatch,
         ApplyRelease, SyncIndex, BatchOpen
    <2> QED
      BY <1>5, <2>1, WorkFrame DEF ReleaseOrder, place, plan, releases
  <1>6. CASE BatchNext
    BY <1>6, BatchFrame DEF ReleaseOrder, place, plan, releases, work
  <1>7. CASE UNCHANGED vars
    BY <1>7 DEF ReleaseOrder, vars, place, plan, releases, work
  <1> QED
    BY <1>1, <1>2, <1>3, <1>4, <1>5, <1>6, <1>7 DEF Next

----------------------------------------------------------------------------
(* Sources and coverage.                                                    *)

\* The place a workflow comes back to is its stage, or before planning.
LEMMA PlaceIs ==
  ASSUME TypeOK, Bookkeeping
  PROVE  (bound => Place = stage) /\ (~bound => Place \in Stage /\ Place < Analyzing)
  BY DEF TypeOK, Bookkeeping, Untouched, Place

LEMMA SourcesStep == IInv /\ [Next]_vars => SourcesFirst'
  <1> SUFFICES ASSUME TypeOK, Bookkeeping, SourcesFirst, [Next]_vars PROVE SourcesFirst'
    BY DEF IInv
  <1>1. ASSUME NEW s \in Source, NEW result \in {"ready", "failed"}, RecordOutcome(s, result)
        PROVE SourcesFirst'
    BY <1>1 DEF SourcesFirst, RecordOutcome, Place, Planning, SourcePreparing
  <1>2. ASSUME NEW m \in Mode, NEW pauses \in {s.pause : s \in Scope},
               NEW reset \in SUBSET Source, RepairPreparation(m, pauses, reset)
        PROVE SourcesFirst'
    BY <1>2 DEF SourcesFirst, RepairPreparation, Place, Planning, SourcePreparing
  <1>3. CASE CanaryNext
    BY <1>3, CanaryFrame DEF SourcesFirst, SourcesDecided, Place, place, plan
  <1>4. CASE StageNext
    <2>1. ASSUME NEW t \in Stage, Reconcile(t) PROVE SourcesFirst'
      <3>1. stage' = t /\ t = stage + 1 /\ stage \in 0..12 /\ outcome' = outcome
        BY <2>1 DEF TypeOK, Reconcile, Stage
      <3>2. state = "active" /\ state' = "active"
        BY <2>1 DEF Reconcile, Running
      <3>3. CASE t = Planning
        <4>1. ~bound
          BY <3>1, <3>3 DEF Bookkeeping, Planning, Analyzing
        <4> QED
          BY <2>1, <3>1, <3>3, <4>1 DEF Reconcile, Admits, SourcesFirst, SourcesDecided
      <3>4. CASE t # Planning
        <4>1. Place' >= Planning => Place >= Planning
          BY <3>1, <3>2, <3>4 DEF Place, Planning
        <4> QED
          BY <2>1, <3>1, <4>1 DEF SourcesFirst, SourcesDecided, Reconcile
      <3> QED
        BY <3>3, <3>4
    <2>2. CASE \E verdict \in {"partial", "failed"} : Conclude(verdict)
      BY <2>2 DEF SourcesFirst, SourcesDecided, Conclude, Running, Place, plan
    <2>3. CASE \E c \in {Checkpoint1, Checkpoint2} : Approve(c) \/ ApproveAutomatic(c)
      BY <2>3 DEF SourcesFirst, SourcesDecided, Approve, ApproveAutomatic, Place, place, plan
    <2>4. CASE BindReleasePlan
      BY <2>4 DEF SourcesFirst, SourcesDecided, BindReleasePlan, Place, place, plan
    <2>5. CASE RefreshRelease
      <3>1. Place >= Planning
        BY <2>5, PlaceIs DEF RefreshRelease, Bookkeeping, Untouched, Indexing, Planning
      <3> QED
        BY <2>5, <3>1 DEF SourcesFirst, SourcesDecided, RefreshRelease, plan
    <2> QED
      BY <1>4, <2>1, <2>2, <2>3, <2>4, <2>5 DEF StageNext
  <1>5. CASE PauseNext
    <2>1. Place' = Place
      BY <1>5 DEF TypeOK, Bookkeeping, PauseNext, Cancel, Resume, LatchPause, ContinueWorkflow,
         Running, Place, place
    <2> QED
      BY <1>5, <2>1, PauseFrame DEF SourcesFirst, SourcesDecided, plan
  <1>6. CASE WorkNext
    BY <1>6, WorkFrame DEF SourcesFirst, SourcesDecided, Place, place, plan
  <1>7. CASE BatchNext
    BY <1>7, BatchFrame DEF SourcesFirst, SourcesDecided, Place, place, plan
  <1>8. CASE UNCHANGED vars
    BY <1>8 DEF SourcesFirst, SourcesDecided, Place, vars, place, plan
  <1> QED
    BY <1>1, <1>2, <1>3, <1>4, <1>5, <1>6, <1>7, <1>8 DEF Next, PrepareNext

LEMMA CoverageStep == IInv /\ [Next]_vars => CoverageHolds'
  <1> SUFFICES ASSUME TypeOK, Bookkeeping, CoverageHolds, [Next]_vars PROVE CoverageHolds'
    BY DEF IInv
  <1>1. CASE PrepareNext
    <2>1. Place' \in {SourcePreparing, Planning}
      BY <1>1 DEF PrepareNext, RecordOutcome, RepairPreparation, Place, Planning, SourcePreparing
    <2> QED
      BY <2>1 DEF CoverageHolds, SourcePreparing, Planning, Analyzing, Completed
  <1>2. CASE CanaryNext
    <2>1. Place' = Place /\ scope' = scope /\ outcome' = outcome
          /\ initialized' = initialized /\ done' = done
      BY <1>2, CanaryFrame DEF Place, place, plan, work
    <2>2. Place > Analyzing => stage # Analyzing
      BY PlaceIs DEF TypeOK, Stage, Analyzing
    <2>3. Place > Analyzing => skipped' = skipped /\ (mode = "full" => mode' = "full")
      BY <1>2, <2>2 DEF CanaryNext, ArmCanary, DisarmCanary, SkipCanary, PromoteCanary, SkipPasses
    <2> QED
      BY <2>1, <2>3 DEF CoverageHolds, FailedSources, Settled, Analyzing, Completed
  <1>3. CASE StageNext
    <2>1. /\ scope' = scope /\ outcome' = outcome /\ initialized' = initialized
          /\ done' = done /\ skipped' = skipped /\ mode' = mode
      BY <1>3, StageFrame DEF dispatch
    <2>2. ASSUME NEW t \in Stage, Reconcile(t) PROVE CoverageHolds'
      <3>1. stage \in 0..12 /\ t = stage + 1 /\ Place = stage /\ Place' = t /\ Admits(t)
        BY <2>2 DEF TypeOK, Stage, Reconcile, Running, Place
      <3>2. t > Analyzing => t = Reducing \/ Place > Analyzing
        BY <3>1 DEF Analyzing, Reducing
      <3>3. t = Reducing /\ scope.mode = "auto_full" =>
              initialized /\ mode = "full" /\ Slice \subseteq Settled
        BY <3>1 DEF Admits, Bookkeeping, AllPassed
      <3> QED
        BY <2>1, <3>1, <3>2, <3>3 DEF CoverageHolds, FailedSources, Settled, Admits
    <2>3. CASE RefreshRelease
      <3>1. Place > Analyzing /\ (Place' > Analyzing) /\ Place' # Completed
        BY <2>3, PlaceIs DEF RefreshRelease, Bookkeeping, Untouched, Place, Indexing,
           ReleasePlanning, Analyzing, Completed
      <3> QED
        BY <2>1, <3>1 DEF CoverageHolds, Settled
    <2>4. ASSUME ~RefreshRelease, \A t \in Stage : ~Reconcile(t) PROVE CoverageHolds'
      <3>1. Place' = Place
        BY <1>3, <2>4 DEF StageNext, Conclude, Running, Approve, ApproveAutomatic,
           BindReleasePlan, Place, place
      <3> QED
        BY <2>1, <3>1 DEF CoverageHolds, FailedSources, Settled
    <2> QED
      BY <2>2, <2>3, <2>4
  <1>4. CASE PauseNext
    <2>1. Place' = Place
      BY <1>4 DEF TypeOK, Bookkeeping, PauseNext, Cancel, Resume, LatchPause, ContinueWorkflow,
         Running, Place, place
    <2> QED
      BY <1>4, <2>1, PauseFrame DEF CoverageHolds, FailedSources, Settled, plan, dispatch, work
  <1>5. CASE WorkNext
    <2>1. (initialized => initialized') /\ done \subseteq done'
      BY <1>5 DEF WorkNext, InitializeSlices, CompleteSlice, Reduce, FinalizeBatch,
         ApplyRelease, SyncIndex
    <2> QED
      BY <1>5, <2>1, WorkFrame DEF CoverageHolds, FailedSources, Settled, Place, place, plan, dispatch
  <1>6. CASE BatchNext
    BY <1>6, BatchFrame DEF CoverageHolds, FailedSources, Settled, Place, place, plan, dispatch, work
  <1>7. CASE UNCHANGED vars
    BY <1>7 DEF CoverageHolds, FailedSources, Settled, Place, vars, place, plan, dispatch, work
  <1> QED
    BY <1>1, <1>2, <1>3, <1>4, <1>5, <1>6, <1>7 DEF Next

----------------------------------------------------------------------------
(* Continuations.                                                           *)

LEMMA GrantsStep == IInv /\ [Next]_vars => GrantsOnce' /\ LatchedIsHeld'
  <1> SUFFICES ASSUME TypeOK, Bookkeeping, GrantsOnce, LatchedIsHeld, [Next]_vars
               PROVE  GrantsOnce' /\ LatchedIsHeld'
    BY DEF IInv
  <1>1. CASE UNCHANGED <<pause, history, generation>>
    BY <1>1 DEF GrantsOnce, LatchedIsHeld, Released
  <1>2. CASE RefreshRelease
    <2>1. pause' = NoPause /\ history' = history
      BY <1>2 DEF RefreshRelease, pausing
    <2> QED
      BY <2>1 DEF GrantsOnce, LatchedIsHeld
  <1>3. ASSUME NEW b \in Boundary, LatchPause(b) PROVE GrantsOnce' /\ LatchedIsHeld'
    <2>1. pause' = b /\ b \notin Released /\ history' = history /\ generation' = generation
      BY <1>3 DEF LatchPause, Reached, releases
    <2> QED
      BY <2>1 DEF GrantsOnce, LatchedIsHeld, Released
  <1>4. ASSUME NEW i \in Id, NEW b \in Boundary, ContinueWorkflow(i, b)
        PROVE  GrantsOnce' /\ LatchedIsHeld'
    <2> DEFINE grant == [id |-> i, boundary |-> b, generation |-> generation]
    <2>1. /\ history' = history \cup {grant} /\ pause' = NoPause
          /\ b \notin Released /\ \A h \in history : h.id # i
      BY <1>4 DEF ContinueWorkflow, LatchedIsHeld
    <2>2. \A h \in history :
            h.boundary = b => h.boundary \in PerRelease /\ h.generation # generation
      BY <2>1 DEF Released
    <2>3. grant.id = i /\ grant.boundary = b /\ grant.generation = generation
      OBVIOUS
    <2> HIDE DEF grant
    <2>4. GrantsOnce'
      BY <2>1, <2>2, <2>3 DEF GrantsOnce
    <2> QED
      BY <2>1, <2>4 DEF LatchedIsHeld
  <1>5. CASE PrepareNext
    BY <1>5, <1>1, PrepareFrame DEF pausing, releases
  <1>6. CASE CanaryNext
    BY <1>6, <1>1, CanaryFrame DEF releases
  <1>7. CASE StageNext
    <2>1. RefreshRelease \/ generation' = generation
      BY <1>7 DEF StageNext, Reconcile, Conclude, Approve, ApproveAutomatic, BindReleasePlan, releases
    <2> QED
      BY <1>7, <2>1, <1>1, <1>2, StageFrame
  <1>8. CASE PauseNext
    <2>1. CASE Cancel \/ Resume
      BY <2>1, <1>1 DEF Cancel, Resume, pausing, releases
    <2> QED
      BY <1>8, <2>1, <1>3, <1>4 DEF PauseNext
  <1>9. CASE WorkNext
    BY <1>9, <1>1, WorkFrame DEF releases
  <1>10. CASE BatchNext
    BY <1>10, <1>1, BatchFrame DEF releases
  <1>11. CASE UNCHANGED vars
    BY <1>11, <1>1 DEF vars, pausing, releases
  <1> QED
    BY <1>5, <1>6, <1>7, <1>8, <1>9, <1>10, <1>11 DEF Next

----------------------------------------------------------------------------
(* The checkpoints.                                                         *)

LEMMA GatesStep == IInv /\ [Next]_vars => GatesHold'
  <1> SUFFICES ASSUME TypeOK, Bookkeeping, ReleaseOrder, GatesHold, [Next]_vars
               PROVE  GatesHold'
    BY DEF IInv
  <1>1. CASE PrepareNext
    <2>1. Place' \in {SourcePreparing, Planning}
      BY <1>1 DEF PrepareNext, RecordOutcome, RepairPreparation, Place, Planning, SourcePreparing
    <2> QED
      BY <1>1, <2>1, PrepareFrame
      DEF GatesHold, Bookkeeping, Untouched, work, SourcePreparing, Planning, Checkpoint1, Checkpoint2
  <1>2. CASE CanaryNext
    BY <1>2, CanaryFrame DEF GatesHold, Place, place, plan, releases, work
  <1>3. CASE StageNext
    <2>1. ASSUME NEW t \in Stage, Reconcile(t) PROVE GatesHold'
      <3>1. /\ stage \in 0..12 /\ stage' = t /\ t = stage + 1
            /\ Place = stage /\ Place' = t /\ MayLeave
        BY <2>1 DEF TypeOK, Stage, Reconcile, Running, Place
      <3>2. /\ scope' = scope /\ release' = release
            /\ finalized' = finalized /\ applied' = applied
        BY <2>1 DEF Reconcile, work
      <3>3. \A c \in {Checkpoint1, Checkpoint2} : approved[c] /\ c # t => approved'[c]
        BY <2>1, Zenon DEF Reconcile
      <3>4. \A c \in {Checkpoint1, Checkpoint2} : approved[c] /\ c < t => approved'[c]
        <4>1. \A c \in {Checkpoint1, Checkpoint2} : c < t => c # t
          BY <3>1 DEF Checkpoint1, Checkpoint2
        <4> QED
          BY <3>3, <4>1
      <3>5. \A c \in {Checkpoint1, Checkpoint2} : t > c /\ ~(stage > c) => stage = c
        BY <3>1 DEF Checkpoint1, Checkpoint2
      <3>6. ASSUME scope.mode = "auto_full" PROVE
                 /\ finalized => approved[Checkpoint1] /\ Checkpoint1 < t
                 /\ applied => approved[Checkpoint2] /\ release /\ finalized /\ Checkpoint2 < t
        BY <3>1, <3>6 DEF GatesHold, ReleaseOrder, BuildFinalizing, Applying, Checkpoint1, Checkpoint2
      <3> QED
        BY <3>1, <3>2, <3>4, <3>5, <3>6 DEF GatesHold, MayLeave
    <2>2. CASE \E verdict \in {"partial", "failed"} : Conclude(verdict)
      BY <2>2 DEF GatesHold, Conclude, Running, Place, plan, releases, work
    <2>3. ASSUME NEW c \in {Checkpoint1, Checkpoint2}, Approve(c) \/ ApproveAutomatic(c)
          PROVE  GatesHold'
      <3>1. \A d \in {Checkpoint1, Checkpoint2} : approved[d] => approved'[d]
        BY <2>3 DEF TypeOK, Approve, ApproveAutomatic
      <3> QED
        BY <2>3, <3>1 DEF GatesHold, Approve, ApproveAutomatic, Place, place, plan, work
    <2>4. CASE BindReleasePlan
      BY <2>4 DEF GatesHold, BindReleasePlan, Place, place, plan, work
    <2>5. CASE RefreshRelease
      <3>1. Place > Checkpoint1 /\ Place' = ReleasePlanning
        BY <2>5, PlaceIs DEF RefreshRelease, Bookkeeping, Untouched, Place, Indexing,
           ReleasePlanning, Analyzing, Checkpoint1
      <3>2. approved'[Checkpoint1] = approved[Checkpoint1]
        BY <2>5 DEF RefreshRelease, TypeOK, Checkpoint1, Checkpoint2
      <3>3. applied' = FALSE
        BY <2>5 DEF RefreshRelease
      <3>4. ~(Place' > Checkpoint2)
        BY <3>1 DEF ReleasePlanning, Checkpoint2
      <3> QED
        BY <3>1, <3>2, <3>3, <3>4 DEF GatesHold
    <2> QED
      BY <1>3, <2>1, <2>2, <2>3, <2>4, <2>5 DEF StageNext
  <1>4. CASE PauseNext
    <2>1. Place' = Place
      BY <1>4 DEF TypeOK, Bookkeeping, PauseNext, Cancel, Resume, LatchPause, ContinueWorkflow,
         Running, Place, place
    <2> QED
      BY <1>4, <2>1, PauseFrame DEF GatesHold, plan, releases, work
  <1>5. CASE WorkNext
    <2>1. ASSUME scope.mode = "auto_full", finalized' # finalized PROVE Place > Checkpoint1
      BY <1>5, <2>1 DEF TypeOK, Stage, WorkNext, InitializeSlices, CompleteSlice, Reduce,
         FinalizeBatch, ApplyRelease, SyncIndex, MayWrite, Running, BatchOpen, Place,
         BuildFinalizing, Checkpoint1
    <2>2. scope.mode = "auto_full" /\ applied' # applied => approved[Checkpoint2] /\ release
      BY <1>5 DEF WorkNext, InitializeSlices, CompleteSlice, Reduce, FinalizeBatch,
         ApplyRelease, SyncIndex
    <2>3. finalized => finalized'
      BY <1>5 DEF WorkNext, InitializeSlices, CompleteSlice, Reduce, FinalizeBatch,
         ApplyRelease, SyncIndex
    <2>4. /\ scope' = scope /\ Place' = Place /\ approved' = approved /\ release' = release
      BY <1>5, WorkFrame DEF Place, place, plan, releases
    <2> QED
      BY <2>1, <2>2, <2>3, <2>4 DEF GatesHold, ReleaseOrder
  <1>6. CASE BatchNext
    BY <1>6, BatchFrame DEF GatesHold, Place, place, plan, releases, work
  <1>7. CASE UNCHANGED vars
    BY <1>7 DEF GatesHold, Place, vars, place, plan, releases, work
  <1> QED
    BY <1>1, <1>2, <1>3, <1>4, <1>5, <1>6, <1>7 DEF Next

----------------------------------------------------------------------------
(* The operator's pauses.                                                   *)

LEMMA PendingFrame ==
  ASSUME UNCHANGED <<scope, generation, history>>
  PROVE  Wanted' = Wanted /\ Released' = Released
  BY DEF Wanted, Released

LEMMA HeldFrame ==
  ASSUME PausesHold, UNCHANGED <<scope, generation, history>>,
         UNCHANGED <<stage, state, mode, finalized, applied, synced>>
  PROVE  PausesHold'
  BY PendingFrame DEF PausesHold, HeldBack

\* Early on there is nothing any pause could have held back.
LEMMA NothingYet ==
  ASSUME NEW b, stage' \in Stage, stage' <= Analyzing, mode' = "disabled",
         ~finalized', ~applied', ~synced', state' \notin {"partial", "failed"}
  PROVE  HeldBack(b)'
  BY DEF HeldBack, Stage, Analyzing, Checkpoint1, Checkpoint2, Indexing, Validating

\* While nothing holds a running workflow, no pending boundary is reached.
LEMMA NotReachedYet ==
  ASSUME NotPaused, bound, state # "cancelled", NEW b \in Wanted \ Released
  PROVE  ~Ready(b)
  BY DEF NotPaused, Reached

\* Every boundary but the refreshed release's stop is the operator's, who has
\* an automatic workflow.
LEMMA AskedFor ==
  ASSUME Bookkeeping, NEW b \in Wanted, b # ReleaseApply
  PROVE  scope.mode = "auto_full"
  BY DEF Bookkeeping, Wanted

LEMMA PausesReconcile ==
  ASSUME TypeOK, Bookkeeping, PausesHold, NEW t \in Stage, Reconcile(t)
  PROVE  PausesHold'
  <1>1. /\ stage \in 0..12 /\ stage' = stage + 1 /\ t = stage + 1
        /\ state = "active" /\ state' = "active" /\ NotPaused /\ MayLeave /\ Admits(t)
    BY DEF TypeOK, Stage, Reconcile, Running
  <1>2. UNCHANGED <<scope, generation, history, mode, finalized, applied, synced>>
    BY DEF Reconcile, dispatch, pausing, work
  <1>3. CASE ~bound
    <2>1. stage' \in Stage /\ stage' <= Analyzing
      BY <1>1, <1>3 DEF Bookkeeping, Untouched, Stage, Analyzing
    <2> QED
      BY <1>1, <1>2, <1>3, <2>1, NothingYet DEF Bookkeeping, Untouched, PausesHold
  <1>4. CASE bound
    <2> SUFFICES ASSUME NEW b \in Wanted \ Released PROVE HeldBack(b)'
      BY <1>2, PendingFrame DEF PausesHold
    <2>1. HeldBack(b) /\ ~Ready(b)
      BY <1>1, <1>4, NotReachedYet DEF PausesHold
    <2>2. ASSUME b = ExactPlan PROVE stage' <= Analyzing /\ mode' = "disabled"
      BY <1>1, <1>2, <2>1, <2>2 DEF HeldBack, Ready, Analyzing
    <2>3. ASSUME b \in {CanaryRun, PassRun}, t = Reducing
          PROVE  mode = "full" /\ initialized /\ AllPassed
      BY <1>1, <2>3, AskedFor DEF Admits, Bookkeeping, CanaryRun, PassRun, ReleaseApply
    <2>4. ASSUME b = CanaryRun, scope.canary # "off" PROVE stage' <= Analyzing /\ mode' # "full"
      BY <1>1, <1>2, <2>1, <2>3, <2>4 DEF HeldBack, Analyzing, Reducing
    <2>5. ASSUME b = PassRun PROVE stage' <= Analyzing
      BY <1>1, <2>1, <2>3, <2>5 DEF HeldBack, Ready, Analyzing, Reducing
    <2>6. ASSUME b = Gate1 PROVE stage' <= Checkpoint1 /\ ~finalized'
      BY <1>1, <1>2, <2>1, <2>6 DEF HeldBack, Ready, MayLeave, Checkpoint1
    <2>7. ASSUME b = Gate2 PROVE stage' <= Checkpoint2 /\ ~applied'
      BY <1>1, <1>2, <2>1, <2>7 DEF HeldBack, Ready, MayLeave, Checkpoint2
    <2>8. ASSUME b = ReleaseApply
          PROVE  stage' <= Indexing /\ (scope'.mode = "auto_full" => ~synced')
      BY <1>1, <1>2, <2>1, <2>8 DEF HeldBack, Ready, Indexing
    <2>9. ASSUME b = ReleaseSync PROVE stage' <= Validating
      BY <1>1, <2>1, <2>9 DEF HeldBack, Ready, Validating
    <2> QED
      BY <1>1, <1>2, <2>2, <2>4, <2>5, <2>6, <2>7, <2>8, <2>9 DEF HeldBack
  <1> QED
    BY <1>3, <1>4

LEMMA PausesRefresh ==
  ASSUME TypeOK, PausesHold, RefreshRelease
  PROVE  PausesHold'
  <1>1. /\ stage = Indexing /\ stage' = ReleasePlanning /\ state' = "cancelled"
        /\ ~applied' /\ ~synced' /\ scope' = scope /\ history' = history
    BY DEF RefreshRelease, plan, pausing
  <1> SUFFICES ASSUME NEW b \in Wanted' \ Released' PROVE HeldBack(b)'
    BY DEF PausesHold
  <1>2. CASE b \in PerRelease
    BY <1>1, <1>2 DEF PerRelease, HeldBack, ExactPlan, CanaryRun, PassRun, Gate1, Gate2,
       ReleaseApply, ReleaseSync, ReleasePlanning, Checkpoint2, Indexing, Validating
  <1>3. CASE b \notin PerRelease
    <2>1. b \in Wanted /\ b \notin Released
      BY <1>1, <1>3 DEF Wanted, Released, PerRelease
    <2>2. HeldBack(b)
      BY <2>1 DEF PausesHold
    <2>3. b \notin {ExactPlan, Gate1, PassRun}
      BY <1>1, <2>2 DEF HeldBack, Indexing, Analyzing, Checkpoint1
    <2>4. b = CanaryRun => scope.canary = "off"
      BY <1>1, <2>2 DEF HeldBack, Indexing, Analyzing
    <2> QED
      BY <1>1, <1>3, <2>3, <2>4 DEF HeldBack, PerRelease
  <1> QED
    BY <1>2, <1>3

LEMMA PausesStep == IInv /\ [Next]_vars => PausesHold'
  <1> SUFFICES ASSUME TypeOK, Bookkeeping, PausesHold, [Next]_vars PROVE PausesHold'
    BY DEF IInv
  <1>1. CASE PrepareNext
    <2>1. stage' \in Stage /\ stage' <= Analyzing
      <3>1. /\ stage' \in {Planning, SourcePreparing, stage}
        BY <1>1 DEF PrepareNext, RecordOutcome, RepairPreparation
      <3> QED
        BY <1>1, <3>1, PrepareFrame DEF TypeOK, Bookkeeping, Untouched, Stage, Planning,
           SourcePreparing, Analyzing
    <2> QED
      BY <1>1, <2>1, PrepareFrame, NothingYet DEF Bookkeeping, Untouched, PausesHold, dispatch, work
  <1>2. CASE CanaryNext
    <2>1. UNCHANGED <<stage, state, scope, generation, history, finalized, applied, synced>>
      BY <1>2, CanaryFrame DEF place, plan, releases, work
    <2> SUFFICES ASSUME NEW b \in Wanted \ Released PROVE HeldBack(b)'
      BY <2>1, PendingFrame DEF PausesHold
    <2>2. HeldBack(b)
      BY DEF PausesHold
    <2>3. mode' \notin {mode, "disabled"} => /\ NotPaused /\ state # "cancelled" /\ bound
                                          /\ stage = Analyzing
      BY <1>2 DEF CanaryNext, ArmCanary, DisarmCanary, SkipCanary, PromoteCanary, SkipPasses,
         Bookkeeping, Untouched, Analyzing
    <2>4. mode' = "full" /\ mode # "full" => scope.canary = "off" \/ CanaryPassed
      BY <1>2 DEF CanaryNext, ArmCanary, DisarmCanary, SkipCanary, PromoteCanary, SkipPasses
    <2>5. mode' \notin {mode, "disabled"} => ~Ready(b)
      BY <2>3, NotReachedYet
    <2>6. b = ExactPlan => mode' = "disabled"
      BY <2>2, <2>3, <2>5 DEF HeldBack, Ready
    <2>7. b = CanaryRun /\ scope.canary # "off" => mode' # "full"
      BY <2>2, <2>3, <2>4, <2>5 DEF HeldBack, Ready
    <2> QED
      BY <2>1, <2>2, <2>6, <2>7 DEF HeldBack
  <1>3. CASE StageNext
    <2>1. ASSUME NEW t \in Stage, Reconcile(t) PROVE PausesHold'
      BY <2>1, PausesReconcile
    <2>2. ASSUME NEW verdict \in {"partial", "failed"}, Conclude(verdict) PROVE PausesHold'
      <3>1. /\ stage = Validating /\ state = "active" /\ NotPaused
            /\ UNCHANGED <<stage, scope, mode, generation, history, finalized, applied, synced>>
        BY <2>2 DEF Conclude, Running, plan, dispatch, releases, pausing, work
      <3>2. bound
        BY <3>1 DEF Bookkeeping, Untouched, Validating, Analyzing
      <3> SUFFICES ASSUME NEW b \in Wanted \ Released PROVE HeldBack(b)'
        BY <3>1, PendingFrame DEF PausesHold
      <3>3. HeldBack(b) /\ b # ReleaseSync
        BY <3>1, <3>2, NotReachedYet DEF PausesHold, Ready
      <3> QED
        BY <3>1, <3>3 DEF HeldBack
    <2>3. CASE \E c \in {Checkpoint1, Checkpoint2} : Approve(c) \/ ApproveAutomatic(c)
      BY <2>3, HeldFrame DEF Approve, ApproveAutomatic, place, plan, dispatch, work
    <2>4. CASE BindReleasePlan
      BY <2>4, HeldFrame DEF BindReleasePlan, place, plan, dispatch, work
    <2> QED
      BY <1>3, <2>1, <2>2, <2>3, <2>4, PausesRefresh DEF StageNext
  <1>4. CASE PauseNext
    <2>1. UNCHANGED <<scope, mode, generation, finalized, applied, synced>>
      BY <1>4, PauseFrame DEF plan, dispatch, releases, work
    <2>2. ASSUME Cancel PROVE PausesHold'
      <3>1. UNCHANGED <<stage, history>> /\ state' = "cancelled"
        BY <2>2 DEF Cancel, pausing
      <3> QED
        BY <2>1, <3>1, PendingFrame DEF PausesHold, HeldBack
    <2>3. ASSUME Resume PROVE PausesHold'
      <3>1. stage' = resumeAt /\ state' = "active" /\ state = "cancelled" /\ history' = history
        BY <2>3 DEF Resume, pausing
      <3>2. CASE bound
        <4>1. stage' = stage
          BY <3>1, <3>2 DEF Bookkeeping
        <4> QED
          BY <2>1, <3>1, <4>1, PendingFrame DEF PausesHold, HeldBack
      <3>3. CASE ~bound
        BY <2>1, <3>1, <3>3, NothingYet DEF Bookkeeping, Untouched, PausesHold, Stage, Analyzing
      <3> QED
        BY <3>2, <3>3
    <2>4. ASSUME NEW b \in Boundary, LatchPause(b) PROVE PausesHold'
      BY <2>1, <2>4, HeldFrame DEF LatchPause, place
    <2>5. ASSUME NEW i \in Id, NEW b \in Boundary, ContinueWorkflow(i, b) PROVE PausesHold'
      <3>1. /\ UNCHANGED <<stage, state>> /\ history \subseteq history'
        BY <2>5 DEF ContinueWorkflow, place
      <3>2. Wanted' = Wanted /\ Released \subseteq Released'
        BY <2>1, <3>1 DEF Wanted, Released
      <3> QED
        BY <2>1, <3>1, <3>2 DEF PausesHold, HeldBack
    <2> QED
      BY <1>4, <2>2, <2>3, <2>4, <2>5 DEF PauseNext
  <1>5. CASE WorkNext
    <2>1. UNCHANGED <<stage, state, scope, mode, generation, history, bound>>
      BY <1>5, WorkFrame DEF place, plan, dispatch, releases
    <2> SUFFICES ASSUME NEW b \in Wanted \ Released PROVE HeldBack(b)'
      BY <2>1, PendingFrame DEF PausesHold
    <2>2. HeldBack(b) /\ (b # ReleaseApply => scope.mode = "auto_full")
      BY AskedFor DEF PausesHold
    <2>3. scope.mode = "auto_full" =>
            /\ finalized' => finalized \/ stage >= BuildFinalizing
            /\ applied' => applied \/ stage >= Applying
            /\ synced' => synced \/ (stage >= Indexing /\ Running /\ NotPaused)
      BY <1>5 DEF WorkNext, InitializeSlices, CompleteSlice, Reduce, FinalizeBatch,
         ApplyRelease, SyncIndex, BatchOpen, MayWrite
    <2>4. stage \in 0..12
      BY DEF TypeOK, Stage
    <2>5. b = Gate1 => ~finalized'
      BY <2>2, <2>3, <2>4 DEF HeldBack, Gate1, ReleaseApply, Checkpoint1, BuildFinalizing
    <2>6. b = Gate2 => ~applied'
      BY <2>2, <2>3, <2>4 DEF HeldBack, Gate2, ReleaseApply, Checkpoint2, Applying
    <2>7. ASSUME b = ReleaseApply, scope.mode = "auto_full", synced' PROVE FALSE
      <3>1. stage = Indexing /\ Running /\ NotPaused
        BY <2>2, <2>3, <2>4, <2>7 DEF HeldBack, Indexing
      <3>2. bound /\ state # "cancelled"
        BY <3>1 DEF Bookkeeping, Untouched, Running, Indexing, Analyzing
      <3> QED
        BY <2>7, <3>1, <3>2, NotReachedYet DEF Ready
    <2> QED
      BY <2>1, <2>2, <2>5, <2>6, <2>7 DEF HeldBack
  <1>6. CASE BatchNext
    BY <1>6, BatchFrame, HeldFrame DEF place, plan, dispatch, releases, work
  <1>7. CASE UNCHANGED vars
    BY <1>7, HeldFrame DEF vars, place, plan, dispatch, releases, pausing, work
  <1> QED
    BY <1>1, <1>2, <1>3, <1>4, <1>5, <1>6, <1>7 DEF Next

----------------------------------------------------------------------------
(* The theorems.                                                            *)

LEMMA Inductive == IInv /\ [Next]_vars => IInv'
  BY TypeStep, BookkeepingStep, ReleaseOrderStep, GrantsStep, PausesStep, GatesStep,
     CoverageStep, SourcesStep DEF IInv

LEMMA Invariance == Spec => []IInv
  <1>1. Init => IInv
    BY InitInv
  <1>2. IInv /\ [Next]_vars => IInv'
    BY Inductive
  <1> QED
    BY <1>1, <1>2, PTL DEF Spec

\* The ledger's record and the batch beside it keep their shape, under every
\* operation of ingest_workflow.py, ingest_pauses.py and pass_skips.py.
THEOREM TypeCorrect == Spec => []TypeOK
  <1>1. IInv => TypeOK
    BY DEF IInv
  <1> QED
    BY <1>1, Invariance, PTL

\* A pause asked for with --pause-after and not released holds back the stage,
\* the dispatch and the writes behind it, whoever calls and in any order.
THEOREM PausesAlwaysHold == Spec => []PausesHold
  <1>1. IInv => PausesHold
    BY DEF IInv
  <1> QED
    BY <1>1, Invariance, PTL

\* Nothing passes a checkpoint, in a stage or in an automatic workflow's work,
\* before its decision is recorded, nor after a new release took it back.
THEOREM GatesAlwaysHold == Spec => []GatesHold
  <1>1. IInv => GatesHold
    BY DEF IInv
  <1> QED
    BY <1>1, Invariance, PTL

\* The Pass phase is left with every slice settled, and a workflow with a gap
\* is not completed.
THEOREM CoverageAlwaysHolds == Spec => []CoverageHolds
  <1>1. IInv => CoverageHolds
    BY DEF IInv
  <1> QED
    BY <1>1, Invariance, PTL

\* Planning stands on a decision about every source, through any number of
\* cancellations and preparation repairs.
THEOREM SourcesAlwaysFirst == Spec => []SourcesFirst
  <1>1. IInv => SourcesFirst
    BY DEF IInv
  <1> QED
    BY <1>1, Invariance, PTL

\* Both: a stage stands on decided sources and settled Passes.
THEOREM StagesAlwaysGrounded == Spec => []StagesGrounded
  <1>1. SourcesFirst /\ CoverageHolds => StagesGrounded
    BY DEF StagesGrounded
  <1> QED
    BY <1>1, SourcesAlwaysFirst, CoverageAlwaysHolds, PTL

\* A continuation, retried or raced, releases one boundary once.
THEOREM GrantsAlwaysOnce == Spec => []GrantsOnce
  <1>1. IInv => GrantsOnce
    BY DEF IInv
  <1> QED
    BY <1>1, Invariance, PTL

\* From a reached boundary to its release an automatic workflow's results and
\* stage stand still.
THEOREM PausedStandsStill == Spec => StillWhilePaused
  <1> DEFINE StandsStill ==
        scope.mode = "auto_full" /\ ~NotPaused =>
          /\ UNCHANGED <<done, skipped, drafted, finalized, applied, synced, stage>>
          /\ mode' \in {mode, "disabled"}
  <1>1. IInv /\ [Next]_vars => [StandsStill]_vars
    <2> SUFFICES ASSUME TypeOK, Bookkeeping, Next, scope.mode = "auto_full", ~NotPaused
                 PROVE  /\ UNCHANGED <<done, skipped, drafted, finalized, applied, synced, stage>>
                        /\ mode' \in {mode, "disabled"}
      BY DEF IInv
    <2>1. bound
      BY DEF Bookkeeping, Untouched, NotPaused, Reached
    <2>2. pause # NoPause \/ state # "cancelled"
      BY DEF NotPaused, Reached
    <2>3. ~PrepareNext
      BY <2>1, PrepareFrame
    <2>4. CASE CanaryNext
      <3>1. skipped' = skipped /\ mode' \in {mode, "disabled"}
        BY <2>2, <2>4 DEF CanaryNext, ArmCanary, DisarmCanary, SkipCanary, PromoteCanary, SkipPasses
      <3> QED
        BY <2>4, <3>1, CanaryFrame DEF place, work
    <2>5. CASE StageNext
      <3>1. UNCHANGED <<stage, applied>>
        BY <2>2, <2>5 DEF StageNext, Reconcile, Conclude, Approve, ApproveAutomatic,
           BindReleasePlan, RefreshRelease, place, work
      <3> QED
        BY <2>5, <3>1, StageFrame DEF dispatch
    <2>6. CASE PauseNext
      <3>1. stage' = stage
        BY <2>1, <2>6 DEF Bookkeeping, PauseNext, Cancel, Resume, LatchPause, ContinueWorkflow, place
      <3> QED
        BY <2>6, <3>1, PauseFrame DEF dispatch, work
    <2>7. CASE WorkNext
      <3>1. UNCHANGED <<done, drafted, finalized, applied, synced>>
        BY <2>7 DEF WorkNext, InitializeSlices, CompleteSlice, Reduce, FinalizeBatch,
           ApplyRelease, SyncIndex, MayWrite
      <3> QED
        BY <2>7, <3>1, WorkFrame DEF place, dispatch
    <2>8. CASE BatchNext
      BY <2>8, BatchFrame DEF place, dispatch, work
    <2> QED
      BY <2>3, <2>4, <2>5, <2>6, <2>7, <2>8 DEF Next
  <1> QED
    BY <1>1, Invariance, PTL DEF Spec, StillWhilePaused

\* An adopted batch stays adopted, and only another release is planned again.
THEOREM StagesNeverBack == Spec => NeverBack
  <1> DEFINE Forward == bound => bound' /\ (stage' >= stage \/ generation' > generation)
  <1>1. IInv /\ [Next]_vars => [Forward]_vars
    <2> SUFFICES ASSUME TypeOK, Bookkeeping, Next, bound
                 PROVE  bound' /\ (stage' >= stage \/ generation' > generation)
      BY DEF IInv
    <2>1. stage \in 0..12 /\ generation \in Nat
      BY WorkflowAssumption DEF TypeOK, Stage
    <2>2. ~PrepareNext
      BY PrepareFrame
    <2>3. CASE CanaryNext
      BY <2>1, <2>3, CanaryFrame DEF place, plan
    <2>4. CASE StageNext
      <3>1. bound'
        BY <2>4 DEF StageNext, Reconcile, Conclude, Approve, ApproveAutomatic,
           BindReleasePlan, RefreshRelease, plan
      <3>2. stage' \in {stage, stage + 1} \/ generation' = generation + 1
        BY <2>4 DEF StageNext, Reconcile, Conclude, Approve, ApproveAutomatic,
           BindReleasePlan, RefreshRelease, place
      <3> QED
        BY <2>1, <3>1, <3>2
    <2>5. CASE PauseNext
      <3>1. stage' = stage
        BY <2>5 DEF Bookkeeping, PauseNext, Cancel, Resume, LatchPause, ContinueWorkflow, place
      <3> QED
        BY <2>1, <2>5, <3>1, PauseFrame DEF plan
    <2>6. CASE WorkNext
      BY <2>1, <2>6, WorkFrame DEF place, plan
    <2>7. CASE BatchNext
      BY <2>1, <2>7, BatchFrame DEF place, plan
    <2> QED
      BY <2>2, <2>3, <2>4, <2>5, <2>6, <2>7 DEF Next
  <1> QED
    BY <1>1, Invariance, PTL DEF Spec, NeverBack

\* What ended stays ended: a late call to resume, approve, pause or continue
\* changes nothing, and no late worker adds to an automatic workflow.
THEOREM EndedForGood == Spec => EndsForGood
  <1> DEFINE Over ==
        Final => /\ UNCHANGED <<place, plan, skipped, releases, pause, history>>
                 /\ scope.mode = "auto_full" => UNCHANGED work
  <1>1. IInv /\ [Next]_vars => [Over]_vars
    <2> SUFFICES ASSUME TypeOK, Bookkeeping, PausesHold, CoverageHolds, Next, Final
                 PROVE  /\ UNCHANGED <<place, plan, skipped, releases, pause, history>>
                        /\ scope.mode = "auto_full" => UNCHANGED work
      BY DEF IInv
    <2>1. stage \in {Validating, Completed} /\ state # "cancelled" /\ ~Running
      BY DEF Final, Bookkeeping, Running
    <2>2. bound
      BY <2>1 DEF Bookkeeping, Untouched, Validating, Completed, Analyzing
    <2>3. ~PrepareNext
      BY <2>2, PrepareFrame
    <2>4. CASE CanaryNext
      <3>1. skipped' = skipped
        BY <2>1, <2>4 DEF CanaryNext, ArmCanary, DisarmCanary, SkipCanary, PromoteCanary, SkipPasses
      <3> QED
        BY <2>4, <3>1, CanaryFrame
    <2>5. CASE StageNext
      BY <2>1, <2>5 DEF StageNext, Reconcile, Conclude, Approve, ApproveAutomatic,
         BindReleasePlan, RefreshRelease, Validating, Completed, Checkpoint1, Checkpoint2,
         ReleasePlanning
    <2>6. CASE PauseNext
      <3>1. \A b \in Boundary : ~LatchPause(b)
        <4>1. \A b \in Wanted \ Released : ~Ready(b)
          <5> SUFFICES ASSUME NEW b \in Wanted \ Released, Ready(b) PROVE FALSE
            OBVIOUS
          <5>1. HeldBack(b)
            BY DEF PausesHold
          <5>2. b = ReleaseSync /\ stage = Validating
            BY <2>1 DEF Ready, Analyzing, Checkpoint1, BuildFinalizing, Checkpoint2, Indexing,
               Validating, Completed
          <5> QED
            BY <5>1, <5>2 DEF HeldBack, Final, Validating, Completed
        <4> QED
          BY <4>1 DEF LatchPause, Reached
      <3> QED
        BY <2>1, <2>6, <3>1, PauseFrame DEF PauseNext, Cancel, Resume, ContinueWorkflow, dispatch
    <2>7. CASE WorkNext
      <3>1. scope.mode = "auto_full" => initialized
        BY <2>1, <2>2, PlaceIs DEF CoverageHolds, Validating, Completed, Analyzing
      <3>2. scope.mode = "auto_full" => ~WorkNext
        BY <2>1, <3>1 DEF WorkNext, InitializeSlices, CompleteSlice, Reduce, FinalizeBatch,
           ApplyRelease, SyncIndex, MayWrite
      <3> QED
        BY <2>7, <3>2, WorkFrame DEF dispatch
    <2>8. CASE BatchNext
      BY <2>8, BatchFrame DEF dispatch
    <2> QED
      BY <2>3, <2>4, <2>5, <2>6, <2>7, <2>8 DEF Next
  <1> QED
    BY <1>1, Invariance, PTL DEF Spec, EndsForGood

\* No step takes back what is settled or adds to it, for any scope.
THEOREM StepsAlwaysHold == Spec => StepsHold
  BY PausedStandsStill, StagesNeverBack, EndedForGood, PTL DEF StepsHold

(***************************************************************************)
(* SECOND PART: the processes that advance it.                             *)
(***************************************************************************)
\* The ledger operations these processes call: no source is decided and no
\* release refreshed by them.
LedgerMove ==
  \/ \E S \in SUBSET Slice : ArmCanary(S) \/ SkipPasses(S)
  \/ SkipCanary
  \/ PromoteCanary
  \/ \E t \in Stage : Reconcile(t)
  \/ Conclude("partial")
  \/ \E c \in {Checkpoint1, Checkpoint2} : Approve(c) \/ ApproveAutomatic(c)
  \/ BindReleasePlan
  \/ PauseNext
  \/ WorkNext
  \/ BatchNext

CardState ==
  {"none", "new", "held", "ready", "running", "reaped", "ended", "again", "done", "archived"}
Offering == {"ready", "again"}
Waiting == {"none", "new", "held", "ready"}

\* The cards behind which nobody works.
Idle == Waiting \cup {"reaped", "again"}

\* A worker that may write lives behind a card that runs, or was parked or
\* closed while it ran.
WorkersHaveRuns == \A n \in Node : worker[n] # "off" => card[n] \notin Idle

\* Nobody writes for a slice whose last run told how it ended, and for a slice
\* that is leased only who leased it.
LeasesHeld ==
  \A s \in Slice :
    /\ erred[s] => worker[s] = "off"
    /\ lease[s] = "leased" => worker[s] \in {"leased", "off"}

\* A checkpoint that was not reached carries no decision.
NotYetDecided == \A c \in {Checkpoint1, Checkpoint2} : stage < c => ~approved[c]

\* What the coordinator's copy shows as completed still is, however old.
CopyStillTrue ==
  co # "idle" =>
    /\ seen.chosen \subseteq Slice
    /\ \A n \in Node : CompletedBy(seen, n) => CompletedBy(Snapshot, n)

OpPlace == {"idle", "batch", "park", "reopen"}
CoPlace == {"idle", "settle", "bind", "hold", "project"}

\* The operator's command, and the coordinator with its graph; only a
\* coordinator that projects has cards left to project.
ProcessTypes ==
  /\ op \in OpPlace /\ co \in CoPlace
  /\ co # "project" => todo = {}
  /\ graph \subseteq Node /\ todo \subseteq graph /\ fresh \subseteq Node \cup {"co"}

\* The inductive invariant, beside the ledger's own.
ControlInv ==
  /\ ControlTypeOK
  /\ bound
  /\ WorkersHaveRuns
  /\ LeasesHeld
  /\ NotYetDecided
  /\ CopyStillTrue
  /\ DoneTruthful
  /\ ProcessTypes

----------------------------------------------------------------------------
(* Every step is a ledger operation, or leaves the ledger alone.            *)

LEMMA MoveIsNext == LedgerMove => Next
  BY DEF LedgerMove, Next, CanaryNext, StageNext

LEMMA NamedStages ==
  /\ Checkpoint1 \in Stage /\ Checkpoint2 \in Stage /\ Indexing \in Stage
  /\ Validating \in Stage /\ Completed \in Stage
  BY DEF Stage, Checkpoint1, Checkpoint2, Indexing, Validating, Completed

LEMMA CoMoves == CoNext => LedgerMove \/ UNCHANGED vars
  <1> SUFFICES ASSUME CoNext PROVE LedgerMove \/ UNCHANGED vars
    OBVIOUS
  <1>1. CASE CoInitialize
    BY <1>1 DEF CoInitialize, LedgerMove, WorkNext
  <1>2. CASE CoSettle
    <2>1. \A b \in Reached : b \in Boundary
      BY DEF Reached, Ready, Boundary, ExactPlan, CanaryRun, PassRun, Gate1, BuildFinalize,
         Gate2, ReleaseApply, ReleaseSync
    <2> QED
      BY <1>2, <2>1 DEF CoSettle, LedgerMove, PauseNext
  <1>3. CASE CoHold
    <2>1. \A b \in Reached : b \in Boundary
      BY DEF Reached, Ready, Boundary, ExactPlan, CanaryRun, PassRun, Gate1, BuildFinalize,
         Gate2, ReleaseApply, ReleaseSync
    <2> QED
      BY <1>3, <2>1 DEF CoHold, LedgerMove, PauseNext
  <1>4. CASE CoBegin \/ CoGraph \/ CoBind \/ (\E n \in Node : CoProject(n)) \/ CoEnd \/ CoRefused
    BY <1>4 DEF CoBegin, CoGraph, CoBind, CoProject, CoEnd, CoRefused
  <1>5. CASE \E s \in Slice : CoReclaim(s) \/ CoGiveBack(s) \/ CoRefresh(s)
    BY <1>5 DEF CoReclaim, CoGiveBack, CoRefresh
  <1> QED
    BY <1>1, <1>2, <1>3, <1>4, <1>5 DEF CoNext

\* The refill writes nothing but the boundary it latches.
LEMMA RefillMoves == RefillNext => PauseNext \/ UNCHANGED vars
  <1>1. \A b \in Reached : b \in Boundary
    BY DEF Reached, Ready, Boundary, ExactPlan, CanaryRun, PassRun, Gate1, BuildFinalize,
       Gate2, ReleaseApply, ReleaseSync
  <1> QED
    BY <1>1 DEF RefillNext, RefillLatch, Acknowledge, RefillGiveBack, Refill, PauseNext

LEMMA WorkerMoves == \A n \in Node : WorkerStep(n) => LedgerMove \/ UNCHANGED vars
  <1> SUFFICES ASSUME NEW n \in Node, WorkerStep(n) PROVE LedgerMove \/ UNCHANGED vars
    OBVIOUS
  <1>1. CASE Write(n)
    BY <1>1 DEF Write, LedgerMove, WorkNext
  <1>2. CASE Validate(n) \/ Refuse(n)
    BY <1>2 DEF Validate, Refuse, LedgerMove, BatchNext
  <1>3. CASE Commit(n)
    BY <1>3, NamedStages DEF Commit, LedgerMove
  <1>4. CASE ApproveStep(n)
    BY <1>4 DEF ApproveStep, LedgerMove
  <1>5. CASE Check(n) \/ WorkerFail(n) \/ Lease(n) \/ PassFail(n) \/ PassLeaves(n)
    BY <1>5 DEF Check, WorkerFail, Lease, PassFail, PassLeaves
  <1> QED
    BY <1>1, <1>2, <1>3, <1>4, <1>5 DEF WorkerStep

LEMMA OperatorMoves == OperatorNext \/ PersonDecides => LedgerMove \/ UNCHANGED vars
  <1>1. OpCancel \/ OpResume => LedgerMove \/ UNCHANGED vars
    BY DEF OpCancel, OpResume, LedgerMove, PauseNext
  <1>2. OpBatch \/ OpReopen => LedgerMove \/ UNCHANGED vars
    BY DEF OpBatch, OpReopen, LedgerMove, BatchNext
  <1>3. OpCancelAgain \/ OpPark => UNCHANGED vars
    BY DEF OpCancelAgain, OpPark
  <1>4. PersonDecides => LedgerMove
    BY DEF PersonDecides, LedgerMove, PauseNext
  <1> QED
    BY <1>1, <1>2, <1>3, <1>4 DEF OperatorNext

LEMMA ControlMoves == [ControlNext]_allVars => LedgerMove \/ UNCHANGED vars
  <1>1. CoCrash \/ OpCrash => UNCHANGED vars
    BY DEF CoCrash, OpCrash
  <1>2. \A n \in Node : Claim(n) \/ WorkerDies(n) \/ NativeEnd(n) => UNCHANGED vars
    BY DEF Claim, WorkerDies, NativeEnd
  <1>3. UNCHANGED allVars => UNCHANGED vars
    BY DEF allVars
  <1>4. \A s \in Slice : LateEnds(s) => UNCHANGED vars
    BY DEF LateEnds
  <1>5. RefillNext => LedgerMove \/ UNCHANGED vars
    BY RefillMoves DEF LedgerMove
  <1> QED
    BY <1>1, <1>2, <1>3, <1>4, <1>5, CoMoves, WorkerMoves, OperatorMoves DEF ControlNext

\* The processes that move an automatic workflow call nothing the ledger's
\* specification does not allow, wherever they are interleaved or die.
THEOREM ControlImplements == ControlSpec => Spec
  <1>1. ControlInit => Init
    BY DEF ControlInit
  <1>2. [ControlNext]_allVars => [Next]_vars
    BY ControlMoves, MoveIsNext
  <1> QED
    BY <1>1, <1>2, PTL DEF ControlSpec, Spec

\* Pauses, checkpoints and coverage hold of the composed system as they do of
\* the ledger alone.
THEOREM ControlledSafely == ControlSpec => [](PausesHold /\ GatesHold /\ CoverageHolds)
  BY ControlImplements, PausesAlwaysHold, GatesAlwaysHold, CoverageAlwaysHolds, PTL

----------------------------------------------------------------------------
(* Nodes and what completes them.                                           *)

ChainName == {"reduce", "validate1", "build", "plan", "validate2", "apply", "sync", "accept"}

LEMMA ChainNodes == Batch \subseteq ChainName /\ Slice \cap ChainName = {}
  <1>1. DOMAIN Chain = 1..8
    BY DEF Chain
  <1>2. \A i \in 1..8 : Chain[i] \in ChainName
    BY DEF Chain, ChainName
  <1>3. /\ Chain[1] = "reduce" /\ Chain[2] = "validate1" /\ Chain[3] = "build"
        /\ Chain[4] = "plan" /\ Chain[5] = "validate2" /\ Chain[6] = "apply"
        /\ Chain[7] = "sync" /\ Chain[8] = "accept"
    BY DEF Chain
  <1>4. Slice \cap ChainName = {}
    BY <1>1, <1>3, NodeAssumption DEF ChainName
  <1> QED
    BY <1>1, <1>2, <1>4 DEF Batch

\* What a ledger operation of these processes never takes back.
Kept ==
  /\ bound' /\ done \subseteq done' /\ stage' >= stage
  /\ drafted => drafted'
  /\ finalized => finalized'
  /\ release => release'
  /\ approved[Checkpoint2] => approved'[Checkpoint2]
  /\ state = "partial" => state' = "partial"

LEMMA LedgerForward ==
  ASSUME IInv, bound, NotYetDecided, LedgerMove \/ UNCHANGED vars
  PROVE  Kept /\ NotYetDecided'
  <1> USE DEF Kept, NotYetDecided
  <1>1. TypeOK /\ Bookkeeping
    BY DEF IInv
  <1>2. /\ stage \in 0..12 /\ approved \in [{Checkpoint1, Checkpoint2} -> BOOLEAN]
        /\ bound \in BOOLEAN /\ drafted \in BOOLEAN /\ finalized \in BOOLEAN /\ release \in BOOLEAN
    BY <1>1 DEF TypeOK, Stage
  <1>3. ASSUME UNCHANGED <<bound, done, stage, drafted, finalized, release, approved>>,
               state = "partial" => state' = "partial"
        PROVE  Kept /\ NotYetDecided'
    BY <1>2, <1>3
  <1>4. CASE CanaryNext
    BY <1>3, <1>4, CanaryFrame DEF place, plan, releases, work
  <1>5. ASSUME NEW t \in Stage, Reconcile(t)
        PROVE  Kept /\ NotYetDecided'
    <2>1. /\ stage' = stage + 1 /\ t = stage + 1 /\ bound' /\ state' = state
          /\ UNCHANGED <<done, drafted, finalized, release>>
      BY <1>5 DEF Reconcile, work
    <2>2. approved' = [c \in {Checkpoint1, Checkpoint2} |-> approved[c] /\ c # t]
      BY <1>5 DEF Reconcile
    <2>3. Checkpoint1 \in Nat /\ Checkpoint2 \in Nat
      BY DEF Checkpoint1, Checkpoint2
    <2>4. \A c \in {Checkpoint1, Checkpoint2} : stage' < c => ~approved'[c]
      BY <1>2, <2>1, <2>2, <2>3
    <2>5. approved[Checkpoint2] => approved'[Checkpoint2]
      <3>1. t = Checkpoint2 => ~approved[Checkpoint2]
        BY <1>2, <2>1, <2>3
      <3>2. approved'[Checkpoint2] = (approved[Checkpoint2] /\ Checkpoint2 # t)
        BY <2>2
      <3> QED
        BY <3>1, <3>2
    <2> QED
      BY <1>2, <2>1, <2>4, <2>5
  <1>6. CASE Conclude("partial")
    BY <1>3, <1>6 DEF Conclude, plan, releases, work, Running
  <1>7. ASSUME NEW c \in {Checkpoint1, Checkpoint2}, Approve(c) \/ ApproveAutomatic(c)
        PROVE  Kept /\ NotYetDecided'
    <2>1. stage = c /\ UNCHANGED <<stage, state, bound, done, drafted, finalized, release>>
      BY <1>7 DEF Approve, ApproveAutomatic, place, plan, work
    <2>2. approved' = [approved EXCEPT ![c] = TRUE]
      BY <1>7 DEF Approve, ApproveAutomatic
    <2> QED
      BY <1>2, <2>1, <2>2
  <1>8. CASE BindReleasePlan
    <2>1. release' /\ UNCHANGED <<stage, state, bound, done, drafted, finalized, approved>>
      BY <1>8 DEF BindReleasePlan, place, plan, work
    <2> QED
      BY <1>2, <2>1
  <1>9. CASE PauseNext
    <2>1. stage' = stage
      BY <1>1, <1>9 DEF Bookkeeping, PauseNext, Cancel, Resume, LatchPause, ContinueWorkflow, place
    <2>2. state = "partial" => state' = "partial"
      BY <1>9 DEF PauseNext, Cancel, Resume, LatchPause, ContinueWorkflow, Running, place
    <2> QED
      BY <1>3, <1>9, <2>1, <2>2, PauseFrame DEF plan, releases, work
  <1>10. CASE WorkNext
    <2>1. done \subseteq done' /\ (drafted => drafted') /\ (finalized => finalized')
      BY <1>10 DEF WorkNext, InitializeSlices, CompleteSlice, Reduce, FinalizeBatch,
         ApplyRelease, SyncIndex
    <2>2. UNCHANGED <<stage, state, bound, release, approved>>
      BY <1>10, WorkFrame DEF place, plan, releases
    <2> QED
      BY <1>2, <2>1, <2>2
  <1>11. CASE BatchNext
    BY <1>3, <1>11, BatchFrame DEF place, plan, releases, work
  <1>12. CASE UNCHANGED vars
    BY <1>3, <1>12 DEF vars, place, plan, releases, work
  <1> QED
    BY <1>4, <1>5, <1>6, <1>7, <1>8, <1>9, <1>10, <1>11, <1>12 DEF LedgerMove, CanaryNext

\* What the record shows as completed, it shows from then on; and an old copy
\* that was right stays right.
LEMMA CompletedStays ==
  ASSUME TypeOK, TypeOK', Kept, NEW n \in Node
  PROVE  /\ CompletedBy(Snapshot, n) => CompletedBy(Snapshot, n)'
         /\ (CompletedBy(seen, n) => CompletedBy(Snapshot, n)) /\ seen' = seen =>
              (CompletedBy(seen, n)' => CompletedBy(Snapshot, n)')
  <1>1. stage \in 0..12 /\ stage' \in 0..12
    BY DEF TypeOK, Stage
  <1>2. CASE n \in Slice
    BY <1>2, ChainNodes DEF CompletedBy, Kept, ChainName
  <1>3. CASE n \in Batch
    <2>1. n \in ChainName /\ n \notin Slice
      BY <1>3, ChainNodes
    <2>2. CASE n \in {"reduce", "build"}
      BY <2>1, <2>2 DEF CompletedBy, Kept
    <2>3. CASE n \in {"plan", "validate2"}
      BY <2>1, <2>3 DEF CompletedBy, Kept, Snapshot
    <2>4. CASE n = "validate1"
      BY <1>1, <2>1, <2>4 DEF CompletedBy, Kept, Snapshot, Checkpoint1
    <2>5. CASE n = "apply"
      BY <1>1, <2>1, <2>5 DEF CompletedBy, Kept, Snapshot, Indexing
    <2>6. CASE n = "sync"
      BY <1>1, <2>1, <2>6 DEF CompletedBy, Kept, Snapshot, Validating
    <2>7. CASE n = "accept"
      BY <1>1, <2>1, <2>7 DEF CompletedBy, Kept, Snapshot, Completed
    <2> QED
      BY <2>1, <2>2, <2>3, <2>4, <2>5, <2>6, <2>7 DEF ChainName
  <1> QED
    BY <1>2, <1>3 DEF Node

----------------------------------------------------------------------------
(* How a card moves, whoever moves it.                                      *)

\* What has a card offered again after its run.
OfferedAgain(m) ==
  /\ m \in Slice \ done /\ card'[m] = "again"
  /\ lease[m] = "ready" /\ worker[m] = "off" /\ failed[m] = "none"
  /\ card[m] = "reaped" \/ (card[m] = "ended" /\ erred[m])

\* A card whose run began never waits for its first one again, one with a worker
\* is not offered, one that was closed stays so or is offered again, and one is
\* done only by what the coordinator's copy or the record says.
CardMoves ==
  /\ card' \in [Node -> CardState]
  /\ \A m \in Node : card[m] \notin Waiting => card'[m] \notin Waiting
  /\ \A m \in Node : worker[m] # "off" => card'[m] \notin Idle
  /\ \A m \in Node : card[m] \in Closed => card'[m] \in Closed \/ OfferedAgain(m)
  /\ \A m \in Node : card'[m] = "again" => card[m] = "again" \/ OfferedAgain(m)
  /\ \A m \in Node :
       card'[m] = "done" =>
         \/ card[m] = "done"
         \/ co # "idle" /\ CompletedBy(seen, m)
         \/ CompletedBy(Snapshot, m)

LEMMA ProjectStep ==
  ASSUME ControlTypeOK, WorkersHaveRuns, LeasesHeld, NEW n \in Node, CoProject(n)
  PROVE  CardMoves /\ failed' \in [Node -> {"none", "error", "review"}]
  <1> USE DEF CardMoves, CardState, Waiting, Idle, Closed, OfferedAgain
  <1>1. card \in [Node -> CardState] /\ failed \in [Node -> {"none", "error", "review"}]
    BY DEF ControlTypeOK
  <1>2. co # "idle" /\ \A m \in Node : worker[m] # "off" => card[m] \notin Idle
    BY DEF CoProject, WorkersHaveRuns
  <1>3. Report(n) \in {"none", "error", "review"}
    BY <1>1 DEF Report
  <1>4. CASE UNCHANGED native
    BY <1>1, <1>2, <1>4 DEF native
  <1>5. CASE CompletedBy(seen, n) /\ Close(n)
    BY <1>1, <1>2, <1>5 DEF Close
  <1>6. CASE Archive(n)
    BY <1>1, <1>2, <1>3, <1>6 DEF Archive
  <1>7. CASE ArchiveAll(n)
    BY <1>1, <1>2, <1>7 DEF ArchiveAll
  <1>8. CASE Offer(n) /\ ~CompletedBy(seen, n) /\ Report(n) # "error"
    <2>1. CASE card' = card \/ card' = [card EXCEPT ![n] = Hold(@)]
      BY <1>1, <1>2, <2>1, <1>8 DEF Hold, Offer
    <2>2. CASE card' = [card EXCEPT ![n] = Unblock(@)] /\ Report(n) = "none" /\ Offerable(n)
      <3>1. failed[n] = "none" /\ (card[n] \in {"reaped", "ended", "again"} => Durable(n))
        BY <1>1, <2>2 DEF Report
      <3>2. CASE card[n] \in {"reaped", "ended"}
        <4>1. n \in Slice /\ erred[n]
          BY <3>1, <3>2 DEF Durable
        <4>2. lease[n] = "ready" /\ worker[n] = "off"
          BY <2>2, <4>1 DEF Offerable, SliceReady, LeasesHeld
        <4>3. n \notin done
          BY <2>2, <4>1 DEF Offerable, SliceReady
        <4>4. card' = [card EXCEPT ![n] = "again"]
          BY <2>2, <3>2 DEF Unblock
        <4> QED
          BY <1>1, <1>2, <1>8, <3>1, <3>2, <4>1, <4>2, <4>3, <4>4 DEF Offer
      <3>3. CASE card[n] \notin {"reaped", "ended"}
        BY <1>1, <1>2, <1>8, <2>2, <3>3 DEF Unblock, Offer
      <3> QED
        BY <3>2, <3>3
    <2> QED
      BY <1>1, <1>3, <1>8, <2>1, <2>2 DEF Offer
  <1> QED
    BY <1>4, <1>5, <1>6, <1>7, <1>8 DEF CoProject

LEMMA RefillStep ==
  ASSUME ControlTypeOK, WorkersHaveRuns, RefillNext
  PROVE  CardMoves /\ failed' \in [Node -> {"none", "error", "review"}]
  <1> USE DEF CardMoves, CardState, Waiting, Idle, Closed, OfferedAgain
  <1>1. card \in [Node -> CardState] /\ failed \in [Node -> {"none", "error", "review"}]
    BY DEF ControlTypeOK
  <1>2. \A m \in Node : worker[m] # "off" => card[m] \notin Idle
    BY DEF WorkersHaveRuns
  <1>3. Slice \subseteq Node
    BY DEF Node
  <1>4. CASE RefillLatch
    BY <1>1, <1>2, <1>4 DEF RefillLatch, native
  <1>5. ASSUME NEW s \in Slice, Acknowledge(s)
        PROVE  CardMoves /\ failed' \in [Node -> {"none", "error", "review"}]
    <2>1. CompletedBy(Snapshot, s)
      BY <1>5, ChainNodes DEF Acknowledge, CompletedBy, ChainName
    <2> QED
      BY <1>1, <1>2, <1>3, <1>5, <2>1 DEF Acknowledge, Close
  <1>6. ASSUME NEW s \in Slice, RefillGiveBack(s)
        PROVE  CardMoves /\ failed' \in [Node -> {"none", "error", "review"}]
    BY <1>1, <1>2, <1>3, <1>6 DEF RefillGiveBack, GiveBack, ReportStopped
  <1>7. ASSUME NEW s \in Slice, Refill(s)
        PROVE  CardMoves /\ failed' \in [Node -> {"none", "error", "review"}]
    <2>1. s \notin done /\ lease[s] = "ready" /\ failed[s] = "none" /\ failed' = failed
      BY <1>7 DEF Refill, SliceReady
    <2>2. worker[s] = "off"
      BY <1>2, <1>3, <1>7 DEF Refill
    <2>3. CASE card[s] = "new" /\ card' = [card EXCEPT ![s] = "ready"]
      BY <1>1, <1>2, <1>3, <2>1, <2>2, <2>3
    <2>4. CASE card[s] = "reaped" /\ card' = [card EXCEPT ![s] = "again"]
      BY <1>1, <1>2, <1>3, <2>1, <2>2, <2>4
    <2> QED
      BY <1>7, <2>3, <2>4 DEF Refill, Unblock
  <1> QED
    BY <1>4, <1>5, <1>6, <1>7 DEF RefillNext

LEMMA CardStep ==
  ASSUME ControlTypeOK, WorkersHaveRuns, LeasesHeld, [ControlNext]_allVars
  PROVE  CardMoves
  <1> USE DEF CardMoves, CardState, Waiting, Idle, Closed, OfferedAgain
  <1>1. card \in [Node -> CardState] /\ \A m \in Node : worker[m] # "off" => card[m] \notin Idle
    BY DEF ControlTypeOK, WorkersHaveRuns
  <1>2. CASE card' = card
    BY <1>1, <1>2
  <1>3. ASSUME NEW n \in Node, CoProject(n) PROVE CardMoves
    BY <1>3, ProjectStep
  <1>4. CASE CoBind
    BY <1>1, <1>4 DEF CoBind
  <1>5. ASSUME NEW n \in Node, Claim(n) \/ NativeEnd(n) PROVE CardMoves
    BY <1>1, <1>5 DEF Claim, NativeEnd
  <1>6. CASE OpPark
    BY <1>1, <1>6 DEF OpPark, Hold
  <1>7. CASE CoNext /\ ~CoBind /\ ~(\E n \in Node : CoProject(n))
    BY <1>2, <1>7 DEF CoNext, CoBegin, CoInitialize, CoSettle, CoGraph, CoHold, CoEnd,
       CoRefused, CoReclaim, CoGiveBack, CoRefresh, control, native
  <1>8. ASSUME NEW n \in Node, WorkerStep(n) \/ WorkerDies(n) PROVE CardMoves
    BY <1>2, <1>8 DEF WorkerStep, WorkerDies, Write, Check, Validate, Refuse, Commit,
       ApproveStep, WorkerFail, Lease, PassFail, PassLeaves, native
  <1>9. CASE OperatorNext /\ ~OpPark
    BY <1>2, <1>9 DEF OperatorNext, OpCancel, OpCancelAgain, OpBatch, OpResume, OpReopen,
       Uninvolved, native
  <1>10. CASE CoCrash \/ OpCrash \/ PersonDecides \/ UNCHANGED allVars
    BY <1>2, <1>10 DEF CoCrash, OpCrash, PersonDecides, Uninvolved, native, allVars, control
  <1>11. ASSUME NEW s \in Slice, LateEnds(s) PROVE CardMoves
    BY <1>2, <1>11 DEF LateEnds
  <1>12. CASE RefillNext
    BY <1>12, RefillStep
  <1> QED
    BY <1>3, <1>4, <1>5, <1>6, <1>7, <1>8, <1>9, <1>10, <1>11, <1>12 DEF ControlNext

----------------------------------------------------------------------------
(* Workers.                                                                 *)

WorkerPlace == {"off", "begun", "leased", "wrote", "checked", "validated", "advanced"}

LEMMA WorkerMovesOn ==
  ASSUME ControlTypeOK, [ControlNext]_allVars
  PROVE  /\ worker' \in [Node -> WorkerPlace]
         /\ \A m \in Node :
              worker'[m] # "off" => worker[m] # "off" \/ card'[m] = "running"
  <1> USE DEF WorkerPlace
  <1>1. worker \in [Node -> WorkerPlace] /\ card \in [Node -> CardState]
    BY DEF ControlTypeOK, CardState
  <1>2. CASE worker' = worker
    BY <1>1, <1>2
  <1>3. ASSUME NEW n \in Node, Claim(n)
        PROVE  /\ worker' \in [Node -> WorkerPlace]
               /\ \A m \in Node :
                    worker'[m] # "off" => worker[m] # "off" \/ card'[m] = "running"
    BY <1>1, <1>3 DEF Claim, Goes
  <1>4. ASSUME NEW n \in Node, WorkerStep(n) \/ WorkerDies(n)
        PROVE  /\ worker' \in [Node -> WorkerPlace]
               /\ \A m \in Node :
                    worker'[m] # "off" => worker[m] # "off" \/ card'[m] = "running"
    <2>1. worker[n] # "off"
      BY <1>4 DEF WorkerStep, WorkerDies, Write, Check, Validate, Refuse, Commit, ApproveStep,
         WorkerFail, Lease, PassFail, PassLeaves
    <2>2. \E pc \in WorkerPlace : worker' = [worker EXCEPT ![n] = pc]
      BY <1>4 DEF WorkerStep, WorkerDies, Write, Check, Validate, Refuse, Commit, ApproveStep,
         WorkerFail, Lease, PassFail, PassLeaves, Goes, Leaves
    <2> QED
      BY <1>1, <2>1, <2>2
  <1>5. ASSUME NEW n \in Node, NativeEnd(n) PROVE worker' = worker
    BY <1>5 DEF NativeEnd, working
  <1>6. ASSUME CoNext \/ CoCrash \/ RefillNext,
               ~\E s \in Slice : CoReclaim(s)
        PROVE  worker' = worker
    BY <1>6 DEF CoNext, CoBegin, CoInitialize, CoSettle, CoGraph, CoBind, CoHold, CoProject, CoEnd,
       CoRefused, CoGiveBack, CoRefresh, CoCrash, RefillNext, RefillLatch, Acknowledge,
       RefillGiveBack, Refill, control, working
  <1>7. (OperatorNext /\ ~OpBatch) \/ OpCrash \/ PersonDecides => worker' = worker
    BY DEF OperatorNext, OpCancel, OpCancelAgain, OpPark, OpResume, OpReopen, OpCrash,
       PersonDecides, Uninvolved, working
  <1>8. UNCHANGED allVars => worker' = worker
    BY DEF allVars, control, working
  <1>9. ASSUME NEW S \in SUBSET Slice, Withdraw(S)
        PROVE  /\ worker' \in [Node -> WorkerPlace]
               /\ \A m \in Node :
                    worker'[m] # "off" => worker[m] # "off" \/ card'[m] = "running"
    BY <1>1, <1>9 DEF Withdraw
  <1>10. (\E s \in Slice : CoReclaim(s)) \/ OpBatch =>
            worker' = worker \/ \E S \in SUBSET Slice : Withdraw(S)
    BY DEF CoReclaim, OpBatch, working
  <1>11. ASSUME NEW s \in Slice, LateEnds(s) PROVE worker' = worker
    BY <1>11 DEF LateEnds
  <1> QED
    BY <1>2, <1>3, <1>4, <1>5, <1>6, <1>7, <1>8, <1>9, <1>10, <1>11 DEF ControlNext, OperatorNext

\* Leases are taken and lost with their workers.
LEMMA LeaseStep ==
  ASSUME ControlTypeOK, LeasesHeld, [ControlNext]_allVars
  PROVE  /\ LeasesHeld'
         /\ lease' \in [Slice -> {"ready", "leased", "retry", "held"}]
         /\ used' \in [Slice -> 0..MaxAttempts]
         /\ erred' \in [Slice -> BOOLEAN] /\ late' \subseteq Slice
  <1> DEFINE Goal == /\ LeasesHeld'
                     /\ lease' \in [Slice -> {"ready", "leased", "retry", "held"}]
                     /\ used' \in [Slice -> 0..MaxAttempts]
                     /\ erred' \in [Slice -> BOOLEAN] /\ late' \subseteq Slice
  <1> USE DEF LeasesHeld
  <1>1. /\ worker \in [Node -> WorkerPlace]
        /\ lease \in [Slice -> {"ready", "leased", "retry", "held"}]
        /\ used \in [Slice -> 0..MaxAttempts]
        /\ erred \in [Slice -> BOOLEAN] /\ late \subseteq Slice
        /\ Slice \subseteq Node /\ MaxAttempts \in Nat \ {0}
    BY ControlAssumption DEF ControlTypeOK, WorkerPlace, Node
  <1>2. ASSUME UNCHANGED working PROVE Goal
    BY <1>1, <1>2 DEF working, tries
  <1>3. ASSUME NEW n \in Node, Claim(n) PROVE Goal
    BY <1>1, <1>3 DEF Claim, Goes, SliceReady
  <1>4. ASSUME NEW n \in Node, Lease(n) PROVE Goal
    <2>1. worker[n] = "begun" /\ worker' = [worker EXCEPT ![n] = "leased"]
      BY <1>4 DEF Lease, Goes
    <2>2. used' \in [Slice -> 0..MaxAttempts]
      BY <1>1, <1>4 DEF Lease
    <2>3. PICK due \in SUBSET {s \in Slice : lease[s] = "retry"} :
            lease' = [s \in Slice |-> IF s = n THEN "leased"
                                     ELSE IF s \in due THEN "ready" ELSE lease[s]]
      BY <1>4 DEF Lease
    <2>4. lease' \in [Slice -> {"ready", "leased", "retry", "held"}]
      BY <1>1, <2>3
    <2>5. UNCHANGED <<erred, late>>
      BY <1>4 DEF Lease
    <2>6. LeasesHeld'
      BY <1>1, <2>1, <2>3, <2>5
    <2> QED
      BY <1>1, <2>2, <2>4, <2>5, <2>6
  <1>5. ASSUME NEW n \in Node, Write(n) PROVE Goal
    <2>1. worker[n] # "off" /\ \E pc \in WorkerPlace : worker' = [worker EXCEPT ![n] = pc]
      BY <1>5 DEF Write, Goes, WorkerPlace
    <2>2. /\ \A s \in Slice : lease'[s] = IF s = n THEN "ready" ELSE lease[s]
          /\ \A s \in Slice : used'[s] = IF s = n THEN 0 ELSE used[s]
          /\ erred' = erred /\ late' = late
      BY <1>5 DEF Write
    <2>3. LeasesHeld'
      BY <1>1, <2>1, <2>2
    <2>4. lease' \in [Slice -> {"ready", "leased", "retry", "held"}]
      BY <1>1, <1>5 DEF Write
    <2>5. used' \in [Slice -> 0..MaxAttempts]
      BY <1>1, <1>5 DEF Write
    <2> QED
      BY <1>1, <2>2, <2>3, <2>4, <2>5
  <1>6. ASSUME NEW n \in Node, UNCHANGED tries,
               Check(n) \/ Validate(n) \/ Refuse(n) \/ Commit(n) \/ ApproveStep(n) \/
                 WorkerFail(n) \/ PassLeaves(n) \/ WorkerDies(n)
        PROVE  Goal
    <2>1. worker[n] # "off"
      BY <1>6 DEF Check, Validate, Refuse, Commit, ApproveStep, WorkerFail, PassLeaves, WorkerDies
    <2>2. \E pc \in WorkerPlace : worker' = [worker EXCEPT ![n] = pc]
                                 /\ (n \in Slice => pc = "off")
      BY <1>6, ChainNodes DEF Check, Validate, Refuse, Commit, ApproveStep, WorkerFail, PassLeaves,
         WorkerDies, Goes, Leaves, WorkerPlace, ChainName, Node
    <2> QED
      BY <1>1, <1>6, <2>1, <2>2 DEF tries
  <1>7. \A n \in Node : Check(n) \/ Validate(n) \/ Refuse(n) \/ Commit(n) \/ ApproveStep(n) \/
                           WorkerFail(n) \/ PassLeaves(n) \/ WorkerDies(n) => UNCHANGED tries
    BY DEF Check, Validate, Refuse, Commit, ApproveStep, WorkerFail, PassLeaves, WorkerDies
  <1>8. ASSUME NEW n \in Node, PassFail(n) PROVE Goal
    BY <1>1, <1>8 DEF PassFail, Errs, Leaves, Goes
  <1>9. ASSUME NEW n \in Node, NativeEnd(n) PROVE UNCHANGED working
    BY <1>9 DEF NativeEnd
  <1>10. ASSUME NEW s \in Slice, CoReclaim(s) PROVE Goal
    BY <1>1, <1>10 DEF CoReclaim, Errs, Withdraw
  <1>11. ASSUME NEW s \in Slice, CoGiveBack(s) \/ RefillGiveBack(s) PROVE Goal
    BY <1>1, <1>11 DEF CoGiveBack, RefillGiveBack, GiveBack, ReportStopped, DeadLease, Errs, tries
  <1>12. ASSUME NEW s \in Slice, CoRefresh(s) PROVE Goal
    BY <1>1, <1>12 DEF CoRefresh
  <1>13. ASSUME OpBatch PROVE Goal
    <2>1. CASE UNCHANGED working
      BY <1>2, <2>1
    <2>2. CASE /\ Withdraw(Slice) /\ lease' = [s \in Slice |-> "ready"]
               /\ used' = used /\ erred' = erred
      BY <1>1, <2>2 DEF Withdraw
    <2> QED
      BY <1>13, <2>1, <2>2 DEF OpBatch
  <1>14. ASSUME NEW s \in Slice, LateEnds(s) PROVE Goal
    BY <1>1, <1>14 DEF LateEnds
  <1>15. (CoNext \/ CoCrash \/ RefillNext)
         /\ ~(\E s \in Slice : CoReclaim(s) \/ CoGiveBack(s) \/ CoRefresh(s) \/ RefillGiveBack(s)) =>
           UNCHANGED working
    BY DEF CoNext, CoBegin, CoInitialize, CoSettle, CoGraph, CoBind, CoHold, CoProject, CoEnd,
       CoRefused, CoCrash, RefillNext, RefillLatch, Acknowledge, Refill, control
  <1>16. (OperatorNext /\ ~OpBatch) \/ OpCrash \/ PersonDecides \/ UNCHANGED allVars => UNCHANGED working
    BY DEF OperatorNext, OpCancel, OpCancelAgain, OpPark, OpResume, OpReopen, OpCrash,
       PersonDecides, Uninvolved, allVars, control
  <1> HIDE DEF Goal
  <1>17. Goal
    <2>1. UNCHANGED working => Goal
      BY <1>2 DEF Goal
    <2>2. \A n \in Node : WorkerStep(n) \/ WorkerDies(n) => Goal
      BY <1>4, <1>5, <1>6, <1>7, <1>8 DEF WorkerStep
    <2> QED
      BY <1>3, <1>9, <1>10, <1>11, <1>12, <1>13, <1>14, <1>15, <1>16, <2>1, <2>2
      DEF ControlNext, OperatorNext
  <1> QED
    BY <1>17 DEF Goal

----------------------------------------------------------------------------
(* The coordinator's copy.                                                  *)

LEMMA SnapshotSame == UNCHANGED vars => Snapshot' = Snapshot
  <1> SUFFICES ASSUME UNCHANGED vars PROVE Snapshot' = Snapshot
    OBVIOUS
  <1> USE DEF vars, place, plan, dispatch, releases, pausing, work, batch
  <1>1. CanaryPassed' = CanaryPassed /\ AllPassed' = AllPassed
    BY DEF CanaryPassed, CanaryCount, Sample, AllPassed, Settled
  <1>2. \A b : Ready(b)' <=> Ready(b)
    BY <1>1 DEF Ready
  <1>3. Wanted' = Wanted /\ Released' = Released
    BY DEF Wanted, Released
  <1>4. Reached' = Reached
    BY <1>2, <1>3 DEF Reached
  <1> QED
    BY <1>4 DEF Snapshot, NotPaused

\* What the refill leaves alone.
LEMMA RefillFrame ==
  RefillNext => /\ UNCHANGED <<worker, op, coordinator, bounds>> /\ co = "idle"
                /\ fresh' \subseteq fresh
  BY DEF RefillNext, RefillLatch, Acknowledge, RefillGiveBack, Refill, Refilling, working

\* The copy is kept, taken of the record as the step leaves it, or let go.
LEMMA CopyStep ==
  ASSUME [ControlNext]_allVars, co' # "idle"
  PROVE  (co # "idle" /\ seen' = seen) \/ seen' = Snapshot'
  <1>1. CASE CoBegin
    BY <1>1, SnapshotSame DEF CoBegin
  <1>2. CASE CoNext /\ ~CoBegin
    BY <1>2 DEF CoNext, CoInitialize, CoSettle, CoGraph, CoBind, CoHold, CoProject, CoEnd,
       CoRefused, CoReclaim, CoGiveBack, CoRefresh, CoIdle, control, coordinator
  <1>3. CASE co' = co /\ seen' = seen
    BY <1>3
  <1>4. \A n \in Node : Claim(n) \/ WorkerStep(n) \/ WorkerDies(n) \/ NativeEnd(n) =>
                           co' = co /\ seen' = seen
    BY DEF Claim, WorkerStep, WorkerDies, NativeEnd, Write, Check, Validate, Refuse, Commit,
       ApproveStep, WorkerFail, Lease, PassFail, PassLeaves, Still, coordinator
  <1>5. OperatorNext \/ OpCrash \/ PersonDecides => co' = co /\ seen' = seen
    BY DEF OperatorNext, OpCancel, OpCancelAgain, OpBatch, OpPark, OpResume, OpReopen, OpCrash,
       PersonDecides, Uninvolved, coordinator
  <1>6. UNCHANGED allVars => co' = co /\ seen' = seen
    BY DEF allVars, control, coordinator
  <1>7. ~CoCrash
    BY DEF CoCrash, CoIdle
  <1>8. RefillNext \/ (\E s \in Slice : LateEnds(s)) => co' = co /\ seen' = seen
    BY RefillFrame DEF LateEnds, Still, coordinator
  <1> QED
    BY <1>1, <1>2, <1>3, <1>4, <1>5, <1>6, <1>7, <1>8 DEF ControlNext

LEMMA CopyStaysTrue ==
  ASSUME TypeOK, TypeOK', Kept, CopyStillTrue, [ControlNext]_allVars
  PROVE  CopyStillTrue'
  <1> SUFFICES ASSUME co' # "idle"
               PROVE  /\ seen'.chosen \subseteq Slice
                      /\ \A n \in Node : CompletedBy(seen, n)' => CompletedBy(Snapshot, n)'
    BY DEF CopyStillTrue
  <1>1. CASE co # "idle" /\ seen' = seen
    BY <1>1, CompletedStays DEF CopyStillTrue
  <1>2. CASE seen' = Snapshot'
    <2>1. seen'.chosen = chosen'
      BY <1>2 DEF Snapshot
    <2>2. \A n \in Node : CompletedBy(seen, n)' <=> CompletedBy(Snapshot, n)'
      BY <1>2
    <2> QED
      BY <2>1, <2>2 DEF TypeOK
  <1> QED
    BY <1>1, <1>2, CopyStep

LEMMA DoneStaysTrue ==
  ASSUME TypeOK, TypeOK', Kept, ControlTypeOK, WorkersHaveRuns, LeasesHeld, CopyStillTrue,
         DoneTruthful, [ControlNext]_allVars
  PROVE  DoneTruthful'
  <1> SUFFICES ASSUME NEW n \in Node, card'[n] = "done" PROVE CompletedBy(Snapshot, n)'
    BY DEF DoneTruthful
  <1>1. card[n] = "done" \/ (co # "idle" /\ CompletedBy(seen, n)) \/ CompletedBy(Snapshot, n)
    BY CardStep DEF CardMoves
  <1>2. CompletedBy(Snapshot, n)
    BY <1>1 DEF CopyStillTrue, DoneTruthful
  <1> QED
    BY <1>2, CompletedStays

----------------------------------------------------------------------------
(* Type correctness.                                                        *)

LEMMA GraphOfNodes ==
  ASSUME NEW v, v.chosen \subseteq Slice
  PROVE  Graph(v) \subseteq Node
  BY DEF Graph, Present, Node

LEMMA BoundsStep ==
  ASSUME ControlTypeOK, [ControlNext]_allVars
  PROVE  stops' \in 0..MaxStop /\ crashes' \in 0..MaxCrash
  <1>1. stops \in 0..MaxStop /\ crashes \in 0..MaxCrash
    BY DEF ControlTypeOK
  <1>2. \/ UNCHANGED <<stops, crashes>>
        \/ stops' = stops + 1 /\ stops < MaxStop /\ crashes' = crashes
        \/ crashes' = crashes + 1 /\ crashes < MaxCrash /\ stops' = stops
    <2>1. CoNext => UNCHANGED <<stops, crashes>>
      BY DEF CoNext, CoBegin, CoInitialize, CoSettle, CoGraph, CoBind, CoHold, CoProject, CoEnd,
         CoRefused, CoReclaim, CoGiveBack, CoRefresh, control, bounds
    <2>2. \A n \in Node : Claim(n) \/ WorkerStep(n) \/ NativeEnd(n) => UNCHANGED <<stops, crashes>>
      BY DEF Claim, WorkerStep, NativeEnd, Write, Check, Validate, Refuse, Commit, ApproveStep,
         WorkerFail, Lease, PassFail, PassLeaves, Still, bounds
    <2>3. OperatorNext \/ PersonDecides =>
            UNCHANGED <<stops, crashes>>
            \/ (stops' = stops + 1 /\ stops < MaxStop /\ crashes' = crashes)
      BY DEF OperatorNext, OpCancel, OpCancelAgain, OpBatch, OpPark, OpResume, OpReopen,
         PersonDecides, bounds
    <2>4. CoCrash \/ OpCrash \/ (\E n \in Node : WorkerDies(n)) =>
            crashes' = crashes + 1 /\ crashes < MaxCrash /\ stops' = stops
      BY DEF CoCrash, OpCrash, WorkerDies
    <2>5. UNCHANGED allVars => UNCHANGED <<stops, crashes>>
      BY DEF allVars, control, bounds
    <2>6. RefillNext \/ (\E s \in Slice : LateEnds(s)) => UNCHANGED <<stops, crashes>>
      BY RefillFrame DEF LateEnds, Still, bounds
    <2> QED
      BY <2>1, <2>2, <2>3, <2>4, <2>5, <2>6 DEF ControlNext
  <1> QED
    BY <1>1, <1>2, ControlAssumption

LEMMA FailedStep ==
  ASSUME ControlTypeOK, WorkersHaveRuns, LeasesHeld, [ControlNext]_allVars
  PROVE  failed' \in [Node -> {"none", "error", "review"}]
  <1>1. failed \in [Node -> {"none", "error", "review"}]
    BY DEF ControlTypeOK
  <1>2. CASE failed' = failed
    BY <1>1, <1>2
  <1>3. ASSUME NEW n \in Node, CoProject(n)
        PROVE  failed' \in [Node -> {"none", "error", "review"}]
    BY <1>3, ProjectStep
  <1>4. ASSUME NEW n \in Node, Refuse(n) \/ WorkerFail(n) \/ PassFail(n)
        PROVE  failed' \in [Node -> {"none", "error", "review"}]
    BY <1>1, <1>4 DEF Refuse, WorkerFail, PassFail
  <1>5. \A n \in Node : Write(n) \/ Check(n) \/ Validate(n) \/ Commit(n) \/ ApproveStep(n) \/
                          Claim(n) \/ WorkerDies(n) \/ NativeEnd(n) \/ Lease(n) \/ PassLeaves(n) =>
                            failed' = failed
    BY DEF Write, Check, Validate, Commit, ApproveStep, Claim, WorkerDies, NativeEnd, Lease,
       PassLeaves, native
  <1>6. CoNext /\ ~(\E n \in Node : CoProject(n)) /\ ~(\E s \in Slice : CoGiveBack(s)) =>
          failed' = failed
    BY DEF CoNext, CoBegin, CoInitialize, CoSettle, CoGraph, CoBind, CoHold, CoEnd,
       CoRefused, CoReclaim, CoRefresh, control, native
  <1>7. CoCrash \/ OpCrash \/ OperatorNext \/ PersonDecides \/ UNCHANGED allVars => failed' = failed
    BY DEF CoCrash, OpCrash, OperatorNext, OpCancel, OpCancelAgain, OpBatch, OpPark, OpResume,
       OpReopen, PersonDecides, Uninvolved, native, allVars, control
  <1>8. ASSUME NEW s \in Slice, CoGiveBack(s) \/ LateEnds(s)
        PROVE  failed' \in [Node -> {"none", "error", "review"}]
    BY <1>1, <1>8 DEF CoGiveBack, GiveBack, ReportStopped, LateEnds
  <1>9. CASE RefillNext
    BY <1>9, RefillStep
  <1> QED
    BY <1>2, <1>3, <1>4, <1>5, <1>6, <1>7, <1>8, <1>9 DEF ControlNext, WorkerStep

LEMMA ProcessStep ==
  ASSUME ProcessTypes, CopyStillTrue, [ControlNext]_allVars
  PROVE  ProcessTypes'
  <1> USE DEF ProcessTypes, OpPlace, CoPlace
  <1>1. ASSUME CoNext PROVE ProcessTypes'
    <2>1. CASE CoGraph
      <3>1. Graph(seen) \subseteq Node
        BY <2>1, GraphOfNodes DEF CoGraph, CopyStillTrue
      <3>2. todo = {}
        BY <2>1 DEF CoGraph
      <3> QED
        BY <2>1, <3>1, <3>2 DEF CoGraph
    <2>2. CASE CoBegin
      BY <2>2 DEF CoBegin
    <2>3. CASE CoInitialize \/ CoSettle
      BY <2>3 DEF CoInitialize, CoSettle, control, coordinator
    <2>4. CASE CoBind \/ CoHold
      BY <2>4 DEF CoBind, CoHold
    <2>5. CASE CoEnd \/ CoRefused
      BY <2>5 DEF CoEnd, CoRefused, CoIdle
    <2>6. CASE \E n \in Node : CoProject(n)
      BY <2>6 DEF CoProject
    <2>7. CASE \E s \in Slice : CoReclaim(s) \/ CoGiveBack(s) \/ CoRefresh(s)
      BY <2>7 DEF CoReclaim, CoGiveBack, CoRefresh, coordinator
    <2> QED
      BY <1>1, <2>1, <2>2, <2>3, <2>4, <2>5, <2>6, <2>7 DEF CoNext
  <1>2. CASE CoCrash
    BY <1>2 DEF CoCrash, CoIdle
  <1>3. ASSUME NEW n \in Node, Claim(n) \/ WorkerStep(n) \/ WorkerDies(n) \/ NativeEnd(n)
        PROVE  ProcessTypes'
    <2>1. UNCHANGED <<op, co, graph, todo>>
      BY <1>3 DEF Claim, WorkerStep, WorkerDies, NativeEnd, Write, Check, Validate, Refuse,
         Commit, ApproveStep, WorkerFail, Lease, PassFail, PassLeaves, Still, coordinator
    <2>2. fresh' \subseteq fresh \cup {n}
      BY <1>3 DEF Claim, WorkerStep, WorkerDies, NativeEnd, Write, Check, Validate, Refuse,
         Commit, ApproveStep, WorkerFail, Lease, PassFail, PassLeaves, Leaves
    <2> QED
      BY <2>1, <2>2
  <1>4. CASE OperatorNext \/ OpCrash \/ PersonDecides
    <2>1. UNCHANGED <<co, graph, todo>>
      BY <1>4 DEF OperatorNext, OpCancel, OpCancelAgain, OpBatch, OpPark, OpResume, OpReopen,
         OpCrash, PersonDecides, Uninvolved, coordinator
    <2>2. op' \in OpPlace /\ fresh' \subseteq fresh
      BY <1>4 DEF OperatorNext, OpCancel, OpCancelAgain, OpBatch, OpPark, OpResume, OpReopen,
         OpCrash, PersonDecides
    <2> QED
      BY <2>1, <2>2
  <1>5. CASE UNCHANGED allVars
    BY <1>5 DEF allVars, control, coordinator
  <1>6. CASE RefillNext \/ \E s \in Slice : LateEnds(s)
    BY <1>6, RefillFrame DEF LateEnds, Still, coordinator
  <1> QED
    BY <1>1, <1>2, <1>3, <1>4, <1>5, <1>6 DEF ControlNext

----------------------------------------------------------------------------
(* The inductive invariant.                                                 *)

LEMMA ControlStep ==
  ASSUME IInv, IInv', ControlInv, [ControlNext]_allVars
  PROVE  ControlInv'
  <1>1. TypeOK /\ TypeOK'
    BY DEF IInv
  <1>2. Kept /\ NotYetDecided'
    BY ControlMoves, LedgerForward DEF ControlInv
  <1>3. ControlTypeOK'
    <2>1. card' \in [Node -> CardState]
      BY CardStep DEF ControlInv, CardMoves
    <2>2. worker' \in [Node -> WorkerPlace]
      BY WorkerMovesOn DEF ControlInv
    <2>3. /\ lease' \in [Slice -> {"ready", "leased", "retry", "held"}]
          /\ used' \in [Slice -> 0..MaxAttempts]
          /\ erred' \in [Slice -> BOOLEAN] /\ late' \subseteq Slice
      BY LeaseStep DEF ControlInv
    <2> QED
      BY <1>1, <2>1, <2>2, <2>3, FailedStep, ProcessStep, BoundsStep
      DEF ControlInv, ControlTypeOK, CardState, WorkerPlace, ProcessTypes, OpPlace, CoPlace
  <1>4. WorkersHaveRuns'
    <2> SUFFICES ASSUME NEW n \in Node, worker'[n] # "off" PROVE card'[n] \notin Idle
      BY DEF WorkersHaveRuns
    <2>1. CASE worker[n] # "off"
      BY <2>1, CardStep DEF ControlInv, CardMoves
    <2>2. CASE card'[n] = "running"
      BY <2>2 DEF Waiting, Idle
    <2> QED
      BY <2>1, <2>2, WorkerMovesOn DEF ControlInv
  <1>5. CopyStillTrue' /\ DoneTruthful' /\ ProcessTypes'
    BY <1>1, <1>2, CopyStaysTrue, DoneStaysTrue, ProcessStep DEF ControlInv
  <1>6. LeasesHeld'
    BY LeaseStep DEF ControlInv
  <1> QED
    BY <1>2, <1>3, <1>4, <1>5, <1>6 DEF ControlInv, Kept

LEMMA ControlInitInv == ControlInit => ControlInv
  <1> SUFFICES ASSUME ControlInit PROVE ControlInv
    OBVIOUS
  <1>1. TypeOK
    BY TypeInit DEF ControlInit
  <1>2. ControlTypeOK
    BY <1>1, ControlAssumption DEF ControlInit, ControlTypeOK
  <1>3. NotYetDecided
    BY DEF ControlInit, Init, NotYetDecided
  <1>4. WorkersHaveRuns /\ LeasesHeld /\ CopyStillTrue /\ DoneTruthful /\ ProcessTypes
    BY DEF ControlInit, WorkersHaveRuns, LeasesHeld, CopyStillTrue, DoneTruthful, ProcessTypes,
       OpPlace, CoPlace, Node
  <1> QED
    BY <1>2, <1>3, <1>4 DEF ControlInit, ControlInv

LEMMA ControlInvariance == ControlSpec => []ControlInv
  <1>1. ControlSpec => []IInv
    BY ControlImplements, Invariance, PTL
  <1>2. ControlInit => ControlInv
    BY ControlInitInv
  <1>3. IInv /\ IInv' /\ ControlInv /\ [ControlNext]_allVars => ControlInv'
    BY ControlStep
  <1> QED
    BY <1>1, <1>2, <1>3, PTL DEF ControlSpec

\* The cards, the workers, the operator's command and the coordinator keep
\* their shape beside the ledger's own.
THEOREM ControlTypeCorrect == ControlSpec => []ControlTypeOK
  <1>1. ControlInv => ControlTypeOK
    BY DEF ControlInv
  <1> QED
    BY <1>1, ControlInvariance, PTL

\* No card is offered to the dispatcher while a worker of it may still write,
\* though cards are parked, ended and projected behind the workers' backs, and
\* cards of Passes offered again after their run.
THEOREM OneWorkerAlways == ControlSpec => []OneWorkerPerNode
  <1>1. ControlInv => OneWorkerPerNode
    BY DEF ControlInv, WorkersHaveRuns, Idle, Waiting, OneWorkerPerNode
  <1> QED
    BY <1>1, ControlInvariance, PTL

\* A card whose run ended, or that was closed, is offered again only for an
\* unfinished Pass that nobody leased and of which no failure is reported, once
\* no worker of it can write, and either the slice records how its run ended or
\* the run was reaped and not yet reported.
THEOREM EndedNeverOffered == ControlSpec => NeverOfferedAgain
  <1> DEFINE Stay == \A n \in Node : card[n] \in Closed /\ card'[n] \notin Closed => OfferedAgain(n)
  <1>1. ControlInv /\ [ControlNext]_allVars => [Stay]_allVars
    BY CardStep DEF ControlInv, CardMoves
  <1> QED
    BY <1>1, ControlInvariance, PTL DEF ControlSpec, NeverOfferedAgain, OfferedAgain

\* A card is closed as done only on a domain result that is there, however
\* old the copy of the record that the coordinator decided it from.
THEOREM DoneAlwaysTruthful == ControlSpec => []DoneTruthful
  <1>1. ControlInv => DoneTruthful
    BY DEF ControlInv
  <1> QED
    BY <1>1, ControlInvariance, PTL

----------------------------------------------------------------------------
(* Offered cards.  What was earned when a card was offered, from a copy of  *)
(* the record that may be old, is not lost; and the stage cannot have gone  *)
(* past a card whose run has not begun.                                     *)

\* The result of the node is not in the record.
Untaken(n) ==
  /\ n \in Slice => n \notin done
  /\ n = "reduce" => ~drafted
  /\ n = "validate1" => stage < Checkpoint1
  /\ n = "build" => ~finalized
  /\ n = "plan" => ~release
  /\ n = "validate2" => stage < Checkpoint2
  /\ n = "apply" => stage < Indexing
  /\ n = "sync" /\ scope.provider = "sync" => stage < Validating
  /\ n = "accept" => stage # Completed /\ state # "partial"

\* Only the run of a node brings its result.
ResultsByRuns == \A n \in Node : card[n] \in Waiting \cup {"again"} => Untaken(n)

\* The stages stand on the results of the nodes before them.
ResultsFirst ==
  /\ stage >= Checkpoint1 => drafted
  /\ stage >= ReleasePlanning => finalized
  /\ stage >= Checkpoint2 => release

\* What admits a node and is not lost again.
Earned(n) ==
  /\ n \in Slice => mode = "full" \/ (mode = "canary" /\ n \in chosen)
  /\ n \in Batch => scope.mode = "auto_full" /\ mode = "full" /\ stage >= StageOf(n)
  /\ \A p \in Parents(n) : ParentDone(Snapshot, p)

AllEarned == \A n \in Node : card[n] \in Offering \/ worker[n] # "off" => Earned(n)

\* Cards are of nodes the scope provides; with Reduce come all Passes.
Provided ==
  /\ "sync" \in graph => scope.provider = "sync"
  /\ \A n \in Node : n = "sync" /\ card[n] # "none" => scope.provider = "sync"
  /\ "reduce" \in graph => Slice \subseteq graph

\* The coordinator's copy is of an earlier record.
CopyBehind ==
  co # "idle" =>
    /\ seen.stage \in Stage /\ seen.stage <= stage
    /\ seen.mode = "full" => mode = "full"
    /\ seen.mode = "canary" => mode = "full" \/ (mode = "canary" /\ seen.chosen = chosen)
    /\ seen.skipped \subseteq skipped
    /\ \A c \in {Checkpoint1, Checkpoint2} : seen.approved[c] => approved[c]

\* A coordinator whose copy is past the Passes offers none, and has taken back
\* those it has gone through.
CopySettled ==
  co = "project" /\ scope.mode = "auto_full" /\ seen.stage >= Reducing =>
    /\ Slice \subseteq done \cup seen.skipped
    /\ \A s \in Slice \cap (graph \ todo) : card[s] \notin Offering

\* From the offer of Reduce on no Pass is offered.
PassesOver ==
  drafted \/ card["reduce"] \in Offering \/ worker["reduce"] # "off" =>
    /\ stage >= Reducing /\ scope.mode = "auto_full"
    /\ \A s \in Slice : card[s] \notin Offering
    /\ co = "project" => todo \cap Slice = {} \/ Slice \subseteq done \cup seen.skipped

ReadyInv ==
  /\ ResultsByRuns /\ ResultsFirst /\ AllEarned
  /\ Provided /\ CopyBehind /\ CopySettled /\ PassesOver

\* What else a ledger operation of these processes never takes back.
KeptToo ==
  /\ scope' = scope /\ skipped \subseteq skipped'
  /\ mode = "full" => mode' = "full"
  /\ mode = "canary" => mode' = "full" \/ (mode' = "canary" /\ chosen' = chosen)
  /\ \A c \in {Checkpoint1, Checkpoint2} : approved[c] => approved'[c]

LEMMA LedgerKeeps ==
  ASSUME TypeOK, NotYetDecided, LedgerMove \/ UNCHANGED vars
  PROVE  KeptToo
  <1> USE DEF KeptToo
  <1>1. /\ mode \in {"disabled", "canary", "full"} /\ stage \in 0..12
        /\ approved \in [{Checkpoint1, Checkpoint2} -> BOOLEAN]
    BY DEF TypeOK, Stage
  <1>2. CASE UNCHANGED <<plan, dispatch, releases>>
    BY <1>2 DEF plan, dispatch, releases
  <1>3. ASSUME NEW S \in SUBSET Slice, ArmCanary(S) \/ SkipPasses(S) PROVE KeptToo
    BY <1>3 DEF ArmCanary, SkipPasses, plan, releases
  <1>4. CASE SkipCanary \/ PromoteCanary
    BY <1>4 DEF SkipCanary, PromoteCanary, plan, releases
  <1>5. ASSUME NEW t \in Stage, Reconcile(t) PROVE KeptToo
    <2>1. t = stage + 1 /\ UNCHANGED <<scope, mode, chosen, skipped>>
      BY <1>5 DEF Reconcile, dispatch
    <2>2. approved' = [c \in {Checkpoint1, Checkpoint2} |-> approved[c] /\ c # t]
      BY <1>5 DEF Reconcile
    <2>3. \A c \in {Checkpoint1, Checkpoint2} : c = t => ~approved[c]
      BY <1>1, <2>1 DEF NotYetDecided, Checkpoint1, Checkpoint2
    <2> QED
      BY <2>1, <2>2, <2>3
  <1>6. ASSUME NEW c \in {Checkpoint1, Checkpoint2}, Approve(c) \/ ApproveAutomatic(c)
        PROVE  KeptToo
    BY <1>1, <1>6 DEF Approve, ApproveAutomatic, plan, dispatch
  <1>7. CASE Conclude("partial") \/ BindReleasePlan
    BY <1>7 DEF Conclude, BindReleasePlan, plan, dispatch, releases
  <1>8. CASE PauseNext \/ WorkNext \/ BatchNext
    BY <1>2, <1>8, PauseFrame, WorkFrame, BatchFrame
  <1>9. CASE UNCHANGED vars
    BY <1>2, <1>9 DEF vars
  <1> QED
    BY <1>3, <1>4, <1>5, <1>6, <1>7, <1>8, <1>9 DEF LedgerMove

\* The nodes that every workflow has, and their order.
LEMMA NodeOrder ==
  /\ ChainName \ {"sync"} \subseteq Batch /\ Batch \subseteq Node /\ Slice \subseteq Node
  /\ \A s \in Slice : Rank(s) = 0
  /\ \A n \in Batch : Rank(n) \in 1..8
  /\ Rank("reduce") = 1 /\ Rank("plan") = 4 /\ Rank("validate2") = 5
  /\ "plan" \in Parents("validate2")
  <1>1. DOMAIN Chain = 1..8
    BY DEF Chain
  <1>2. /\ Chain[1] = "reduce" /\ Chain[2] = "validate1" /\ Chain[3] = "build"
        /\ Chain[4] = "plan" /\ Chain[5] = "validate2" /\ Chain[6] = "apply"
        /\ Chain[7] = "sync" /\ Chain[8] = "accept"
    BY DEF Chain
  <1>3. \A n \in ChainName : \E i \in 1..8 : Chain[i] = n
    BY <1>2 DEF ChainName
  <1>4. ChainName \ {"sync"} \subseteq Batch
    BY <1>1, <1>3 DEF Batch
  <1>5. \A n \in Batch : n \in ChainName /\ n \notin Slice
    BY ChainNodes
  <1>6. \A n \in Batch : Rank(n) = CHOOSE i \in 1..8 : Chain[i] = n
    BY <1>1, <1>5 DEF Rank
  <1>7. \A n \in Batch : Rank(n) \in 1..8 /\ Chain[Rank(n)] = n
    BY <1>3, <1>5, <1>6
  <1>8. \A i \in 1..8 : /\ Chain[i] = "reduce" => i = 1
                        /\ Chain[i] = "plan" => i = 4
                        /\ Chain[i] = "validate2" => i = 5
    BY <1>2
  <1>9. {"reduce", "plan", "validate2"} \subseteq Batch
    BY <1>4 DEF ChainName
  <1>10. Rank("reduce") = 1 /\ Rank("plan") = 4 /\ Rank("validate2") = 5
    BY <1>7, <1>8, <1>9
  <1>11. "plan" \in Parents("validate2")
    <2>1. "plan" \in Present /\ \A k \in Present : Rank(k) \in 1..8
      BY <1>7, <1>9 DEF Present
    <2>2. \A k \in Present : Rank(k) < Rank("validate2") => Rank(k) <= Rank("plan")
      BY <1>10, <2>1
    <2>3. "validate2" \notin Slice /\ "validate2" # "reduce"
      BY <1>5, <1>9
    <2> QED
      BY <1>10, <2>1, <2>2, <2>3 DEF Parents
  <1>12. \A s \in Slice : Rank(s) = 0
    BY DEF Rank
  <1> QED
    BY <1>4, <1>7, <1>10, <1>11, <1>12 DEF Node

\* What a step does to the results and the stage: nothing, or one of the two
\* who move the stage and the writer of a result acts.
LEMMA RecordStep ==
  ASSUME IInv, bound, [ControlNext]_allVars
  PROVE  \/ /\ UNCHANGED <<done, drafted, stage, finalized, release>>
            /\ state' = "partial" => state = "partial"
         \/ \E t \in Stage : StageDue(t) /\ Reconcile(t)
         \/ \E n \in Node : Write(n) \/ Commit(n)
  <1> DEFINE Same == /\ UNCHANGED <<done, drafted, stage, finalized, release>>
                     /\ state' = "partial" => state = "partial"
  <1>1. state = "cancelled" => resumeAt = stage
    BY DEF IInv, Bookkeeping
  <1>2. UNCHANGED vars => Same
    BY DEF vars, place, releases, work
  <1>3. PauseNext => Same
    <2>1. PauseNext => stage' = stage /\ (state' = "partial" => state = "partial")
      BY <1>1 DEF PauseNext, Cancel, Resume, LatchPause, ContinueWorkflow, place
    <2> QED
      BY <2>1, PauseFrame DEF releases, work
  <1>4. BatchNext \/ CanaryNext => Same
    BY BatchFrame, CanaryFrame DEF place, releases, work
  <1>5. \A c \in {Checkpoint1, Checkpoint2} : Approve(c) \/ ApproveAutomatic(c) => Same
    BY DEF Approve, ApproveAutomatic, place, work
  <1>6. InitializeSlices => Same
    BY DEF InitializeSlices, place, releases
  <1>7. \A b \in Reached : b \in Boundary
    BY DEF Reached, Ready, Boundary, ExactPlan, CanaryRun, PassRun, Gate1, BuildFinalize,
       Gate2, ReleaseApply, ReleaseSync
  <1>8. CoSettle => Same \/ \E t \in Stage : StageDue(t) /\ Reconcile(t)
    BY <1>3, <1>4, <1>7 DEF CoSettle, PauseNext, CanaryNext
  <1>9. CoHold => Same
    BY <1>2, <1>3, <1>7 DEF CoHold, PauseNext
  <1>10. CoNext => Same \/ \E t \in Stage : StageDue(t) /\ Reconcile(t)
    <2>1. CoBegin \/ CoGraph \/ CoBind \/ (\E n \in Node : CoProject(n)) \/ CoEnd \/ CoRefused => Same
      BY <1>2 DEF CoBegin, CoGraph, CoBind, CoProject, CoEnd, CoRefused
    <2>2. (\E s \in Slice : CoReclaim(s) \/ CoGiveBack(s) \/ CoRefresh(s)) => Same
      BY <1>2 DEF CoReclaim, CoGiveBack, CoRefresh
    <2> QED
      BY <1>6, <1>8, <1>9, <2>1, <2>2 DEF CoNext, CoInitialize
  <1>11. \A n \in Node : WorkerStep(n) => Same \/ Write(n) \/ Commit(n)
    BY <1>2, <1>4, <1>5 DEF WorkerStep, Check, Validate, Refuse, ApproveStep, WorkerFail, Lease,
       PassFail, PassLeaves, BatchNext
  <1>12. OperatorNext => Same
    BY <1>2, <1>3, <1>4 DEF OperatorNext, OpCancel, OpCancelAgain, OpBatch, OpPark, OpResume,
       OpReopen, PauseNext, BatchNext
  <1>13. PersonDecides => Same
    BY <1>3, <1>4, <1>5 DEF PersonDecides, PauseNext, CanaryNext
  <1>14. CoCrash \/ OpCrash \/ UNCHANGED allVars => Same
    BY <1>2 DEF CoCrash, OpCrash, allVars
  <1>15. \A n \in Node : Claim(n) \/ WorkerDies(n) \/ NativeEnd(n) => Same
    BY <1>2 DEF Claim, WorkerDies, NativeEnd
  <1>16. RefillNext \/ (\E s \in Slice : LateEnds(s)) => Same
    BY <1>2, <1>3, RefillMoves DEF LateEnds
  <1> HIDE DEF Same
  <1>17. Same \/ (\E t \in Stage : StageDue(t) /\ Reconcile(t)) \/ (\E n \in Node : Write(n) \/ Commit(n))
    BY <1>10, <1>11, <1>12, <1>13, <1>14, <1>15, <1>16 DEF ControlNext
  <1> QED
    BY <1>17 DEF Same

\* A result comes from a run of its node alone, and a stage after it.
LEMMA ResultsStep ==
  ASSUME IInv, ControlInv, ReadyInv, Kept, KeptToo, CardMoves, [ControlNext]_allVars
  PROVE  ResultsByRuns' /\ ResultsFirst'
  <1>1. /\ stage \in 0..12 /\ TypeOK
    BY DEF IInv, TypeOK, Stage
  <1>2. ResultsByRuns /\ ResultsFirst /\ AllEarned /\ WorkersHaveRuns /\ scope' = scope
    BY DEF ReadyInv, ControlInv, KeptToo
  <1>3. \A n \in Node : card'[n] \in Waiting \cup {"again"} => Untaken(n) /\ worker[n] = "off"
    <2>1. \A n \in Slice \ done : Untaken(n)
      BY ChainNodes DEF Untaken, ChainName
    <2>2. ASSUME NEW n \in Node, card'[n] \in Waiting \cup {"again"}
          PROVE  Untaken(n)
      <3>1. card'[n] \in Waiting => card[n] \in Waiting
        BY DEF CardMoves
      <3>2. card'[n] = "again" => card[n] = "again" \/ n \in Slice \ done
        BY DEF CardMoves, OfferedAgain
      <3> QED
        BY <1>2, <2>1, <2>2, <3>1, <3>2 DEF ResultsByRuns
    <2>3. \A n \in Node : card'[n] \in Waiting \cup {"again"} => worker[n] = "off"
      BY DEF CardMoves, Idle
    <2> QED
      BY <2>2, <2>3
  <1> USE DEF Checkpoint1, Checkpoint2, Reducing, BuildFinalizing, ReleasePlanning, Applying,
          Indexing, Validating, Completed
  <1>4. ASSUME UNCHANGED <<done, drafted, stage, finalized, release>>,
               state' = "partial" => state = "partial"
        PROVE  ResultsByRuns' /\ ResultsFirst'
    <2>1. \A n \in Node : Untaken(n) => Untaken(n)'
      BY <1>2, <1>4 DEF Untaken
    <2>2. ResultsFirst'
      BY <1>2, <1>4 DEF ResultsFirst
    <2> QED
      BY <1>3, <2>1, <2>2 DEF ResultsByRuns
  <1>5. ASSUME NEW t \in Stage, StageDue(t), Reconcile(t)
        PROVE  ResultsByRuns' /\ ResultsFirst'
    <2>1. /\ t = stage + 1 /\ stage' = t
          /\ t \in {4, 6, 7, 9, 11}
          /\ t = 7 => finalized
          /\ t = 11 => scope.provider = "skip"
      BY <1>5 DEF StageDue, Reconcile
    <2>2. UNCHANGED <<done, drafted, finalized, release, state>>
      BY <1>5 DEF Reconcile, work
    <2>3. \A n \in Node : Untaken(n) => Untaken(n)'
      BY <1>1, <1>2, <2>1, <2>2 DEF Untaken
    <2>4. ResultsFirst'
      BY <1>1, <1>2, <2>1, <2>2 DEF ResultsFirst
    <2> QED
      BY <1>3, <2>3, <2>4 DEF ResultsByRuns
  <1>6. ASSUME NEW m \in Node, Write(m)
        PROVE  ResultsByRuns' /\ ResultsFirst'
    <2>1. worker[m] # "off"
      BY <1>6 DEF Write
    <2>2. UNCHANGED <<stage, state, release>>
      BY <1>6, WorkFrame DEF Write, WorkNext, place, releases
    <2>3. /\ done' = done \/ (m \in Slice /\ done' = done \cup {m})
          /\ drafted' = drafted \/ m = "reduce"
          /\ finalized' = finalized \/ m = "build"
      BY <1>6 DEF Write, CompleteSlice, Reduce, FinalizeBatch, ApplyRelease, SyncIndex
    <2>4. \A n \in Node : n # m /\ Untaken(n) => Untaken(n)'
      BY <1>2, <2>2, <2>3 DEF Untaken
    <2>5. ResultsFirst'
      BY <1>2, <2>2 DEF ResultsFirst, Kept
    <2> QED
      BY <1>3, <2>1, <2>4, <2>5 DEF ResultsByRuns
  <1>7. ASSUME NEW m \in Node, Commit(m)
        PROVE  ResultsByRuns' /\ ResultsFirst'
    <2>1. worker[m] # "off"
      BY <1>7 DEF Commit
    <2>2. Earned(m)
      BY <1>2, <2>1 DEF AllEarned
    <2>3. UNCHANGED <<done, drafted, finalized>>
      BY <1>7 DEF Commit, Reconcile, Conclude, BindReleasePlan, work
    <2>4. /\ state' = state \/ m = "accept"
          /\ release' = release \/ m = "plan"
      BY <1>7 DEF Commit, Reconcile, Conclude, BindReleasePlan, place, releases
    <2>5. \/ stage' = stage
          \/ m = "validate1" /\ stage' = 5 /\ stage = 4 /\ drafted
          \/ m = "validate2" /\ stage' = 8 /\ stage = 7
          \/ m = "apply" /\ stage' = 10 /\ stage = 9
          \/ m = "sync" /\ stage' = 11 /\ stage = 10
          \/ m = "accept" /\ stage' = 12 /\ stage = 11
      BY <1>1, <1>7 DEF Commit, Reconcile, Conclude, BindReleasePlan, place, Admits
    <2>6. m = "validate2" => release
      <3>1. ParentDone(Snapshot, "plan") => CompletedBy(Snapshot, "plan")
        BY NodeOrder, ChainNodes DEF ParentDone, ChainName
      <3>2. CompletedBy(Snapshot, "plan") <=> release
        BY NodeOrder, ChainNodes DEF CompletedBy, ChainName, Snapshot
      <3> QED
        BY <2>2, <3>1, <3>2, NodeOrder DEF Earned
    <2>7. \A n \in Node : n # m /\ Untaken(n) => Untaken(n)'
      BY <1>1, <1>2, <2>3, <2>4, <2>5 DEF Untaken
    <2>8. ResultsFirst'
      BY <1>1, <1>2, <2>3, <2>5, <2>6 DEF ResultsFirst, Kept
    <2> QED
      BY <1>3, <2>1, <2>7, <2>8 DEF ResultsByRuns
  <1> QED
    BY <1>4, <1>5, <1>6, <1>7, RecordStep DEF ControlInv

\* What was earned stays earned.
LEMMA EarnedStays ==
  ASSUME TypeOK, TypeOK', Kept, KeptToo, NEW n \in Node, Earned(n)
  PROVE  Earned(n)'
  <1>1. stage \in 0..12 /\ stage' \in 0..12 /\ stage' >= stage
    BY DEF TypeOK, Stage, Kept
  <1>2. scope' = scope
    BY DEF KeptToo
  <1>3. n \in Slice => mode' = "full" \/ (mode' = "canary" /\ n \in chosen')
    BY DEF Earned, KeptToo
  <1>4. n \in Batch => StageOf(n) \in Nat
    BY ChainNodes DEF StageOf, ChainName, Reducing, BuildFinalizing, ReleasePlanning, Applying,
       Indexing, Validating
  <1>5. n \in Batch => scope'.mode = "auto_full" /\ mode' = "full" /\ stage' >= StageOf(n)
    BY <1>1, <1>2, <1>4 DEF Earned, KeptToo
  <1>6. Parents(n)' = Parents(n) /\ Parents(n) \subseteq Node
    <2>1. Present' = Present /\ Present \subseteq Batch
      BY <1>2 DEF Present
    <2> QED
      BY <2>1 DEF Parents, Node
  <1>7. ASSUME NEW p \in Node, ParentDone(Snapshot, p) PROVE ParentDone(Snapshot, p)'
    <2>1. CompletedBy(Snapshot, p) => CompletedBy(Snapshot, p)'
      BY CompletedStays
    <2>2. CASE p = "validate1"
      <3>1. p \notin Slice
        BY <2>2, ChainNodes DEF ChainName
      <3>2. ParentDone(Snapshot, p) <=> approved[Checkpoint1]
        BY <2>2, <3>1 DEF ParentDone, Snapshot
      <3>3. ParentDone(Snapshot, p)' <=> approved'[Checkpoint1]
        BY <2>2, <3>1 DEF ParentDone, Snapshot
      <3> QED
        BY <1>7, <3>2, <3>3 DEF KeptToo
    <2>3. CASE p \in Slice
      <3>1. p # "validate1"
        BY <2>3, ChainNodes DEF ChainName
      <3> QED
        BY <1>7, <2>3, <3>1 DEF ParentDone, Snapshot, KeptToo, Kept
    <2>4. CASE p # "validate1" /\ p \notin Slice
      BY <1>7, <2>1, <2>4 DEF ParentDone
    <2> QED
      BY <2>2, <2>3, <2>4
  <1>8. \A p \in Parents(n) : ParentDone(Snapshot, p)'
    BY <1>6, <1>7 DEF Earned
  <1> QED
    BY <1>3, <1>5, <1>6, <1>8 DEF Earned

\* A card is offered, or left offered, by the coordinator's projection, and then
\* its copy admits the node.
Offered(n) ==
  /\ CoProject(n)
  /\ Eligible(seen, n) /\ ~CompletedBy(seen, n) /\ n \notin seen.skipped

LEMMA ProjectOffers ==
  ASSUME ControlTypeOK, NEW n \in Node, CoProject(n)
  PROVE  /\ card'[n] \in Offering => Offered(n)
         /\ \A m \in Node : m # n /\ card'[m] \in Offering => card[m] \in Offering
         /\ \A m \in Node : card'[m] # "none" => card[m] # "none" \/ m \in graph
  <1> USE DEF Offering
  <1>1. card \in [Node -> CardState]
    BY DEF ControlTypeOK, CardState
  <1>2. n \in graph /\ Descendants(n) \subseteq graph
    BY DEF CoProject, ControlTypeOK, Descendants
  <1>3. CASE CompletedBy(seen, n) /\ card[n] = "archived" /\ UNCHANGED native
    BY <1>3 DEF native
  <1>4. CASE Close(n)
    BY <1>1, <1>2, <1>4 DEF Close
  <1>5. CASE Archive(n)
    BY <1>1, <1>2, <1>5 DEF Archive
  <1>6. CASE ArchiveAll(n)
    BY <1>1, <1>2, <1>6 DEF ArchiveAll
  <1>7. CASE ~CompletedBy(seen, n) /\ n \notin seen.skipped /\ Offer(n)
    <2>1. \A m \in Node : m # n => card'[m] = card[m]
      BY <1>1, <1>7 DEF Offer
    <2>2. card'[n] \in Offering => Eligible(seen, n)
      BY <1>1, <1>7 DEF Offer, Hold, CardState
    <2>3. card'[n] # "none" => card[n] # "none" \/ n \in graph
      BY <1>2
    <2> QED
      BY <1>2, <1>7, <2>1, <2>2, <2>3 DEF Offered
  <1> QED
    BY <1>3, <1>4, <1>5, <1>6, <1>7 DEF CoProject

\* Or by the refill, and then the record admits it.
Refilled(n) == n \in Slice /\ Refill(n)

LEMMA CardOrigins ==
  ASSUME ControlTypeOK, [ControlNext]_allVars
  PROVE  /\ \A m \in Node : card'[m] \in Offering => card[m] \in Offering \/ Offered(m) \/ Refilled(m)
         /\ \A m \in Node : card'[m] # "none" => card[m] # "none" \/ m \in graph
  <1> DEFINE Origin ==
        /\ \A m \in Node : card'[m] \in Offering => card[m] \in Offering \/ Offered(m) \/ Refilled(m)
        /\ \A m \in Node : card'[m] # "none" => card[m] # "none" \/ m \in graph
  <1> USE DEF Offering
  <1>1. card \in [Node -> CardState]
    BY DEF ControlTypeOK, CardState
  <1>2. CASE card' = card
    BY <1>2
  <1>3. ASSUME NEW n \in Node, CoProject(n) PROVE Origin
    BY <1>3, ProjectOffers
  <1>4. CASE CoBind
    BY <1>1, <1>4 DEF CoBind
  <1>5. ASSUME NEW n \in Node, Claim(n) \/ NativeEnd(n) PROVE Origin
    BY <1>1, <1>5 DEF Claim, NativeEnd
  <1>6. CASE OpPark
    BY <1>1, <1>6 DEF OpPark, Hold, CardState
  <1>7. CASE CoNext /\ ~CoBind /\ ~(\E n \in Node : CoProject(n))
    BY <1>2, <1>7 DEF CoNext, CoBegin, CoInitialize, CoSettle, CoGraph, CoHold, CoEnd,
       CoRefused, CoReclaim, CoGiveBack, CoRefresh, control, native
  <1>8. ASSUME NEW n \in Node, WorkerStep(n) \/ WorkerDies(n) PROVE card' = card
    BY <1>8 DEF WorkerStep, WorkerDies, Write, Check, Validate, Refuse, Commit,
       ApproveStep, WorkerFail, Lease, PassFail, PassLeaves, native
  <1>9. CASE OperatorNext /\ ~OpPark
    BY <1>2, <1>9 DEF OperatorNext, OpCancel, OpCancelAgain, OpBatch, OpResume, OpReopen,
       Uninvolved, native
  <1>10. CASE CoCrash \/ OpCrash \/ PersonDecides \/ UNCHANGED allVars
    BY <1>2, <1>10 DEF CoCrash, OpCrash, PersonDecides, Uninvolved, native, allVars, control
  <1>11. ASSUME NEW s \in Slice, LateEnds(s) PROVE card' = card
    BY <1>11 DEF LateEnds
  <1>12. ASSUME NEW s \in Slice, Acknowledge(s) \/ Refill(s) PROVE Origin
    BY <1>1, <1>12 DEF Acknowledge, Close, Refill, Unblock, Refilled, Node
  <1>13. RefillLatch \/ (\E s \in Slice : RefillGiveBack(s)) => card' = card
    BY DEF RefillLatch, RefillGiveBack, native
  <1> QED
    BY <1>2, <1>3, <1>4, <1>5, <1>6, <1>7, <1>8, <1>9, <1>10, <1>11, <1>12, <1>13
    DEF ControlNext, RefillNext

\* A worker begins with a card that is offered.
LEMMA WorkerOrigins ==
  ASSUME ControlTypeOK, [ControlNext]_allVars, NEW m \in Node, worker'[m] # "off"
  PROVE  worker[m] # "off" \/ card[m] \in Offering
  <1>1. worker \in [Node -> WorkerPlace]
    BY DEF ControlTypeOK, WorkerPlace
  <1>2. ASSUME NEW n \in Node, Claim(n) PROVE worker[m] # "off" \/ card[m] \in Offering
    BY <1>1, <1>2 DEF Claim, Goes, Offering
  <1>3. ASSUME NEW n \in Node, WorkerStep(n) \/ WorkerDies(n) PROVE worker[m] # "off"
    <2>1. worker[n] # "off"
      BY <1>3 DEF WorkerStep, WorkerDies, Write, Check, Validate, Refuse, Commit, ApproveStep,
         WorkerFail, Lease, PassFail, PassLeaves
    <2>2. \E pc \in WorkerPlace : worker' = [worker EXCEPT ![n] = pc]
      BY <1>3 DEF WorkerStep, WorkerDies, Write, Check, Validate, Refuse, Commit, ApproveStep,
         WorkerFail, Lease, PassFail, PassLeaves, Goes, Leaves, WorkerPlace
    <2> QED
      BY <1>1, <2>1, <2>2
  <1>4. ASSUME NEW n \in Node, NativeEnd(n) PROVE worker' = worker
    BY <1>4 DEF NativeEnd, working
  <1>5. (CoNext \/ CoCrash \/ RefillNext) /\ ~(\E s \in Slice : CoReclaim(s)) => worker' = worker
    BY RefillFrame DEF CoNext, CoBegin, CoInitialize, CoSettle, CoGraph, CoBind, CoHold, CoProject,
       CoEnd, CoRefused, CoGiveBack, CoRefresh, CoCrash, control, working
  <1>6. (OperatorNext /\ ~OpBatch) \/ OpCrash \/ PersonDecides => worker' = worker
    BY DEF OperatorNext, OpCancel, OpCancelAgain, OpPark, OpResume, OpReopen, OpCrash,
       PersonDecides, Uninvolved, working
  <1>7. UNCHANGED allVars => worker' = worker
    BY DEF allVars, control, working
  <1>8. (\E s \in Slice : CoReclaim(s) \/ LateEnds(s)) \/ OpBatch => worker[m] # "off"
    BY DEF CoReclaim, LateEnds, OpBatch, Withdraw, working
  <1> QED
    BY <1>2, <1>3, <1>4, <1>5, <1>6, <1>7, <1>8 DEF ControlNext, OperatorNext

\* What the refill offers, the record has earned.
LEMMA RefilledIsEarned ==
  ASSUME NEW n, Refilled(n)
  PROVE  Earned(n)
  <1>1. n \in Slice /\ n \notin Batch /\ Parents(n) = {} /\ Allows(Snapshot, n, FALSE)
    BY ChainNodes DEF Refilled, Refill, PassAdmitted, Parents
  <1> QED
    BY <1>1 DEF Earned, Allows, Snapshot

\* What an old copy admitted, the record has earned.
LEMMA OfferedIsEarned ==
  ASSUME IInv, ControlInv, ReadyInv, NEW n \in Node, Offered(n)
  PROVE  Earned(n)
  <1>1. /\ co = "project" /\ Eligible(seen, n) /\ Allows(seen, n, FALSE)
        /\ \A p \in Parents(n) : ParentDone(seen, p)
    BY DEF Offered, CoProject, Eligible
  <1>2. /\ seen.stage \in 0..12 /\ stage \in 0..12 /\ seen.stage <= stage
        /\ seen.mode = "full" => mode = "full"
        /\ seen.mode = "canary" => mode = "full" \/ (mode = "canary" /\ seen.chosen = chosen)
        /\ seen.skipped \subseteq skipped
        /\ seen.approved[Checkpoint1] => approved[Checkpoint1]
    BY <1>1 DEF IInv, TypeOK, Stage, ReadyInv, CopyBehind
  <1>3. \A p \in Node : CompletedBy(seen, p) => CompletedBy(Snapshot, p)
    BY <1>1 DEF ControlInv, CopyStillTrue
  <1>4. n \in Slice => mode = "full" \/ (mode = "canary" /\ n \in chosen)
    BY <1>1, <1>2 DEF Allows
  <1>5. ASSUME n \in Batch
        PROVE  scope.mode = "auto_full" /\ mode = "full" /\ stage >= StageOf(n)
    <2>1. n \in ChainName /\ n \notin Slice
      BY <1>5, ChainNodes
    <2>2. /\ scope.mode = "auto_full" /\ seen.mode = "full"
          /\ seen.stage = StageOf(n) \/ (n = "validate2" /\ seen.stage = Checkpoint2)
      BY <1>1, <2>1 DEF Allows
    <2>3. n = "validate2" => StageOf(n) = 7
      BY DEF StageOf, ReleasePlanning
    <2> QED
      BY <1>2, <2>2, <2>3 DEF Checkpoint2
  <1>6. ASSUME NEW p \in Parents(n) PROVE ParentDone(Snapshot, p)
    <2>1. p \in Node /\ ParentDone(seen, p)
      BY <1>1 DEF Parents, Present, Node
    <2>2. CASE p = "validate1"
      BY <1>2, <2>1, <2>2 DEF ParentDone, Snapshot
    <2>3. CASE p \in Slice
      <3>1. p # "validate1"
        BY <2>3, ChainNodes DEF ChainName
      <3> QED
        BY <1>2, <2>1, <2>3, <3>1 DEF ParentDone, Snapshot
    <2>4. CASE p # "validate1" /\ p \notin Slice
      BY <1>3, <2>1, <2>4 DEF ParentDone
    <2> QED
      BY <2>2, <2>3, <2>4
  <1> QED
    BY <1>4, <1>5, <1>6 DEF Earned

\* Whatever is offered or worked on after a step was earned before it.
LEMMA AllEarnedStep ==
  ASSUME IInv, TypeOK', ControlInv, ReadyInv, Kept, KeptToo, [ControlNext]_allVars
  PROVE  AllEarned'
  <1> SUFFICES ASSUME NEW n \in Node, card'[n] \in Offering \/ worker'[n] # "off"
               PROVE  Earned(n)'
    BY DEF AllEarned
  <1>1. TypeOK /\ ControlTypeOK /\ AllEarned
    BY DEF IInv, ControlInv, ReadyInv
  <1>2. card[n] \in Offering \/ worker[n] # "off" \/ Offered(n) \/ Refilled(n)
    BY <1>1, CardOrigins, WorkerOrigins
  <1>3. Earned(n)
    BY <1>1, <1>2, OfferedIsEarned, RefilledIsEarned DEF AllEarned
  <1> QED
    BY <1>1, <1>3, EarnedStays

\* The graph is kept, dropped, or derived from the copy.
LEMMA GraphStep ==
  ASSUME [ControlNext]_allVars
  PROVE  graph' = graph \/ graph' = {} \/ (co # "idle" /\ graph' = Graph(seen))
  <1>1. CoNext => graph' = graph \/ graph' = {} \/ (co # "idle" /\ graph' = Graph(seen))
    BY DEF CoNext, CoBegin, CoInitialize, CoSettle, CoGraph, CoBind, CoHold, CoProject, CoEnd,
       CoRefused, CoReclaim, CoGiveBack, CoRefresh, CoIdle, control, coordinator
  <1>2. CoCrash => graph' = {}
    BY DEF CoCrash, CoIdle
  <1>3. \A n \in Node : Claim(n) \/ WorkerStep(n) \/ WorkerDies(n) \/ NativeEnd(n) => graph' = graph
    BY DEF Claim, WorkerStep, WorkerDies, NativeEnd, Write, Check, Validate, Refuse, Commit,
       ApproveStep, WorkerFail, Lease, PassFail, PassLeaves, Still, coordinator
  <1>4. OperatorNext \/ OpCrash \/ PersonDecides => graph' = graph
    BY DEF OperatorNext, OpCancel, OpCancelAgain, OpBatch, OpPark, OpResume, OpReopen, OpCrash,
       PersonDecides, Uninvolved, coordinator
  <1>5. UNCHANGED allVars => graph' = graph
    BY DEF allVars, control, coordinator
  <1>6. RefillNext \/ (\E s \in Slice : LateEnds(s)) => graph' = graph
    BY RefillFrame DEF LateEnds, Still, coordinator
  <1> QED
    BY <1>1, <1>2, <1>3, <1>4, <1>5, <1>6 DEF ControlNext

LEMMA ProvidedStep ==
  ASSUME ControlInv, ReadyInv, KeptToo, [ControlNext]_allVars
  PROVE  Provided'
  <1>1. Provided /\ ControlTypeOK /\ scope' = scope
    BY DEF ReadyInv, ControlInv, KeptToo
  <1>2. ASSUME co # "idle"
        PROVE  /\ "sync" \in Graph(seen) => scope.provider = "sync"
               /\ "reduce" \in Graph(seen) => Slice \subseteq Graph(seen)
    <2>1. seen.chosen \subseteq Slice /\ "sync" \notin Slice /\ "reduce" \notin Slice
      BY <1>2, ChainNodes DEF ControlInv, CopyStillTrue, ChainName
    <2> QED
      BY <2>1 DEF Graph, Present
  <1>3. /\ "sync" \in graph' => scope.provider = "sync"
        /\ "reduce" \in graph' => Slice \subseteq graph'
    BY <1>1, <1>2, GraphStep DEF Provided
  <1>4. \A n \in Node : n = "sync" /\ card'[n] # "none" => scope.provider = "sync"
    BY <1>1, CardOrigins DEF Provided
  <1> QED
    BY <1>1, <1>3, <1>4 DEF Provided

LEMMA CopyBehindStep ==
  ASSUME TypeOK, TypeOK', ReadyInv, Kept, KeptToo, [ControlNext]_allVars
  PROVE  CopyBehind'
  <1> SUFFICES ASSUME co' # "idle"
               PROVE  /\ seen'.stage \in Stage /\ seen'.stage <= stage'
                      /\ seen'.mode = "full" => mode' = "full"
                      /\ seen'.mode = "canary" =>
                           mode' = "full" \/ (mode' = "canary" /\ seen'.chosen = chosen')
                      /\ seen'.skipped \subseteq skipped'
                      /\ \A c \in {Checkpoint1, Checkpoint2} : seen'.approved[c] => approved'[c]
    BY DEF CopyBehind
  <1>1. stage \in 0..12 /\ stage' \in 0..12 /\ stage' >= stage
    BY DEF TypeOK, Stage, Kept
  <1>2. CASE co # "idle" /\ seen' = seen
    BY <1>1, <1>2 DEF ReadyInv, CopyBehind, KeptToo, Stage
  <1>3. CASE seen' = Snapshot'
    <2>1. /\ seen'.stage = stage' /\ seen'.mode = mode' /\ seen'.chosen = chosen'
          /\ seen'.skipped = skipped' /\ seen'.approved = approved'
      BY <1>3 DEF Snapshot
    <2> QED
      BY <1>1, <2>1 DEF Stage
  <1> QED
    BY <1>2, <1>3, CopyStep

\* The coordinator comes to the cards with a copy of the record as it is, and
\* then goes through them, each once.
LEMMA ProjectingStep ==
  ASSUME [ControlNext]_allVars, co' = "project"
  PROVE  \/ /\ co # "project" /\ seen' = Snapshot' /\ card' = card /\ graph' = graph
            /\ todo' = {n \in graph : card[n] # "done"}
         \/ /\ co = "project" /\ seen' = seen /\ graph' = graph
            /\ todo' = todo \/ \E n \in Node : CoProject(n) /\ todo' = todo \ {n}
  <1>1. CASE CoHold
    BY <1>1 DEF CoHold, native
  <1>2. ASSUME NEW n \in Node, CoProject(n)
        PROVE  co = "project" /\ seen' = seen /\ graph' = graph /\ todo' = todo \ {n}
    BY <1>2 DEF CoProject
  <1>3. CoNext /\ ~CoHold => \E n \in Node : CoProject(n)
    BY DEF CoNext, CoBegin, CoInitialize, CoSettle, CoGraph, CoBind, CoEnd, CoRefused, CoReclaim,
       CoGiveBack, CoRefresh, CoIdle, Settling, control, coordinator
  <1>4. ~CoCrash
    BY DEF CoCrash, CoIdle
  <1>5. \A n \in Node : Claim(n) \/ WorkerStep(n) \/ WorkerDies(n) \/ NativeEnd(n) =>
                           UNCHANGED coordinator
    BY DEF Claim, WorkerStep, WorkerDies, NativeEnd, Write, Check, Validate, Refuse, Commit,
       ApproveStep, WorkerFail, Lease, PassFail, PassLeaves, Still, coordinator
  <1>6. OperatorNext \/ OpCrash \/ PersonDecides => UNCHANGED coordinator
    BY DEF OperatorNext, OpCancel, OpCancelAgain, OpBatch, OpPark, OpResume, OpReopen, OpCrash,
       PersonDecides, Uninvolved, coordinator
  <1>7. UNCHANGED allVars => UNCHANGED coordinator
    BY DEF allVars, control
  <1>8. UNCHANGED coordinator => co = "project" /\ seen' = seen /\ graph' = graph /\ todo' = todo
    BY DEF coordinator
  <1>9. RefillNext \/ (\E s \in Slice : LateEnds(s)) => UNCHANGED coordinator
    BY RefillFrame DEF LateEnds, Still
  <1> QED
    BY <1>1, <1>2, <1>3, <1>4, <1>5, <1>6, <1>7, <1>8, <1>9 DEF ControlNext

\* Past the Passes, and bound, every slice is settled in the record.
LEMMA SlicesSettled ==
  ASSUME IInv', bound', scope'.mode = "auto_full", stage' >= Reducing
  PROVE  Slice \subseteq done' \cup skipped'
  <1>1. stage' \in 0..12 /\ Place' = stage'
    BY DEF IInv, TypeOK, Stage, Bookkeeping, Place
  <1> QED
    BY <1>1 DEF IInv, CoverageHolds, Reducing, Analyzing, Settled

LEMMA CopySettledStep ==
  ASSUME IInv', bound', ControlInv, ReadyInv, Kept, KeptToo, [ControlNext]_allVars
  PROVE  CopySettled'
  <1> SUFFICES ASSUME co' = "project", scope'.mode = "auto_full", seen'.stage >= Reducing
               PROVE  /\ Slice \subseteq done' \cup seen'.skipped
                      /\ \A s \in Slice \cap (graph' \ todo') : card'[s] \notin Offering
    BY DEF CopySettled
  <1>1. CASE co # "project" /\ seen' = Snapshot' /\ card' = card /\ graph' = graph
             /\ todo' = {n \in graph : card[n] # "done"}
    <2>1. seen'.stage = stage' /\ seen'.skipped = skipped'
      BY <1>1 DEF Snapshot
    <2>2. Slice \subseteq done' \cup skipped'
      BY <2>1, SlicesSettled
    <2> QED
      BY <1>1, <2>1, <2>2 DEF Offering
  <1>2. CASE co = "project" /\ seen' = seen /\ graph' = graph
             /\ (todo' = todo \/ \E n \in Node : CoProject(n) /\ todo' = todo \ {n})
    <2>1. /\ Slice \subseteq done \cup seen.skipped
          /\ \A s \in Slice \cap (graph \ todo) : card[s] \notin Offering
      BY <1>2 DEF ReadyInv, CopySettled, KeptToo
    <2>2. \A s \in Slice : ~Offered(s) /\ ~Refilled(s)
      BY <1>2, <2>1, ChainNodes DEF Offered, CompletedBy, ChainName, Refilled, Refill, Refilling
    <2>3. \A s \in Slice : s \in Node
      BY DEF Node
    <2>4. \A s \in Slice : card'[s] \in Offering => card[s] \in Offering
      BY <2>2, <2>3, CardOrigins DEF ControlInv
    <2>5. \A s \in Slice : CoProject(s) => card'[s] \notin Offering
      BY <2>2, <2>3, ProjectOffers DEF ControlInv
    <2>6. \A s \in Slice \cap (graph' \ todo') : s \notin todo \/ CoProject(s)
      BY <1>2
    <2>7. \A s \in Slice \cap (graph' \ todo') : card'[s] \notin Offering
      BY <1>2, <2>1, <2>4, <2>5, <2>6
    <2> QED
      BY <1>2, <2>1, <2>7 DEF Kept
  <1> QED
    BY <1>1, <1>2, ProjectingStep

\* What PassesOver says once Reduce was offered.
NoPassLeft ==
  /\ stage >= Reducing /\ scope.mode = "auto_full"
  /\ \A s \in Slice : card[s] \notin Offering
  /\ co = "project" => todo \cap Slice = {} \/ Slice \subseteq done \cup seen.skipped

\* Reduce is offered after the Passes, which come before it in the graph.
LEMMA ReduceOffered ==
  ASSUME IInv, ControlInv, ReadyInv, Offered("reduce")
  PROVE  NoPassLeft
  <1>1. "reduce" \in Batch /\ "reduce" \in Node /\ "reduce" \notin Slice
    BY NodeOrder, ChainNodes DEF ChainName
  <1>2. /\ co = "project" /\ "reduce" \in todo /\ \A m \in todo : Rank("reduce") <= Rank(m)
        /\ Allows(seen, "reduce", FALSE)
    BY DEF Offered, CoProject, Eligible
  <1>3. scope.mode = "auto_full" /\ seen.stage = Reducing
    BY <1>1, <1>2 DEF Allows, StageOf
  <1>4. stage >= Reducing
    BY <1>2, <1>3 DEF ReadyInv, CopyBehind
  <1>5. todo \cap Slice = {}
    BY <1>2, NodeOrder
  <1>6. Slice \subseteq graph
    BY <1>2 DEF ControlInv, ProcessTypes, ReadyInv, Provided
  <1>7. \A s \in Slice \cap (graph \ todo) : card[s] \notin Offering
    BY <1>2, <1>3 DEF ReadyInv, CopySettled, Reducing
  <1> QED
    BY <1>3, <1>4, <1>5, <1>6, <1>7 DEF NoPassLeft

LEMMA PassesOverStep ==
  ASSUME IInv, IInv', bound', ControlInv, ReadyInv, Kept, KeptToo, [ControlNext]_allVars
  PROVE  PassesOver'
  <1> SUFFICES ASSUME drafted' \/ card'["reduce"] \in Offering \/ worker'["reduce"] # "off"
               PROVE  NoPassLeft'
    BY DEF PassesOver, NoPassLeft
  <1>1. "reduce" \in Node /\ ControlTypeOK /\ todo \subseteq graph
    BY NodeOrder DEF ControlInv, ProcessTypes, ChainName
  <1>2. drafted' => drafted \/ worker["reduce"] # "off"
    <2>1. \A t \in Stage : Reconcile(t) => drafted' = drafted
      BY DEF Reconcile, work
    <2>2. \A n \in Node : Commit(n) => drafted' = drafted
      BY DEF Commit, Reconcile, Conclude, BindReleasePlan, work
    <2>3. \A n \in Node : Write(n) => drafted' = drafted \/ worker["reduce"] # "off"
      BY DEF Write, CompleteSlice, Reduce, FinalizeBatch, ApplyRelease, SyncIndex
    <2> QED
      BY <2>1, <2>2, <2>3, RecordStep DEF ControlInv
  <1>3. drafted \/ card["reduce"] \in Offering \/ worker["reduce"] # "off" \/ Offered("reduce")
    <2>1. ~Refilled("reduce")
      BY ChainNodes DEF Refilled, ChainName
    <2> QED
      BY <1>1, <1>2, <2>1, CardOrigins, WorkerOrigins
  <1>4. NoPassLeft
    BY <1>3, ReduceOffered DEF ReadyInv, PassesOver, NoPassLeft
  <1>5. stage' >= Reducing /\ scope'.mode = "auto_full"
    BY <1>4 DEF NoPassLeft, Kept, KeptToo, IInv, TypeOK, Stage, Reducing
  <1>6. \A s \in Slice : card'[s] \notin Offering
    <2>1. \A s \in Slice : s \in Node /\ ~Offered(s)
      BY <1>4, ChainNodes DEF NoPassLeft, Offered, CoProject, CompletedBy, ChainName, Node
    <2>2. \A s \in Slice : ~Refilled(s)
      BY <1>4 DEF NoPassLeft, Refilled, Refill, Refilling, Analyzing, Reducing
    <2> QED
      BY <1>1, <1>4, <2>1, <2>2, CardOrigins DEF NoPassLeft
  <1>7. ASSUME co' = "project"
        PROVE  todo' \cap Slice = {} \/ Slice \subseteq done' \cup seen'.skipped
    <2>1. CASE co # "project" /\ seen' = Snapshot'
      <3>1. Slice \subseteq done' \cup skipped'
        BY <1>5, SlicesSettled
      <3> QED
        BY <2>1, <3>1 DEF Snapshot
    <2>2. CASE co = "project" /\ seen' = seen /\ todo' \subseteq todo
      BY <1>4, <2>2 DEF NoPassLeft, Kept
    <2> QED
      BY <1>7, <2>1, <2>2, ProjectingStep
  <1> QED
    BY <1>5, <1>6, <1>7 DEF NoPassLeft

LEMMA ReadyInit == ControlInit => ReadyInv
  <1> SUFFICES ASSUME ControlInit PROVE ReadyInv
    OBVIOUS
  <1>1. /\ stage = 3 /\ state = "active" /\ done = {} /\ ~drafted /\ ~finalized /\ ~release
        /\ card = [n \in Node |-> "none"] /\ worker = [n \in Node |-> "off"]
        /\ graph = {} /\ co = "idle"
    BY DEF ControlInit, Init, Analyzing
  <1>2. "reduce" \in Node
    BY NodeOrder DEF ChainName
  <1>3. ResultsByRuns /\ ResultsFirst
    BY <1>1 DEF ResultsByRuns, Untaken, ResultsFirst, Checkpoint1, Checkpoint2, ReleasePlanning,
       Indexing, Validating, Completed
  <1>4. AllEarned /\ Provided /\ PassesOver
    BY <1>1, <1>2 DEF AllEarned, Provided, PassesOver, Offering
  <1>5. CopyBehind /\ CopySettled
    BY <1>1 DEF CopyBehind, CopySettled
  <1> QED
    BY <1>3, <1>4, <1>5 DEF ReadyInv

LEMMA ReadyStep ==
  ASSUME IInv, IInv', ControlInv, ControlInv', ReadyInv, [ControlNext]_allVars
  PROVE  ReadyInv'
  <1>1. TypeOK /\ TypeOK' /\ ControlTypeOK /\ bound' /\ NotYetDecided /\ bound
    BY DEF IInv, ControlInv
  <1>2. Kept
    BY <1>1, ControlMoves, LedgerForward
  <1>3. KeptToo
    BY <1>1, ControlMoves, LedgerKeeps
  <1>4. CardMoves
    BY CardStep DEF ControlInv
  <1>5. ResultsByRuns' /\ ResultsFirst'
    BY <1>2, <1>3, <1>4, ResultsStep
  <1>6. AllEarned' /\ Provided' /\ CopyBehind'
    BY <1>1, <1>2, <1>3, AllEarnedStep, ProvidedStep, CopyBehindStep
  <1>7. CopySettled' /\ PassesOver'
    BY <1>1, <1>2, <1>3, CopySettledStep, PassesOverStep
  <1> QED
    BY <1>5, <1>6, <1>7 DEF ReadyInv

LEMMA ReadyInvariance == ControlSpec => [](IInv /\ ControlInv /\ ReadyInv)
  <1>1. ControlSpec => []IInv
    BY ControlImplements, Invariance, PTL
  <1>2. ControlInit => ReadyInv
    BY ReadyInit
  <1>3. IInv /\ IInv' /\ ControlInv /\ ControlInv' /\ ReadyInv /\ [ControlNext]_allVars => ReadyInv'
    BY ReadyStep
  <1> QED
    BY <1>1, <1>2, <1>3, ControlInvariance, PTL DEF ControlSpec

\* The stage a card was offered for is the stage the record is at: it cannot
\* have been reached later, nor left without the card's run.
LEMMA ReadyIsAdmitted == IInv /\ ControlInv /\ ReadyInv => ReadyFits
  <1> SUFFICES ASSUME IInv, ControlInv, ReadyInv,
                      NEW n \in Node, card[n] \in Offering, Running, NotPaused
               PROVE  Admitted(n, FALSE)
    BY DEF ReadyFits, Offering
  <1>1. /\ stage \in 0..12 /\ stage >= 3
    BY DEF IInv, TypeOK, Stage, Bookkeeping, ControlInv, Analyzing
  <1>2. Earned(n) /\ Untaken(n) /\ ResultsFirst
    BY DEF ReadyInv, AllEarned, ResultsByRuns, Waiting, Offering
  <1>3. /\ Snapshot.paused = ~NotPaused /\ Snapshot.mode = mode /\ Snapshot.stage = stage
        /\ Snapshot.chosen = chosen
    BY DEF Snapshot
  <1>4. ASSUME n \in Slice PROVE Allows(Snapshot, n, FALSE)
    <2>1. ~drafted
      BY <1>4 DEF ReadyInv, PassesOver
    <2>2. stage \in {Analyzing, Reducing}
      BY <1>1, <1>2, <2>1 DEF ResultsFirst, Checkpoint1, Analyzing, Reducing
    <2>3. mode = "full" \/ (mode = "canary" /\ n \in chosen)
      BY <1>2, <1>4 DEF Earned
    <2> QED
      BY <1>3, <1>4, <2>2, <2>3 DEF Allows
  <1>5. ASSUME n \in Batch PROVE Allows(Snapshot, n, FALSE)
    <2>1. n \in ChainName /\ n \notin Slice
      BY <1>5, ChainNodes
    <2>2. scope.mode = "auto_full" /\ mode = "full" /\ stage >= StageOf(n)
      BY <1>2, <1>5 DEF Earned
    <2>3. n = "sync" => scope.provider = "sync"
      BY DEF ReadyInv, Provided, Offering
    <2>4. stage = StageOf(n)
      <3> USE DEF Untaken, ResultsFirst, StageOf, Reducing, Checkpoint1, BuildFinalizing,
              ReleasePlanning, Checkpoint2, Applying, Indexing, Validating, Completed
      <3>1. CASE n \in {"reduce", "validate1"}
        BY <1>1, <1>2, <2>2, <3>1
      <3>2. CASE n \in {"build", "plan", "validate2"}
        BY <1>1, <1>2, <2>2, <3>2
      <3>3. CASE n \in {"apply", "sync", "accept"}
        BY <1>1, <1>2, <2>2, <2>3, <3>3
      <3> QED
        BY <2>1, <3>1, <3>2, <3>3 DEF ChainName
    <2> QED
      BY <1>3, <2>1, <2>2, <2>4 DEF Allows
  <1> QED
    BY <1>2, <1>4, <1>5 DEF Admitted, Earned, Node

\* The cards tell the truth about the record they were projected from: a card
\* is done only on its result, and a ready card of a workflow that may run is
\* admitted by the record as it is, though the coordinator offered it from a
\* copy of it and others have written since.
THEOREM CardsAlwaysTruthful == ControlSpec => []CardsTruthful
  <1>1. IInv /\ ControlInv /\ ReadyInv => CardsTruthful
    BY ReadyIsAdmitted DEF ControlInv, CardsTruthful
  <1> QED
    BY <1>1, ReadyInvariance, PTL
=============================================================================
