---------------------------- MODULE SliceLedger ----------------------------
(***************************************************************************)
(* The Pass-slice ledger of one knowledge-build batch                      *)
(* (hermes_source_units/knowledge_build.py, batch_next_slice and the       *)
(* slice_ and batch_ operations around it).  A batch's tasks are grouped   *)
(* into slices; workers lease a slice, renew the lease, and complete or    *)
(* fail it; a coordinator reclaims expired leases, makes due retries       *)
(* ready, replaces a slice that outgrew its reading budget, and cancels    *)
(* and resumes the whole batch.                                            *)
(*                                                                         *)
(* Every operation runs under the batch's exclusive lock, so it is one     *)
(* step here.  It is not one step on disk: each slice is its own file and  *)
(* the batch record another, written one after the other.  A process that  *)
(* dies in between leaves a prefix of its writes: see Save, NextSliceDies  *)
(* and Reconcile.                                                          *)
(*                                                                         *)
(* Time is kept as what is left of each timer, in ticks; a deadline the    *)
(* code stores is passed when nothing is left.  Three calls read the clock *)
(* before they wait for the lock, so they may judge a deadline by a moment *)
(* up to LockWait ticks old.                                               *)
(*                                                                         *)
(* A worker presents the revision of the slice it was last handed.  A new  *)
(* attempt always is a new revision, and between two attempts only the     *)
(* lease's own heartbeats move it, so the attempt stands for the revision. *)
(* The batch's revision is left out: its callers read it just before, and  *)
(* a call that is refused changes nothing.                                 *)
(*                                                                         *)
(* An operator named X_Y is X with the mistake Y: no definition uses it;   *)
(* it shows what the properties would catch.                               *)
(*                                                                         *)
(* The batch here has no execution plan (execution_plan_ref): every slice  *)
(* file in the batch's directory belongs to it.                            *)
(***************************************************************************)
EXTENDS Integers, FiniteSets

CONSTANTS
  Slice,         \* slice ids, numbers in the order of their file names
  Original,      \* the slices the batch's tasks are first grouped into
  Task,          \* the batch's tasks
  TaskOf,        \* TaskOf[s]: the tasks of slice s
  Replacement,   \* Replacement[s]: the slices remeasuring s splits it into
  Oversize,      \* slices whose measured input exceeds the configured bound
  Worker,        \* worker ids
  None,          \* no worker
  MaxAttempts,   \* slice_config.max_attempts
  Concurrency,   \* slice_config.pass_worker_concurrency
  MaxCapacity,   \* the largest limit set_capacity accepts
  LeaseTicks,    \* slice_config.lease_seconds
  Backoff,       \* TRANSIENT_BACKOFF_SECONDS
  LockWait,      \* how long a call may wait for the lock with an old moment
  MaxResumes,    \* bound: batch resumptions
  MaxCrashes     \* bound: processes that die between two writes

ASSUME SliceAssumption ==
  /\ Slice \subseteq Nat \ {0} /\ IsFiniteSet(Slice)
  /\ Original \subseteq Slice /\ Oversize \subseteq Slice
  /\ TaskOf \in [Slice -> SUBSET Task]
  /\ Replacement \in [Original -> SUBSET (Slice \ Original)]
  /\ \A s \in Original : UNION {TaskOf[r] : r \in Replacement[s]} = TaskOf[s]

\* Grouping puts every task into one slice, and so does splitting a slice.
ASSUME PartitionAssumption ==
  /\ UNION {TaskOf[s] : s \in Original} = Task
  /\ \A s, q \in Original : s # q => TaskOf[s] \cap TaskOf[q] = {}
  /\ \A s \in Original : \A r, q \in Replacement[s] :
       r # q => TaskOf[r] \cap TaskOf[q] = {}

ASSUME WorkerAssumption == None \notin Worker

ASSUME NumberAssumption ==
  /\ MaxAttempts \in Nat \ {0} /\ Concurrency \in Nat \ {0}
  /\ MaxCapacity \in Nat \ {0}
  /\ LockWait \in Nat /\ LeaseTicks \in Nat /\ LeaseTicks > LockWait
  /\ Backoff \in [1..3 -> Nat \ {0}]
  /\ MaxResumes \in Nat /\ MaxCrashes \in Nat

VARIABLES
  slice,     \* slice[s]: the record in the file of slice s
  batch,     \* the batch's control record
  skipped,   \* tasks whose own record says skipped
  claim,     \* claim[w]: the slice and attempt worker w was last handed
  resumes,   \* how often the batch was resumed
  crashes    \* how many operations died between two writes

vars == <<slice, batch, skipped, claim, resumes, crashes>>
----------------------------------------------------------------------------
State == {"absent", "ready", "leased", "retry_wait", "reconcile_required",
          "awaiting_approval", "blocked", "completed", "cancelled"}

\* _failure_class; whole-asset, contract and every unknown code are handled
\* as "permanent" is.
FailureClass == {"rate_limited", "transient", "invalid_model_output",
                 "stale_input", "reading_budget", "awaiting_approval",
                 "permanent"}

\* A timer that is off, or that ran out too long ago to matter.
Off == -LockWait

\* Has the deadline of a timer passed at the moment d ticks ago?
Passed(timer, d) == timer + d <= 0

NoClaim == [slice |-> 0, attempt |-> 0]

Absent == [state |-> "absent", attempt |-> 0, worker |-> None, left |-> Off,
           wait |-> Off, reslices |-> 0, budget |-> FALSE, result |-> 0]

\* The record _ensure_slices and reconcile_slice_inputs create.
Fresh(s) ==
  [Absent EXCEPT !.state = IF s \in Oversize THEN "blocked" ELSE "ready",
                 !.reslices = IF s \in Original THEN 0 ELSE 1]

Init ==
  /\ slice = [s \in Slice |-> Absent]
  /\ batch = [initialized |-> FALSE, ids |-> {}, cancelled |-> FALSE,
              cooldown |-> Off, capacity |-> Concurrency]
  /\ skipped = {}
  /\ claim = [w \in Worker |-> NoClaim]
  /\ resumes = 0
  /\ crashes = 0

\* The slices whose file exists: what _slices reads back.
OnDisk == {s \in Slice : slice[s].state # "absent"}

Leased(f) == {s \in Slice : f[s].state = "leased"}

\* leased_count: an expired lease counts until it is reclaimed.
Occupied_InForceOnly(f) == Cardinality({s \in Leased(f) : f[s].left > 0})

Occupied(f) == Cardinality(Leased(f))

\* Record r in the given state, its lease and its retry time cleared.
Settled(r, st) ==
  [r EXCEPT !.state = st, !.worker = None, !.left = Off, !.wait = Off]

\* The files of f up to some file name, the others as they were in g.
UpTo(last, f, g) == [s \in Slice |-> IF s <= last THEN f[s] ELSE g[s]]

\* Write the changed slices in file-name order, then the batch record; a
\* process that dies on the way leaves the slices up to some file only.
Save(newSlice, newBatch) ==
  \/ /\ slice' = newSlice
     /\ batch' = newBatch
     /\ UNCHANGED crashes
  \/ /\ crashes < MaxCrashes
     /\ crashes' = crashes + 1
     /\ \E last \in Slice : slice' = UpTo(last, newSlice, slice)
     /\ UNCHANGED batch
----------------------------------------------------------------------------
(* Creating the slices.  A second run after a crash accepts the files it    *)
(* finds only when they are exactly what it would write.                    *)

Ensurable ==
  IF batch.initialized
    THEN OnDisk = batch.ids
    ELSE \A s \in Original : slice[s] \in {Absent, Fresh(s)}

EnsuredSlices ==
  IF batch.initialized
    THEN slice
    ELSE [s \in Slice |-> IF s \in Original THEN Fresh(s) ELSE slice[s]]

EnsuredBatch ==
  IF batch.initialized
    THEN batch
    ELSE [batch EXCEPT !.initialized = TRUE, !.ids = Original]

InitializeSlices ==
  /\ ~batch.cancelled
  /\ ~batch.initialized
  /\ Ensurable
  /\ Save(EnsuredSlices, EnsuredBatch)
  /\ UNCHANGED <<skipped, claim, resumes>>
----------------------------------------------------------------------------
(* Leasing.                                                                 *)

\* The slices of f whose retry is due, made ready.
Promoted(f, d) ==
  [s \in Slice |-> IF f[s].state = "retry_wait" /\ Passed(f[s].wait, d)
                     THEN Settled(f[s], "ready")
                     ELSE f[s]]

\* batch_next_slice gets past cancellation, cooldown and the plan check.
Admitted_WhileCancelled(d) == Passed(batch.cooldown, d) /\ Ensurable

Admitted(d) == ~batch.cancelled /\ Passed(batch.cooldown, d) /\ Ensurable

WarmBatch == [EnsuredBatch EXCEPT !.cooldown = Off]

\* Worker w is handed slice s in its attempt n, unless the reply is lost.
Handed(w, s, n) ==
  \/ claim' = [claim EXCEPT ![w] = [slice |-> s, attempt |-> n]]
  \/ UNCHANGED claim

\* Record r leased to worker w, its next attempt.
LeasedTo(r, w, time) ==
  [r EXCEPT !.state = "leased", !.attempt = @ + 1, !.worker = w, !.left = time]

Grant(w, s, d) ==
  LET f == Promoted(EnsuredSlices, d) IN
  /\ Admitted(d)
  /\ s \in EnsuredBatch.ids
  /\ f[s].state = "ready"
  /\ Occupied(f) < batch.capacity
  /\ slice' = [f EXCEPT ![s] = LeasedTo(@, w, LeaseTicks - d)]
  /\ batch' = WarmBatch
  /\ Handed(w, s, f[s].attempt + 1)
  /\ UNCHANGED <<skipped, resumes, crashes>>

\* The worker already holds the slice: the record is handed out again.
ExistingLease(w, s, d) ==
  LET f == Promoted(EnsuredSlices, d) IN
  /\ Admitted(d)
  /\ s \in EnsuredBatch.ids
  /\ f[s].state = "leased" /\ f[s].worker = w /\ ~Passed(f[s].left, d)
  /\ slice' = f
  /\ batch' = WarmBatch
  /\ Handed(w, s, f[s].attempt)
  /\ UNCHANGED <<skipped, resumes, crashes>>

\* Nothing is leased: the slice is not ready, or the limit is reached.  The
\* due retries were made ready all the same.
NoLease(d) ==
  LET f == Promoted(EnsuredSlices, d) IN
  /\ Admitted(d)
  /\ \/ \E s \in EnsuredBatch.ids : f[s].state # "ready"
     \/ Occupied(f) >= batch.capacity
  /\ slice' = f
  /\ batch' = WarmBatch
  /\ UNCHANGED <<skipped, claim, resumes, crashes>>

\* The plan check refuses the call, after the cooldown was cleared.
Refused(d) ==
  /\ ~batch.cancelled /\ Passed(batch.cooldown, d) /\ ~Ensurable
  /\ batch' = [batch EXCEPT !.cooldown = Off]
  /\ UNCHANGED <<slice, skipped, claim, resumes, crashes>>

\* The process dies on the way: it clears the cooldown first, then creates the
\* slices and records them in the batch, then makes due retries ready.
NextSliceDies(d) ==
  /\ Admitted(d)
  /\ crashes < MaxCrashes
  /\ crashes' = crashes + 1
  /\ \E last \in Slice \cup {0} :
       \/ /\ slice' = UpTo(last, EnsuredSlices, slice)
          /\ batch' = [batch EXCEPT !.cooldown = Off]
       \/ /\ slice' = UpTo(last, Promoted(EnsuredSlices, d), EnsuredSlices)
          /\ batch' = WarmBatch
  /\ UNCHANGED <<skipped, claim, resumes>>

NextSlice(d) ==
  \/ \E w \in Worker, s \in Slice : Grant(w, s, d) \/ ExistingLease(w, s, d)
  \/ NoLease(d)
  \/ Refused(d)
  \/ NextSliceDies(d)

\* The checks slice_heartbeat, slice_complete and slice_fail share: the batch
\* runs, and worker w presents the current revision of its lease in force.
HoldsLease_AnyAttempt(w, s, d) ==
  /\ ~batch.cancelled
  /\ claim[w].slice = s
  /\ slice[s].state = "leased" /\ slice[s].worker = w
  /\ ~Passed(slice[s].left, d)

HoldsLease(w, s, d) ==
  /\ ~batch.cancelled
  /\ claim[w].slice = s
  /\ slice[s].attempt = claim[w].attempt
  /\ slice[s].state = "leased" /\ slice[s].worker = w
  /\ ~Passed(slice[s].left, d)

Renewed(r, time) == [r EXCEPT !.left = time]

Heartbeat(w, s, d) ==
  /\ HoldsLease(w, s, d)
  /\ slice' = [slice EXCEPT ![s] = Renewed(@, LeaseTicks - d)]
  /\ UNCHANGED <<batch, skipped, claim, resumes, crashes>>

\* Record r completed with the result of attempt n.
Finished(r, n) ==
  [Settled(r, "completed") EXCEPT !.budget = FALSE, !.result = n]

Complete(w, s, d) ==
  /\ HoldsLease(w, s, d)
  /\ slice' = [slice EXCEPT ![s] = Finished(@, claim[w].attempt)]
  /\ UNCHANGED <<batch, skipped, claim, resumes, crashes>>
----------------------------------------------------------------------------
(* Failure.                                                                 *)

RetryLimit(class) ==
  IF class = "invalid_model_output" /\ MaxAttempts > 3 THEN 3 ELSE MaxAttempts

Retries(class, attempt) ==
  /\ class \in {"rate_limited", "transient", "invalid_model_output"}
  /\ attempt < RetryLimit(class)

RetryAfter(attempt) ==
  Backoff[IF attempt < 1 THEN 1 ELSE IF attempt > 3 THEN 3 ELSE attempt]

FailedState(class, r) ==
  IF Retries(class, r.attempt) THEN "retry_wait"
  ELSE IF class = "stale_input" \/ (class = "reading_budget" /\ r.reslices < 1)
    THEN "reconcile_required"
  ELSE IF class = "awaiting_approval" THEN "awaiting_approval"
  ELSE "blocked"

FailedSlice_ResliceAgain(class, r) ==
  [Settled(r, IF class = "reading_budget" THEN "reconcile_required"
                                          ELSE FailedState(class, r)) EXCEPT
     !.wait = IF Retries(class, r.attempt) THEN RetryAfter(r.attempt) ELSE Off,
     !.budget = class = "reading_budget",
     !.reslices = IF class = "reading_budget" THEN @ + 1 ELSE @]

FailedSlice(class, r) ==
  [Settled(r, FailedState(class, r)) EXCEPT
     !.wait = IF Retries(class, r.attempt) THEN RetryAfter(r.attempt) ELSE Off,
     !.budget = class = "reading_budget",
     !.reslices = IF class = "reading_budget" /\ r.reslices < 1 THEN @ + 1 ELSE @]

\* A rate limit also pauses new leases of the whole batch; that write comes
\* second.
Fail(w, s, class) ==
  /\ HoldsLease(w, s, 0)
  /\ Save([slice EXCEPT ![s] = FailedSlice(class, @)],
          IF class = "rate_limited"
            THEN [batch EXCEPT !.cooldown = RetryAfter(slice[s].attempt)]
            ELSE batch)
  /\ UNCHANGED <<skipped, claim, resumes>>
----------------------------------------------------------------------------
(* The coordinator.                                                         *)

\* refresh_ready_slices
Refresh ==
  /\ ~batch.cancelled
  /\ Passed(batch.cooldown, 0)
  /\ Save(Promoted(slice, 0), [batch EXCEPT !.cooldown = Off])
  /\ UNCHANGED <<skipped, claim, resumes>>

Expired_KeepLastAttempt ==
  {s \in Leased(slice) : Passed(slice[s].left, 0) /\ slice[s].attempt < MaxAttempts}

Expired == {s \in Leased(slice) : Passed(slice[s].left, 0)}

\* The state an expired lease leaves its slice in.
ReclaimedState(r) == IF r.attempt < MaxAttempts THEN "ready" ELSE "blocked"

Reclaimed(r) == [Settled(r, ReclaimedState(r)) EXCEPT !.budget = FALSE]

ReclaimExpired ==
  /\ Expired # {}
  /\ Save([s \in Slice |->
             IF s \in Expired
               THEN Reclaimed(slice[s])
               ELSE slice[s]],
          batch)
  /\ UNCHANGED <<skipped, claim, resumes>>

\* reconcile_slice_inputs: the replacements are written first, then the
\* superseded slice, then the batch's list.
Reconcilable(s) ==
  /\ slice[s].state = "reconcile_required"
  /\ slice[s].budget /\ slice[s].reslices = 1
  /\ s \in Original
  /\ \A r \in Replacement[s] : slice[r] \in {Absent, Fresh(r)}

Superseding_KeepsOld(s) ==
  [r \in Slice |-> IF r \in Replacement[s] THEN Fresh(r)
                   ELSE IF r = s THEN Settled(slice[s], "ready")
                   ELSE slice[r]]

Superseding(s) ==
  [r \in Slice |-> IF r \in Replacement[s] THEN Fresh(r)
                   ELSE IF r = s THEN Settled(slice[s], "cancelled")
                   ELSE slice[r]]

Reconcile(s) ==
  /\ ~batch.cancelled
  /\ Reconcilable(s)
  /\ \/ /\ slice' = Superseding(s)
        /\ batch' = [batch EXCEPT !.ids = @ \cup Replacement[s]]
        /\ UNCHANGED crashes
     \/ /\ crashes < MaxCrashes
        /\ crashes' = crashes + 1
        /\ \/ \E last \in Replacement[s] :
                slice' = [r \in Slice |-> IF r \in Replacement[s] /\ r <= last
                                            THEN Fresh(r) ELSE slice[r]]
           \/ slice' = Superseding(s)
        /\ UNCHANGED batch
  /\ UNCHANGED <<skipped, claim, resumes>>

\* cancel_batch
CancelledSlices ==
  [s \in Slice |-> IF slice[s].state \in {"absent", "completed", "cancelled"}
                     THEN slice[s]
                     ELSE Settled(slice[s], "cancelled")]

Cancel ==
  /\ Save(CancelledSlices, [batch EXCEPT !.cancelled = TRUE])
  /\ UNCHANGED <<skipped, claim, resumes>>

\* resume_cancelled_batch: every cancelled slice without a skipped task.
Deferred == {s \in OnDisk : TaskOf[s] \cap skipped # {}}

ReopenedSlices_OnlyUnused ==
  [s \in Slice |-> IF slice[s].state = "cancelled" /\ s \notin Deferred
                        /\ slice[s].attempt < MaxAttempts
                     THEN Settled(slice[s], "ready")
                     ELSE slice[s]]

ReopenedSlices ==
  [s \in Slice |-> IF slice[s].state = "cancelled" /\ s \notin Deferred
                     THEN Settled(slice[s], "ready")
                     ELSE slice[s]]

Resume ==
  /\ batch.cancelled
  /\ resumes < MaxResumes
  /\ resumes' = resumes + 1
  /\ Save(ReopenedSlices, [batch EXCEPT !.cancelled = FALSE])
  /\ UNCHANGED <<skipped, claim>>

\* The coordinator's stopped-batch check: no slice record names a worker.
NoWorkerRecorded == \A s \in Slice : slice[s].worker = None

\* set_capacity
SetCapacity ==
  /\ batch.cancelled /\ batch.initialized /\ NoWorkerRecorded
  /\ \E n \in 1..MaxCapacity : batch' = [batch EXCEPT !.capacity = n]
  /\ UNCHANGED <<slice, skipped, claim, resumes, crashes>>

\* The test of skip_pass_slices: the slices own every task exactly once.
OwnedOnce ==
  \A t \in Task : Cardinality({s \in OnDisk : t \in TaskOf[s]}) = 1

\* skip_pass_slices, for one slice.
SkipSlice(s) ==
  /\ batch.cancelled /\ NoWorkerRecorded /\ OwnedOnce
  /\ slice[s].state = "cancelled"
  /\ TaskOf[s] \cap skipped = {}
  /\ skipped' = skipped \cup TaskOf[s]
  /\ UNCHANGED <<slice, batch, claim, resumes, crashes>>
----------------------------------------------------------------------------
Older(timer) == IF timer > Off THEN timer - 1 ELSE timer

Aged(r) == [r EXCEPT !.left = Older(@), !.wait = Older(@)]

Tick ==
  /\ slice' = [s \in Slice |-> Aged(slice[s])]
  /\ batch' = [batch EXCEPT !.cooldown = Older(@)]
  /\ UNCHANGED <<skipped, claim, resumes, crashes>>

WorkerStep ==
  \/ \E d \in 0..LockWait :
       \/ NextSlice(d)
       \/ \E w \in Worker, s \in Slice : Heartbeat(w, s, d) \/ Complete(w, s, d)
  \/ \E w \in Worker, s \in Slice, class \in FailureClass : Fail(w, s, class)

Next ==
  \/ InitializeSlices
  \/ WorkerStep
  \/ Refresh
  \/ ReclaimExpired
  \/ \E s \in Slice : Reconcile(s)
  \/ Cancel
  \/ Resume
  \/ SetCapacity
  \/ \E s \in Slice : SkipSlice(s)
  \/ Tick

Spec == Init /\ [][Next]_vars

\* The watcher runs sync again and again, which initialises the slices,
\* reclaims expired leases, makes due retries ready and starts a worker for a
\* ready slice; time passes.  Nothing obliges a worker to finish or to fail,
\* nor anyone to reconcile, cancel or resume.
Fairness ==
  /\ WF_vars(InitializeSlices)
  /\ WF_vars(\E w \in Worker, s \in Slice : Grant(w, s, 0))
  /\ WF_vars(Refresh)
  /\ WF_vars(ReclaimExpired)
  /\ WF_vars(Tick)

FairSpec == Spec /\ Fairness
----------------------------------------------------------------------------
(* Properties.                                                              *)

SliceRecord ==
  [state : State, attempt : Nat, worker : Worker \cup {None}, left : Int,
   wait : Int, reslices : 0..1, budget : BOOLEAN, result : Nat]

BatchRecord ==
  [initialized : BOOLEAN, ids : SUBSET Slice, cancelled : BOOLEAN,
   cooldown : Int, capacity : Nat \ {0}]

\* Every variable keeps the shape of the record the code stores for it.
TypeOK ==
  /\ slice \in [Slice -> SliceRecord]
  /\ batch \in BatchRecord
  /\ skipped \in SUBSET Task
  /\ claim \in [Worker -> [slice : Slice \cup {0}, attempt : Nat]]
  /\ resumes \in Nat /\ crashes \in Nat

\* No more slices are leased than the capacity in force, although expired
\* leases, retries, replacements, cancellations and changes of the capacity
\* come in between (leased_count in batch_next_slice against set_capacity).
LeasesWithinCapacity == Cardinality(Leased(slice)) <= batch.capacity

\* A slice names a worker exactly while it is leased: every way out of a
\* lease clears it, so the stop checks of set_capacity and skip_pass_slices,
\* which look at the worker only, see every lease.
WorkerExactlyWhileLeased ==
  \A s \in Slice : slice[s].worker # None <=> slice[s].state = "leased"

\* A batch whose record says cancelled has no slice at work, even when the
\* resumption or a second cancellation died half-way.
StoppedBatchHoldsNoLease == batch.cancelled => Leased(slice) = {}

\* The leases are bounded, marked, and gone once the batch is stopped.
LeasesHold == LeasesWithinCapacity /\ WorkerExactlyWhileLeased /\ StoppedBatchHoldsNoLease

\* The result a slice keeps is that of its last attempt: a worker whose lease
\* was reclaimed and given out again, even under its own id, publishes nothing.
ResultOfLastAttempt ==
  \A s \in Slice : slice[s].state = "completed" => slice[s].result = slice[s].attempt

\* The attempts of a slice are bounded by max_attempts and one more for each
\* resumption, whatever mix of failures, expiries and cancellations ended them.
AttemptsBounded == \A s \in Slice : slice[s].attempt <= MaxAttempts + resumes

\* Attempts are counted: none publishes for another, and there is a last one.
AttemptsHold == ResultOfLastAttempt /\ AttemptsBounded

\* While a batch runs, every task that is not skipped belongs to a slice of
\* the plan that is not cancelled: neither resplitting nor a stop and a
\* resumption loses work.  (A cancellation that dies half-way may.)
NoTaskDropped ==
  batch.initialized /\ ~batch.cancelled =>
    \A t \in Task \ skipped :
      \E s \in batch.ids : t \in TaskOf[s] /\ slice[s].state # "cancelled"

\* No task is worked on by two slices, or again after one of them completed
\* it.  Replacing a slice keeps this; resuming a cancelled batch does not.
NoTaskWorkedTwice ==
  \A t \in Task :
    Cardinality({s \in Slice : t \in TaskOf[s]
                                /\ slice[s].state \in {"leased", "completed"}}) <= 1

\* A completed slice is never touched again, by nobody: not by a late worker,
\* a cancellation, a resumption or a crash of either.
CompletedIsFinal ==
  [][\A s \in Slice : slice[s].state = "completed" => slice'[s] = slice[s]]_vars

\* The workers see an exclusive lease that only its owner finishes, once.
Contract == INSTANCE LeaseContract WITH
  owner <- [s \in Slice |-> slice[s].worker],
  done <- {s \in Slice : slice[s].state = "completed"},
  limit <- batch.capacity

KeepsContract == Contract!Spec

\* The states a slice does not leave by itself.
AtRest == {"completed", "blocked", "cancelled", "reconcile_required",
           "awaiting_approval"}

\* Unless workers heartbeat for ever, a batch comes to rest: it stays
\* cancelled, or every slice ends completed or held for somebody's decision.
\* No lease outlives its worker and no retry waits for ever, although an
\* expired lease counts against the capacity until it is reclaimed and a rate
\* limit closes the whole batch.
ComesToRest ==
  <>[][~\E w \in Worker, s \in Slice, d \in 0..LockWait : Heartbeat(w, s, d)]_vars
    => <>[](batch.cancelled \/ \A s \in batch.ids : slice[s].state \in AtRest)

(***************************************************************************)
(* What does not hold, although the documentation says it: README,         *)
(* section 6.                                                              *)
(***************************************************************************)
\* source-units.md: slice-reconcile "cancels the superseded slice and creates
\* deterministic replacements".  A resumption of the batch reopens it.
SupersededStaysCancelled ==
  [][\A s \in Original :
       Replacement[s] \subseteq batch.ids /\ Replacement[s] # {} =>
         slice'[s].state = "cancelled"]_vars

\* The ingest process is recoverable: the plan check of batch_next_slice does
\* not refuse a running batch for ever.
PlanCheckRecovers == []<>(batch.cancelled \/ Ensurable)
=============================================================================
