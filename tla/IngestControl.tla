---------------------------- MODULE IngestControl ----------------------------
(***************************************************************************)
(* Who moves an automatic workflow, and when: the watcher's coordinator    *)
(* that projects the ledger onto native cards (ingest_kanban.py), the      *)
(* dispatcher that claims ready cards (native_program_dispatch.py), the    *)
(* workers of the cards (run_program_worker.py), and the operator who      *)
(* stops and resumes.  IngestWorkflow says what each ledger operation does *)
(* whoever calls it; here each process is split where it holds no lock, so *)
(* that the others, or a crash, come between.                              *)
(*                                                                         *)
(* A caller reads the workflow record and later writes it under its lock,  *)
(* and the write is refused if the revision moved: fresh holds the callers *)
(* whose copy is current.  The coordinator decides what to do with cards   *)
(* from a copy that may be old, and from failures and domain records that  *)
(* it reads anew for each card.                                            *)
(*                                                                         *)
(* A card stands for the node's native card: its two gates, which nobody   *)
(* runs, are left out, and reduce stands for all reduce cards.  A new card *)
(* is blocked, a held one scheduled; after a run that ended it is reaped   *)
(* (blocked), then ended (scheduled), and ready again if it is offered     *)
(* once more.  Of the leases of Passes (SliceLedger) what decides over     *)
(* cards is kept.  Left out: the batch's capacity and cooldown, revisions, *)
(* recoveries and their new cards, dispatch outside Hermes.                *)
(***************************************************************************)
EXTENDS IngestWorkflow

CONSTANTS MaxAttempts,  \* how often a slice may be leased
          MaxStop,      \* bound: stops of the workflow by the operator
          MaxCrash,     \* bound: processes that die
          MaxLate       \* bound: processes whose lease expires while they live, at a time

ASSUME ControlAssumption ==
  MaxAttempts \in Nat \ {0} /\ MaxStop \in Nat /\ MaxCrash \in Nat /\ MaxLate \in Nat

VARIABLES
  card,     \* the native state of each node's card
  failed,   \* the current failure report: "none", "error" or "review"
  worker,   \* where the worker of the node is, or "off"
  lease,    \* a slice unfinished and not stopped: "ready", "leased", in "retry" or "held"
  used,     \* its attempts, up to MaxAttempts, while it is unfinished
  erred,    \* whether its last error is later than the start of its card's last run
  late,     \* the slices with a process whose lease was withdrawn
  op,       \* what the operator's command does next
  co,       \* what the coordinator does next
  seen,     \* the coordinator's copy of the record
  graph,    \* the nodes of its graph
  todo,     \* the cards it has yet to project
  fresh,    \* the processes whose copy of the record is current
  stops, crashes

native == <<card, failed>>
coordinator == <<co, seen, graph, todo>>
bounds == <<stops, crashes>>
tries == <<lease, used, erred, late>>
working == <<worker, tries>>
control == <<native, working, op, coordinator, fresh, bounds>>
allVars == <<vars, control>>

Chain == <<"reduce", "validate1", "build", "plan", "validate2", "apply", "sync", "accept">>

ASSUME NodeAssumption == \A i \in DOMAIN Chain : Chain[i] \notin Slice

Batch ==
  {Chain[i] : i \in DOMAIN Chain} \ (IF \A s \in Scope : s.provider = "skip" THEN {"sync"} ELSE {})
Node == Slice \cup Batch

Rank(n) == IF n \in Slice THEN 0 ELSE CHOOSE i \in DOMAIN Chain : Chain[i] = n

\* The stage in which a node may be dispatched.
StageOf(n) ==
  CASE n \in {"reduce", "validate1"} -> Reducing
    [] n = "build" -> BuildFinalizing
    [] n \in {"plan", "validate2"} -> ReleasePlanning
    [] n = "apply" -> Applying
    [] n = "sync" -> Indexing
    [] n = "accept" -> Validating

\* What a reader of the record keeps.
Snapshot ==
  [stage |-> stage, state |-> state, mode |-> mode, chosen |-> chosen, skipped |-> skipped,
   approved |-> approved, release |-> release, paused |-> ~NotPaused, pause |-> pause]

(***************************************************************************)
(* The graph: derived from a copy v of the record, never from the cards.   *)
(***************************************************************************)
Staged == scope.pause # {}

Present == {n \in Batch : n = "sync" => scope.provider = "sync"}

\* A staged workflow has no cards beyond the phase it is in.
LastNode(v) ==
  CASE v.stage \in {Reducing, Checkpoint1} -> "validate1"
    [] v.stage = BuildFinalizing -> "build"
    [] v.stage \in {ReleasePlanning, Checkpoint2} -> "validate2"
    [] v.stage = Applying -> "apply"
    [] v.stage = Indexing -> IF scope.provider = "sync" THEN "sync" ELSE "apply"
    [] OTHER -> "accept"

Graph(v) ==
  IF Staged /\ v.pause = ExactPlan THEN {}
  ELSE IF (Staged \/ scope.mode = "canary_only") /\ v.mode = "canary" THEN v.chosen
  ELSE IF v.stage = Analyzing THEN IF initialized THEN Slice ELSE {}
  ELSE Slice \cup {n \in Present : Staged => Rank(n) <= Rank(LastNode(v))}

\* domain_completed.
CompletedBy(v, n) ==
  CASE n \in Slice -> n \in done
    [] n = "reduce" -> drafted
    [] n = "validate1" -> v.stage >= Checkpoint1
    [] n = "build" -> finalized
    [] n = "plan" -> v.release
    [] n = "validate2" -> v.approved[Checkpoint2]
    [] n = "apply" -> v.stage >= Indexing
    [] n = "sync" -> v.stage >= Validating
    [] n = "accept" -> v.stage = Completed \/ v.state = "partial"

Parents(n) ==
  IF n \in Slice THEN {}
  ELSE IF n = "reduce" THEN Slice
  ELSE {m \in Present : Rank(m) < Rank(n) /\ \A k \in Present : Rank(k) < Rank(n) => Rank(k) <= Rank(m)}

\* Between a validation and its successor stands the gate of the checkpoint.
ParentDone(v, p) ==
  CASE p = "validate1" -> v.approved[Checkpoint1]
    [] p \in Slice -> p \in done \cup v.skipped
    [] OTHER -> CompletedBy(v, p)

Descendants(n) == {m \in graph : Rank(m) > Rank(n)}

\* _canary_allows: the record admits the node now.
Allows(v, n, completing) ==
  /\ completing \/ ~v.paused
  /\ CASE n \in Slice ->
            \/ v.mode = "full" /\ v.stage \in {Analyzing, Reducing}
            \/ v.mode = "canary" /\ n \in v.chosen
       [] OTHER ->
            /\ scope.mode = "auto_full" /\ v.mode = "full"
            /\ \/ v.stage = StageOf(n)
               \/ n = "validate2" /\ v.stage = Checkpoint2 /\ ~v.approved[Checkpoint2]

Eligible_AnyStage(v, n) ==
  /\ v.state = "active" /\ v.stage # Completed
  /\ n \notin v.skipped
  /\ ~v.paused /\ (n \in Batch => scope.mode = "auto_full" /\ v.mode = "full")
  /\ \A p \in Parents(n) : ParentDone(v, p)

Eligible(v, n) ==
  /\ v.state = "active" /\ v.stage # Completed
  /\ n \notin v.skipped
  /\ Allows(v, n, FALSE)
  /\ \A p \in Parents(n) : ParentDone(v, p)

\* _execution_blocked: a Pass that did complete is no longer blocked.
Blocked(n) == failed[n] = "error" /\ ~(n \in Slice /\ n \in done)

\* What a blocked parent means for its children; a gate that was passed
\* stands between a validation and them.
HoldsChildren(v, p) ==
  /\ Blocked(p)
  /\ p = "validate1" => ~v.approved[Checkpoint1]
  /\ p = "validate2" => ~v.approved[Checkpoint2]

Goes(n, pc) == worker' = [worker EXCEPT ![n] = pc]

(***************************************************************************)
(* The leases of Passes, as far as they decide over cards.                 *)
(***************************************************************************)
\* The slice's own state is "ready".
SliceReady(s) == s \notin done \cup skipped /\ ~batchStopped /\ lease[s] = "ready"

\* _slice_worker: the record admits a Pass as it is now.
PassAdmitted(s) ==
  /\ Running /\ stage = Analyzing /\ ~batchStopped /\ s \notin skipped
  /\ ~Blocked(s) /\ Allows(Snapshot, s, FALSE)

\* A native run is known to have ended, and no process of the card to live,
\* while the lease the run took is still there.
DeadLease(s) ==
  /\ lease[s] = "leased" /\ worker[s] = "off" /\ s \notin late
  /\ card[s] \notin {"none", "running"}

Errs(s, result) ==
  /\ lease' = [lease EXCEPT ![s] = result] /\ erred' = [erred EXCEPT ![s] = TRUE]
  /\ UNCHANGED used

\* Whoever held a lease that is gone writes no more, but lives on.
Withdraw(S) ==
  /\ worker' = [n \in Node |-> IF n \in S /\ worker[n] = "leased" THEN "off" ELSE worker[n]]
  /\ late' = late \cup {s \in S : worker[s] = "leased"}

(***************************************************************************)
(* The coordinator.                                                        *)
(***************************************************************************)
Unseen == [stage |-> Created]

ControlInit ==
  /\ Init /\ bound /\ ~batchStopped /\ ~initialized /\ ~drafted
  /\ card = [n \in Node |-> "none"] /\ failed = [n \in Node |-> "none"]
  /\ worker = [n \in Node |-> "off"]
  /\ lease = [s \in Slice |-> "ready"] /\ used = [s \in Slice |-> 0]
  /\ erred = [s \in Slice |-> FALSE] /\ late = {}
  /\ op = "idle" /\ co = "idle" /\ seen = Unseen /\ graph = {} /\ todo = {}
  /\ fresh = {} /\ stops = 0 /\ crashes = 0

CoIdle ==
  /\ co' = "idle" /\ seen' = Unseen /\ graph' = {} /\ todo' = {}
  /\ fresh' = fresh \ {"co"}

CoBegin ==
  /\ co = "idle" /\ state # "cancelled"
  /\ co' = "settle" /\ seen' = Snapshot /\ fresh' = fresh \cup {"co"}
  /\ UNCHANGED <<vars, native, working, op, graph, todo, bounds>>

LatchDue ==
  /\ pause = NoPause /\ Reached # {} /\ ~batchStopped
  /\ ExactPlan \in Reached => initialized

CanaryDue ==
  /\ NotPaused /\ Running /\ stage = Analyzing /\ scope.mode # "manual"
  /\ mode = "disabled" \/ (mode = "canary" /\ scope.mode = "auto_full" /\ CanaryPassed)

\* The stage the coordinator itself moves to.
StageDue(t) ==
  /\ NotPaused /\ Running /\ scope.mode = "auto_full" /\ mode = "full"
  /\ t = stage + 1 /\ MayLeave
  /\ \/ t = Reducing /\ AllPassed
     \/ t \in {BuildFinalizing, Applying}
     \/ t = ReleasePlanning /\ finalized
     \/ t = Validating /\ scope.provider = "skip"

CoInitialize ==
  /\ co = "settle"
  /\ InitializeSlices
  /\ UNCHANGED control

CoSettle ==
  /\ co = "settle" /\ initialized /\ "co" \in fresh
  /\ IF LatchDue THEN \E b \in Reached : LatchPause(b)
     ELSE IF CanaryDue
       THEN \/ \E S \in SUBSET Slice :
                 ArmCanary(S) /\ scope.canary # "off" /\ Cardinality(S) = CanaryCount
            \/ SkipCanary
            \/ PromoteCanary
       ELSE \E t \in Stage : StageDue(t) /\ Reconcile(t)
  /\ seen' = Snapshot' /\ fresh' = {"co"}
  /\ UNCHANGED <<native, working, op, co, graph, todo, bounds>>

\* Leases are settled unless a boundary holds the workflow.
Settling == co = "settle" /\ initialized /\ ~seen.paused /\ ("co" \in fresh => ~LatchDue)

\* A lease that expired, whoever holds it.
CoReclaim(s) ==
  /\ Settling /\ lease[s] = "leased"
  /\ worker[s] = "leased" => Cardinality(late) < MaxLate
  /\ Errs(s, IF used[s] < MaxAttempts THEN "ready" ELSE "held")
  /\ Withdraw({s})
  /\ UNCHANGED <<vars, native, op, coordinator, fresh, bounds>>

\* The lease of a run that ended is given back; its slice waits for a repair.
ReportStopped(s) ==
  /\ DeadLease(s)
  /\ failed' = [failed EXCEPT ![s] = IF @ = "none" THEN "error" ELSE @]

GiveBack(s) == ReportStopped(s) /\ Errs(s, "held") /\ late' = late

CoGiveBack(s) ==
  /\ Settling /\ GiveBack(s)
  /\ UNCHANGED <<vars, card, worker, op, coordinator, fresh, bounds>>

\* A retry whose time has come.
CoRefresh(s) ==
  /\ Settling /\ ~batchStopped /\ lease[s] = "retry"
  /\ lease' = [lease EXCEPT ![s] = "ready"]
  /\ UNCHANGED <<vars, native, worker, used, erred, late, op, coordinator, fresh, bounds>>

\* Nothing to settle in the copy: the graph is derived from it.
CoGraph ==
  /\ co = "settle" /\ initialized
  /\ "co" \in fresh => ~LatchDue /\ ~CanaryDue /\ \A t \in Stage : ~StageDue(t)
  /\ ~seen.paused => \A s \in Slice : ~DeadLease(s)
  /\ co' = "bind" /\ graph' = Graph(seen)
  /\ UNCHANGED <<vars, native, working, op, seen, todo, fresh, bounds>>

\* The record is read again and the new cards bound; a stopped one refuses.
CoBind ==
  /\ co = "bind" /\ state # "cancelled"
  /\ card' = [n \in Node |-> IF n \in graph /\ card[n] = "none" THEN "new" ELSE card[n]]
  /\ fresh' = IF card' = card THEN fresh \cup {"co"} ELSE {"co"}
  /\ co' = "hold"
  /\ UNCHANGED <<vars, failed, working, op, seen, graph, todo, bounds>>

CoHold_SkipsEnded ==
  /\ co = "hold" /\ "co" \in fresh
  /\ IF LatchDue THEN (\E b \in Reached : LatchPause(b)) /\ fresh' = {"co"}
     ELSE UNCHANGED <<vars, fresh>>
  /\ seen' = Snapshot' /\ co' = "project"
  /\ todo' = {n \in graph : card[n] \notin {"done", "ended", "reaped"}}
  /\ UNCHANGED <<native, working, op, graph, bounds>>

\* A boundary that a worker reached meanwhile is latched before the cards; a
\* card that is done is left as it is.
CoHold ==
  /\ co = "hold" /\ "co" \in fresh
  /\ IF LatchDue THEN (\E b \in Reached : LatchPause(b)) /\ fresh' = {"co"}
     ELSE UNCHANGED <<vars, fresh>>
  /\ seen' = Snapshot' /\ co' = "project"
  /\ todo' = {n \in graph : card[n] # "done"}
  /\ UNCHANGED <<native, working, op, graph, bounds>>

Hold_Requeues(c) ==
  CASE c \in {"new", "ready", "running"} -> "held"
    [] c \in {"reaped", "again"} -> "ended"
    [] OTHER -> c

Hold(c) ==
  CASE c \in {"new", "ready"} -> "held"
    [] c \in {"running", "reaped", "again"} -> "ended"
    [] OTHER -> c

Unblock_OnlyHeld(c) == IF c \in {"new", "held"} THEN "ready" ELSE c

Unblock(c) ==
  CASE c \in {"new", "held"} -> "ready"
    [] c \in {"reaped", "ended"} -> "again"
    [] OTHER -> c

Durable_AnyRun(n) == n \in Slice /\ lease[n] # "leased"

\* How the last run of a Pass ended is told by the slice's own last error.
Durable(n) == n \in Slice /\ erred[n] /\ lease[n] # "leased"

\* The failure of an incomplete node: its own, a blocked parent's, or that its
\* run ended and nothing tells how.
Report(n) ==
  LET orphaned == \E p \in Parents(n) : HoldsChildren(seen, p)
      silent == card[n] \in {"reaped", "ended", "again"} /\ ~Durable(n)
  IN IF failed[n] = "none" /\ (orphaned \/ silent) THEN "error" ELSE failed[n]

Close(n) == card' = [card EXCEPT ![n] = "done"] /\ failed' = failed

Archive(n) ==
  card' = [card EXCEPT ![n] = "archived"] /\ failed' = [failed EXCEPT ![n] = Report(n)]

\* Nothing that depends on a failed node goes on either.
ArchiveAll(n) ==
  LET closed == {n} \cup Descendants(n)
  IN /\ failed' = [m \in Node |->
                     IF m = n \/ (m \in closed /\ failed[m] = "none") THEN "error" ELSE failed[m]]
     /\ card' = [m \in Node |-> IF m \in closed THEN "archived" ELSE card[m]]

\* The state a slice must be in for its card to wait for a worker.
Offerable(n) == n \in Slice => SliceReady(n)

\* A card whose slice is leased is left to its run.
Offer(n) ==
  /\ failed' = failed
  /\ card' = [card EXCEPT ![n] =
       IF Report(n) = "review" \/ ~Eligible(seen, n) THEN Hold(@)
       ELSE IF n \in Slice /\ lease[n] = "leased" THEN @
       ELSE IF Offerable(n) THEN Unblock(@) ELSE Hold(@)]

\* What the copy, the failures and the domain records make of one card.
CoProject(n) ==
  /\ co = "project" /\ n \in todo /\ \A m \in todo : Rank(n) <= Rank(m)
  /\ todo' = todo \ {n}
  /\ IF CompletedBy(seen, n)
     THEN IF card[n] = "archived" THEN UNCHANGED native ELSE Close(n)
     ELSE IF n \in seen.skipped THEN Archive(n)
     ELSE IF Report(n) = "error" THEN ArchiveAll(n)
     ELSE Offer(n)
  /\ UNCHANGED <<vars, working, op, co, seen, graph, fresh, bounds>>

CoEnd ==
  /\ co = "project" /\ todo = {}
  /\ CoIdle
  /\ UNCHANGED <<vars, native, working, op, bounds>>

\* The revision moved, or the workflow or its batch was stopped.
CoRefused ==
  /\ \/ co \in {"settle", "hold"} /\ "co" \notin fresh
     \/ co \in {"settle", "bind"} /\ (state = "cancelled" \/ batchStopped)
  /\ CoIdle
  /\ UNCHANGED <<vars, native, working, op, bounds>>

CoCrash ==
  /\ co # "idle" /\ crashes < MaxCrash
  /\ crashes' = crashes + 1 /\ CoIdle
  /\ UNCHANGED <<vars, native, working, op, stops>>

(***************************************************************************)
(* The refill: before each dispatch, and while the watcher waits, Pass     *)
(* cards are settled without a new graph, under the coordinator's lock.    *)
(***************************************************************************)
Refilling == co = "idle" /\ Running /\ stage = Analyzing

RefillLatch ==
  /\ Refilling /\ LatchDue
  /\ \E b \in Reached : LatchPause(b)
  /\ fresh' = {}
  /\ UNCHANGED <<native, working, op, coordinator, bounds>>

\* A completed Pass is acknowledged, unless a boundary is yet to be latched.
Acknowledge(n) ==
  /\ Refilling /\ n \in done /\ card[n] = "running"
  /\ NotPaused \/ pause # NoPause
  /\ Close(n)
  /\ UNCHANGED <<vars, working, op, coordinator, fresh, bounds>>

\* Nothing reclaims leases here: an expired one is reported, and stays.
RefillGiveBack(s) ==
  /\ Refilling /\ NotPaused
  /\ GiveBack(s) \/ (ReportStopped(s) /\ UNCHANGED tries)
  /\ UNCHANGED <<vars, card, worker, op, coordinator, fresh, bounds>>

\* A Pass whose slice is ready has its blocked card offered, run or not.
Refill(n) ==
  /\ Refilling /\ SliceReady(n) /\ PassAdmitted(n)
  /\ card[n] \in {"new", "reaped"} /\ failed[n] = "none"
  /\ card' = [card EXCEPT ![n] = Unblock(@)]
  /\ UNCHANGED <<vars, failed, working, op, coordinator, fresh, bounds>>

RefillNext ==
  \/ RefillLatch
  \/ \E s \in Slice : Acknowledge(s) \/ RefillGiveBack(s) \/ Refill(s)

CoNext ==
  \/ CoBegin
  \/ CoInitialize
  \/ CoSettle
  \/ \E s \in Slice : CoReclaim(s) \/ CoGiveBack(s) \/ CoRefresh(s)
  \/ CoGraph
  \/ CoBind
  \/ CoHold
  \/ \E n \in Node : CoProject(n)
  \/ CoEnd
  \/ CoRefused

(***************************************************************************)
(* Dispatch and workers.                                                   *)
(***************************************************************************)
Still == UNCHANGED <<op, coordinator, bounds>>

Leaves(n) == Goes(n, "off") /\ fresh' = fresh \ {n}

\* The record admits the node as it is now.
Admitted(n, completing) ==
  Allows(Snapshot, n, completing) /\ \A p \in Parents(n) : ParentDone(Snapshot, p)

\* The dispatcher starts a worker for a ready card.
Claim(n) ==
  /\ card[n] \in {"ready", "again"} /\ Running /\ NotPaused
  /\ ~Blocked(n) /\ Admitted(n, FALSE)
  /\ n \in Slice => SliceReady(n) /\ PassAdmitted(n)
  /\ card' = [card EXCEPT ![n] = "running"] /\ Goes(n, "begun")
  /\ erred' = [s \in Slice |-> erred[s] /\ s # n]
  /\ UNCHANGED <<vars, failed, lease, used, late, fresh>> /\ Still

\* The worker of a Pass takes its slice; other retries that are due become
\* ready with it.
Lease(n) ==
  /\ n \in Slice /\ worker[n] = "begun" /\ SliceReady(n) /\ PassAdmitted(n)
  /\ \E due \in SUBSET {s \in Slice : lease[s] = "retry"} :
       lease' = [s \in Slice |-> IF s = n THEN "leased"
                                ELSE IF s \in due THEN "ready" ELSE lease[s]]
  /\ Goes(n, "leased")
  /\ used' = [used EXCEPT ![n] = IF @ < MaxAttempts THEN @ + 1 ELSE @]
  /\ UNCHANGED <<vars, native, erred, late, fresh>> /\ Still

\* The domain result, written under the workflow's lock by a live binding.
Write(n) ==
  /\ worker[n] = IF n \in Slice THEN "leased" ELSE "begun"
  /\ ~Blocked(n)
  /\ \/ n \in Slice /\ CompleteSlice(n) /\ Goes(n, "off")
     \/ n = "reduce" /\ Reduce /\ Goes(n, "wrote")
     \/ n = "build" /\ FinalizeBatch /\ Goes(n, "wrote")
     \/ n = "apply" /\ ApplyRelease /\ Goes(n, "wrote")
     \/ n = "sync" /\ SyncIndex /\ Goes(n, "wrote")
  /\ lease' = [s \in Slice |-> IF s = n THEN "ready" ELSE lease[s]]
  /\ used' = [s \in Slice |-> IF s = n THEN 0 ELSE used[s]]
  /\ UNCHANGED <<native, erred, late, fresh>> /\ Still

\* The worker reads the record to report completion; for a worker whose
\* result is the write itself, that is all.
Check(n) ==
  /\ worker[n] = IF n \in {"reduce", "build", "apply", "sync"} THEN "wrote" ELSE "begun"
  /\ n \in Batch /\ state # "cancelled"
  /\ ~Blocked(n) /\ Admitted(n, TRUE)
  /\ Goes(n, IF n \in {"reduce", "build"} THEN "off" ELSE "checked")
  /\ fresh' = IF n \in {"reduce", "build"} THEN fresh ELSE fresh \cup {n}
  /\ UNCHANGED <<vars, native, tries>> /\ Still

\* validate_batch holds the batch's lock only.
Validate(n) ==
  /\ n = "validate1" /\ worker[n] = "checked"
  /\ ValidateBatch(TRUE) /\ Goes(n, "validated")
  /\ UNCHANGED <<native, tries, fresh>> /\ Still

\* A validation that fails is reported for review, as no execution failure.
Refuse(n) ==
  /\ \/ n = "validate1" /\ worker[n] = "checked" /\ ValidateBatch(FALSE)
     \/ n \in {"validate2", "accept"} /\ worker[n] = "checked" /\ UNCHANGED vars
  /\ failed' = [failed EXCEPT ![n] = "review"] /\ Leaves(n)
  /\ UNCHANGED <<card, tries>> /\ Still

\* The ledger operation a worker reports its result with.
Commit(n) ==
  /\ n \in fresh
  /\ worker[n] = IF n = "validate1" THEN "validated" ELSE "checked"
  /\ \/ n = "validate1" /\ Reconcile(Checkpoint1)
     \/ n = "plan" /\ BindReleasePlan
     \/ n = "validate2" /\ Reconcile(Checkpoint2)
     \/ n = "apply" /\ applied /\ Reconcile(Indexing)
     \/ n = "sync" /\ synced /\ Reconcile(Validating)
     \/ n = "accept" /\ (IF skipped = {} THEN Reconcile(Completed) ELSE Conclude("partial"))
  /\ IF n \in {"validate1", "validate2"} THEN Goes(n, "advanced") /\ fresh' = {n}
     ELSE Goes(n, "off") /\ fresh' = {}
  /\ UNCHANGED <<native, tries>> /\ Still

\* Having entered the checkpoint, its worker approves it: another operation.
ApproveStep(n) ==
  /\ worker[n] = "advanced" /\ n \in fresh
  /\ ApproveAutomatic(IF n = "validate1" THEN Checkpoint1 ELSE Checkpoint2)
  /\ Goes(n, "off") /\ fresh' = {}
  /\ UNCHANGED <<native, tries>> /\ Still

\* A worker that is refused anywhere, or loses its run, reports so.
WorkerFail(n) ==
  /\ worker[n] # "off"
  /\ Leaves(n) /\ failed' = [failed EXCEPT ![n] = "error"]
  /\ UNCHANGED <<vars, card, tries>> /\ Still

\* worker_fail: a Pass that fails with a code gives its slice back, to be
\* tried again or not; who called it may report an execution failure, too.
PassFail(n) ==
  /\ n \in Slice /\ worker[n] = "leased" /\ PassAdmitted(n)
  /\ Leaves(n) /\ failed' \in {failed, [failed EXCEPT ![n] = "error"]}
  /\ \/ Errs(n, "held")
     \/ used[n] < MaxAttempts /\ Errs(n, "retry")
  /\ UNCHANGED <<vars, card, late>> /\ Still

\* A Pass begun on a batch that is stopped finds no slice and just leaves.
PassLeaves(n) ==
  /\ n \in Slice /\ worker[n] = "begun" /\ batchStopped
  /\ Leaves(n)
  /\ UNCHANGED <<vars, native, tries>> /\ Still

WorkerDies(n) ==
  /\ worker[n] # "off" /\ crashes < MaxCrash
  /\ crashes' = crashes + 1 /\ Leaves(n)
  /\ UNCHANGED <<vars, native, tries, op, coordinator, stops>>

\* A process without its lease ends; it may still report that it failed.
LateEnds(s) ==
  /\ s \in late /\ late' = late \ {s}
  /\ failed' \in {failed, [failed EXCEPT ![s] = "error"]}
  /\ UNCHANGED <<vars, card, worker, lease, used, erred, fresh>> /\ Still

\* The native run of a worker that is gone, or not acknowledged in time: the
\* card has no retry of its own.
NativeEnd(n) ==
  /\ card[n] = "running" /\ worker[n] = "off"
  /\ card' = [card EXCEPT ![n] = "reaped"]
  /\ UNCHANGED <<vars, failed, working, fresh>> /\ Still

WorkerStep(n) ==
  \/ Lease(n)
  \/ Write(n)
  \/ Check(n)
  \/ Validate(n)
  \/ Refuse(n)
  \/ Commit(n)
  \/ ApproveStep(n)
  \/ WorkerFail(n)
  \/ PassFail(n)
  \/ PassLeaves(n)

(***************************************************************************)
(* The operator's commands and a named person's decisions.                 *)
(***************************************************************************)
Uninvolved == UNCHANGED <<native, working, coordinator>>

OpCancel ==
  /\ op = "idle" /\ stops < MaxStop
  /\ Cancel
  /\ op' = "batch" /\ stops' = stops + 1 /\ fresh' = {}
  /\ Uninvolved /\ UNCHANGED crashes

\* The command that was interrupted is given again, and finishes its rest.
OpCancelAgain ==
  /\ op = "idle" /\ state = "cancelled" /\ ~batchStopped
  /\ op' = "batch"
  /\ Uninvolved /\ UNCHANGED <<vars, fresh, bounds>>

\* Every unfinished slice is cancelled, and would be ready if resumed.
OpBatch ==
  /\ op = "batch"
  /\ IF batchStopped THEN UNCHANGED <<vars, working>>
     ELSE /\ CancelBatch
          /\ Withdraw(Slice) /\ lease' = [s \in Slice |-> "ready"] /\ UNCHANGED <<used, erred>>
  /\ op' = "park"
  /\ UNCHANGED <<native, coordinator, fresh, bounds>>

OpPark ==
  /\ op = "park"
  /\ card' = [n \in Node |-> Hold(card[n])]
  /\ op' = "idle"
  /\ UNCHANGED <<vars, failed, working, coordinator, fresh, bounds>>

OpResume ==
  /\ op = "idle"
  /\ \/ Resume /\ fresh' = {}
     \/ state = "active" /\ batchStopped /\ UNCHANGED <<vars, fresh>>
  /\ op' = "reopen"
  /\ Uninvolved /\ UNCHANGED bounds

\* Refused when the batch's state says that it is not cancelled.
OpReopen ==
  /\ op = "reopen"
  /\ IF batchStopped /\ batchState = "cancelled" THEN ResumeCancelledBatch ELSE UNCHANGED vars
  /\ op' = "idle"
  /\ Uninvolved /\ UNCHANGED <<fresh, bounds>>

OpCrash ==
  /\ op # "idle" /\ crashes < MaxCrash
  /\ op' = "idle" /\ crashes' = crashes + 1
  /\ Uninvolved /\ UNCHANGED <<vars, fresh, stops>>

PersonDecides ==
  /\ \/ \E c \in {Checkpoint1, Checkpoint2} : Approve(c)
     \/ \E i \in Id, b \in Boundary : ContinueWorkflow(i, b)
     \/ op = "idle" /\ \E S \in SUBSET Slice : SkipPasses(S)
  /\ fresh' = {}
  /\ Uninvolved /\ UNCHANGED <<op, bounds>>

OperatorNext ==
  \/ OpCancel
  \/ OpCancelAgain
  \/ OpBatch
  \/ OpPark
  \/ OpResume
  \/ OpReopen

ControlNext ==
  \/ CoNext
  \/ CoCrash
  \/ RefillNext
  \/ \E n \in Node : Claim(n) \/ WorkerStep(n) \/ WorkerDies(n) \/ NativeEnd(n)
  \/ \E s \in Slice : LateEnds(s)
  \/ OperatorNext
  \/ OpCrash
  \/ PersonDecides

\* The watcher, the dispatcher's ticks and the processes they start go on, and
\* a retry's time comes; nobody need stop, resume, continue or approve.
ControlFairness ==
  /\ WF_allVars(CoNext)
  /\ WF_allVars(\E n \in Node : Claim(n))
  /\ WF_allVars(\E n \in Node : WorkerStep(n))
  /\ WF_allVars(\E n \in Node : NativeEnd(n))
  /\ SF_allVars(\E s \in Slice : CoRefresh(s))

ControlSpec == ControlInit /\ [][ControlNext]_allVars

FairControlSpec == ControlSpec /\ ControlFairness

(***************************************************************************)
(* Properties.                                                             *)
(***************************************************************************)
ControlTypeOK ==
  /\ TypeOK
  /\ card \in [Node -> {"none", "new", "held", "ready", "running", "reaped", "ended", "again",
                       "done", "archived"}]
  /\ failed \in [Node -> {"none", "error", "review"}]
  /\ worker \in [Node -> {"off", "begun", "leased", "wrote", "checked", "validated", "advanced"}]
  /\ lease \in [Slice -> {"ready", "leased", "retry", "held"}]
  /\ used \in [Slice -> 0..MaxAttempts]
  /\ erred \in [Slice -> BOOLEAN] /\ late \subseteq Slice
  /\ op \in {"idle", "batch", "park", "reopen"}
  /\ co \in {"idle", "settle", "bind", "hold", "project"}
  /\ graph \subseteq Node /\ todo \subseteq graph /\ fresh \subseteq Node \cup {"co"}
  /\ stops \in 0..MaxStop /\ crashes \in 0..MaxCrash

\* Nobody offers a card to the dispatcher while a worker of it may still write,
\* whoever parked or ended the card behind that worker's back.
OneWorkerPerNode == \A n \in Node : worker[n] # "off" => card[n] \notin {"ready", "again"}

\* A card is closed as done only on a domain result that is there, though the
\* coordinator decides it from a copy of the record that may be old.
DoneTruthful == \A n \in Node : card[n] = "done" => CompletedBy(Snapshot, n)

\* A ready card of a workflow that may run is admitted by the record as it is:
\* the dispatcher never turns an outdated projection into a failure report.
ReadyFits ==
  \A n \in Node :
    card[n] \in {"ready", "again"} /\ Running /\ NotPaused => Admitted(n, FALSE)

\* The cards tell the truth about the record they were projected from.
CardsTruthful == ControlTypeOK /\ DoneTruthful /\ ReadyFits

Closed == {"reaped", "ended", "done", "archived"}

\* A card whose run ended, or that was closed, is offered again only if it is
\* the card of an unfinished Pass that nobody leased, that no worker can still
\* write, of which no failure is reported, and either its slice records how the
\* run ended or the run was reaped and not yet reported.
NeverOfferedAgain ==
  [][\A n \in Node : card[n] \in Closed /\ card'[n] \notin Closed =>
       /\ n \in Slice \ done /\ card'[n] = "again"
       /\ lease[n] = "ready" /\ worker[n] = "off" /\ failed[n] = "none"
       /\ card[n] = "reaped" \/ (card[n] = "ended" /\ erred[n])]_allVars

Stopped == state = "cancelled" \/ batchStopped

\* Somebody can see why an unattended workflow does not move.
Rested ==
  \/ Final \/ Stopped
  \/ pause # NoPause
  \/ \E n \in Node : failed[n] = "review" \/ Blocked(n)
  \/ \E s \in Slice : lease[s] = "held"
  \/ stage \in {Checkpoint1, Checkpoint2} /\ ~approved[stage]
  \/ scope.mode = "canary_only" /\ CanaryPassed

\* Left alone, a workflow ends, pauses, awaits a decision or shows a failure:
\* it is never silently stuck, whichever process dies at whatever step.
ComesToRest == []<>Rested

\* A result that was written is acknowledged on its card, though its worker or
\* the coordinator may die before it says so.
Acknowledged ==
  \A n \in Node : card[n] \in {"running", "reaped", "ended", "again"} => ~CompletedBy(Snapshot, n)

ResultsAcknowledged == []<>(Acknowledged \/ Stopped)

(* What does not hold: README, section 6.                                  *)

\* The operator's resume clears the stop: once an uninterrupted command is
\* through, the batch of a running workflow is not stopped (operations.md).
ResumeClears == op = "idle" /\ state = "active" /\ crashes = 0 => ~batchStopped
=============================================================================
