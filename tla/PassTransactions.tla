-------------------------- MODULE PassTransactions --------------------------
(***************************************************************************)
(* The two transactions an operator runs on a stopped workflow in its Pass *)
(* stage: skipping failed slices (pass_skips.py) and amending the          *)
(* execution plan, which cuts the unfinished tasks into new slices         *)
(* (execution_plan.py).  Each writes a journal, several files, the         *)
(* workflow record, and removes the journal; a process that dies between   *)
(* leaves the journal, and the same request, sent again, finishes.  Around *)
(* them: workers on slices, cancellation and resumption in their two steps *)
(* (workflow record, then batch), the canary, the advance to reducing.     *)
(*                                                                         *)
(* The transactions hold the workflow's lock throughout, and the batch's   *)
(* lock in part.  A slice is named by the plan that made it and the tasks  *)
(* it owns; a failure is one of the semantic kind, which nothing here      *)
(* repairs but a skip or, once, an amendment.  Pauses, Pass revisions and  *)
(* changed sources are left out.                                           *)
(***************************************************************************)
EXTENDS Integers, FiniteSets

CONSTANTS NumTasks,       \* tasks of the batch, in its order
          FirstSlices,    \* the sets of tasks of the slices first planned
          Trial,          \* those of the canary; none: the canary was skipped
          SkipOp,         \* operation ids of skip requests; a bound
          MaxAmendments,  \* bound: amendments
          MaxCommands,    \* bound: cancellations, and changes of the canary
          MaxCrashes      \* bound: processes that die

Task == 1 .. NumTasks

ASSUME TransactionsAssumption ==
    /\ NumTasks \in Nat \ {0}
    /\ FirstSlices \subseteq SUBSET Task /\ UNION FirstSlices = Task /\ {} \notin FirstSlices
    /\ \A S, T \in FirstSlices : S = T \/ S \cap T = {}
    /\ Trial \subseteq FirstSlices
    /\ IsFiniteSet(SkipOp)
    /\ MaxAmendments \in Nat /\ MaxCommands \in Nat /\ MaxCrashes \in Nat

VARIABLES
    revision, cancelled, stage, mode, plan, gaps,    \* the workflow record
    batchRevision, batchCancelled, batchPlan, sliceIds,      \* the batch record
    files,        \* slice files: their states
    done,         \* tasks whose Passes are complete
    failed,       \* slices with a failure report
    skipped,      \* tasks whose record says skipped
    reports,      \* gap reports
    manifests,    \* plans whose manifest was written
    skipPending,  \* the journal of a skip, if there is one
    amendPending, \* the journal of an amendment, if there is one
    at,           \* where the transaction is that holds the workflow's lock
    resuming, cancelling,  \* a command between its two steps
    commands, crashes,
    orderly       \* operators end what they have begun before the next command
workflow == <<revision, cancelled, stage, mode, plan, gaps>>
batch == <<batchRevision, batchCancelled, batchPlan, sliceIds>>
evidence == <<done, failed, skipped, reports, manifests>>
journals == <<skipPending, amendPending, at>>
operators == <<resuming, cancelling, commands, crashes, orderly>>
vars == <<workflow, batch, files, evidence, journals, operators>>

Slice == (0 .. MaxAmendments) \X ((SUBSET Task) \ {{}})
Tasks(s) == s[2]
TasksOf(S) == UNION {Tasks(s) : s \in S}
First == {<<0, T>> : T \in FirstSlices}
Canary == {<<0, T>> : T \in Trial}

Entry == [slice : Slice, tasks : SUBSET Task]
Skipping(g) == UNION {e.tasks : e \in g.entries}
SkippedSlices == {e.slice : e \in UNION {g.entries : g \in gaps}}
Recorded(op) == \E g \in gaps : g.op = op

Init ==
    /\ revision = 0 /\ cancelled = FALSE /\ stage = "analyzing"
    /\ mode = IF Trial = {} THEN "full" ELSE "canary"
    /\ plan = 0 /\ gaps = {}
    /\ batchRevision = 0 /\ batchCancelled = FALSE /\ batchPlan = 0 /\ sliceIds = First
    /\ files = [s \in Slice |-> IF s \in First THEN "ready" ELSE "absent"]
    /\ done = {} /\ failed = {} /\ skipped = {} /\ reports = {} /\ manifests = {}
    /\ skipPending = {} /\ amendPending = {} /\ at = "idle"
    /\ resuming = FALSE /\ cancelling = FALSE /\ commands = 0 /\ crashes = 0
    /\ orderly \in BOOLEAN

\* Before the first amendment every slice file counts, then the listed ones.
OnDisk == {s \in Slice : files[s] # "absent"}
Active == IF batchPlan = 0 THEN OnDisk ELSE sliceIds
OwnedOnce ==
    /\ TasksOf(Active) = Task
    /\ \A s, r \in Active : s = r \/ Tasks(s) \cap Tasks(r) = {}

LockFree == at = "idle"
BatchLockFree == at \notin {"skipping", "writing"}
Alone == orderly => ~resuming /\ ~cancelling
Settled == orderly => skipPending = {} /\ amendPending = {}
NoLeases == \A s \in Active : files[s] # "leased"

(***************************************************************************)
(* What must be in order before a workflow resumes.                        *)
(***************************************************************************)
Verified(g) ==
    /\ g \in reports
    /\ \A e \in g.entries : /\ files[e.slice] # "absent"
                            /\ Tasks(e.slice) \ e.tasks \subseteq done
                            /\ e.tasks \subseteq skipped

VerifySkips ==
    /\ skipPending = {}
    /\ \A g \in gaps : Verified(g)
    /\ \A g, h \in gaps : g = h \/ Skipping(g) \cap Skipping(h) = {}

PlanReady == plan = batchPlan /\ (plan = 0 \/ plan \in manifests)

ExecutionReady == VerifySkips /\ amendPending = {} /\ PlanReady

(***************************************************************************)
(* Workers.  Their writes are made under the workflow's lock.              *)
(***************************************************************************)
Running == LockFree /\ ~cancelled /\ stage = "analyzing"
Admitted(s) ==
    /\ s \notin SkippedSlices
    /\ mode = "full" \/ (mode = "canary" /\ s \in Canary)

Claim(s) ==
    /\ Running /\ ~batchCancelled
    /\ s \in Active /\ files[s] = "ready" /\ s \notin failed /\ Admitted(s)
    /\ files' = [files EXCEPT ![s] = "leased"]
    /\ UNCHANGED <<workflow, batch, evidence, journals, operators>>

Pass(s, t) ==
    /\ Running /\ files[s] = "leased" /\ t \in Tasks(s) \ done
    /\ done' = done \cup {t}
    /\ UNCHANGED <<workflow, batch, files, failed, skipped, reports, manifests, journals, operators>>

Complete(s) ==
    /\ Running /\ files[s] = "leased" /\ Tasks(s) \subseteq done
    /\ files' = [files EXCEPT ![s] = "completed"]
    /\ UNCHANGED <<workflow, batch, evidence, journals, operators>>

Fail(s) ==
    /\ Running /\ files[s] = "leased"
    /\ files' = [files EXCEPT ![s] = "blocked"]
    /\ failed' = failed \cup {s}
    /\ UNCHANGED <<workflow, batch, done, skipped, reports, manifests, journals, operators>>

(***************************************************************************)
(* Cancellation and resumption.  Each changes the workflow record, then,   *)
(* under the other lock, the batch; both may be sent again.                *)
(***************************************************************************)
Cancel ==
    /\ LockFree /\ Alone
    /\ ~cancelled /\ commands < MaxCommands
    /\ cancelled' = TRUE /\ revision' = revision + 1
    /\ cancelling' = TRUE /\ commands' = commands + 1
    /\ UNCHANGED <<stage, mode, plan, gaps, batch, files, evidence, journals, resuming, crashes, orderly>>

CancelAgain ==
    /\ LockFree /\ Alone /\ cancelled
    /\ cancelling' = TRUE
    /\ UNCHANGED <<workflow, batch, files, evidence, journals>>
    /\ UNCHANGED <<resuming, commands, crashes, orderly>>

CancelBatch ==
    /\ cancelling /\ BatchLockFree
    /\ cancelling' = FALSE
    /\ IF batchCancelled THEN UNCHANGED <<batch, files>>
       ELSE /\ files' = [s \in Slice |-> IF s \in Active /\ files[s] # "completed"
                                           THEN "cancelled" ELSE files[s]]
            /\ batchCancelled' = TRUE /\ batchRevision' = batchRevision + 1
            /\ UNCHANGED <<batchPlan, sliceIds>>
    /\ UNCHANGED <<workflow, evidence, journals, resuming, commands, crashes, orderly>>

\* Mutant: resumption does not look whether execution is ready.
Resume_Unready ==
    /\ LockFree /\ Alone
    /\ cancelled' = FALSE
    /\ revision' = IF cancelled THEN revision + 1 ELSE revision
    /\ resuming' = TRUE
    /\ UNCHANGED <<stage, mode, plan, gaps, batch, files, evidence, journals>>
    /\ UNCHANGED <<cancelling, commands, crashes, orderly>>

Resume ==
    /\ LockFree /\ Alone
    /\ ExecutionReady
    /\ cancelled' = FALSE
    /\ revision' = IF cancelled THEN revision + 1 ELSE revision
    /\ resuming' = TRUE
    /\ UNCHANGED <<stage, mode, plan, gaps, batch, files, evidence, journals>>
    /\ UNCHANGED <<cancelling, commands, crashes, orderly>>

\* Tasks of refused slices no completed slice owns now.
Refused == TasksOf({s \in failed : files[s] # "completed"})
             \ TasksOf({s \in Active : files[s] = "completed"})

\* Mutant: only refused work is held back.
Deferred_Refused(s) == batchPlan # 0 /\ files[s] # "completed" /\ Tasks(s) \cap Refused # {}

\* Held back from resumption and from new plans.
Deferred(s) ==
    \/ Tasks(s) \cap skipped # {}
    \/ batchPlan # 0 /\ files[s] # "completed" /\ Tasks(s) \cap Refused # {}

ResumeBatch ==
    /\ resuming /\ BatchLockFree
    /\ resuming' = FALSE
    /\ IF ~batchCancelled THEN UNCHANGED <<batch, files>>
       ELSE /\ files' = [s \in Slice |-> IF s \in Active /\ files[s] = "cancelled" /\ ~Deferred(s)
                                           THEN "ready" ELSE files[s]]
            /\ batchCancelled' = FALSE /\ batchRevision' = batchRevision + 1
            /\ UNCHANGED <<batchPlan, sliceIds>>
    /\ UNCHANGED <<workflow, evidence, journals, cancelling, commands, crashes, orderly>>

\* The process of either command dies between its steps.
CallerDies ==
    /\ crashes < MaxCrashes /\ crashes' = crashes + 1
    /\ \/ resuming /\ resuming' = FALSE /\ UNCHANGED cancelling
       \/ cancelling /\ cancelling' = FALSE /\ UNCHANGED resuming
    /\ UNCHANGED <<workflow, batch, files, evidence, journals, commands, orderly>>

(***************************************************************************)
(* The canary, and the end of the Pass stage.                              *)
(***************************************************************************)
Switch(from, to) ==
    /\ LockFree /\ Alone /\ Settled /\ mode = from
    /\ commands < MaxCommands /\ commands' = commands + 1
    /\ mode' = to /\ revision' = revision + 1
    /\ UNCHANGED <<cancelled, stage, plan, gaps, batch, files, evidence, journals>>
    /\ UNCHANGED <<resuming, cancelling, crashes, orderly>>

Disarm == Switch("canary", "disabled")
Arm == Switch("disabled", "canary")

Promote ==
    /\ Running /\ mode = "canary"
    /\ VerifySkips
    /\ \A s \in Canary : s \in SkippedSlices \/ files[s] = "completed"
    /\ mode' = "full" /\ revision' = revision + 1
    /\ UNCHANGED <<cancelled, stage, plan, gaps, batch, files, evidence, journals, operators>>

Advance ==
    /\ stage' = "reducing" /\ revision' = revision + 1
    /\ UNCHANGED <<cancelled, mode, plan, gaps, batch, files, evidence, journals, operators>>

\* Mutant: work that is held back counts as skipped.
FinishPasses_Held ==
    /\ Running /\ mode = "full"
    /\ \A s \in Active : files[s] = "completed" \/ Deferred(s)
    /\ VerifySkips
    /\ Advance

FinishPasses ==
    /\ Running /\ mode = "full"
    /\ \A s \in Active : files[s] = "completed" \/ s \in SkippedSlices
    /\ VerifySkips
    /\ Advance

(***************************************************************************)
(* Skipping failed work.  Both locks are held from the first check on.     *)
(***************************************************************************)
SkipAllowed ==
    /\ cancelled /\ stage = "analyzing" /\ mode \in {"canary", "full"}
    /\ batchCancelled /\ NoLeases /\ OwnedOnce

\* Explicitly a whole slice; automatically at least what is not done of it.
Selectable(e) ==
    /\ e.slice \in Active \ SkippedSlices /\ files[e.slice] = "cancelled"
    /\ Tasks(e.slice) \cap TasksOf(failed) # {}
    /\ e.tasks # {} /\ e.tasks \subseteq Tasks(e.slice) \ skipped
    /\ Tasks(e.slice) \ e.tasks \subseteq done

BeginSkip(op) ==
    /\ LockFree /\ Alone
    /\ ~Recorded(op) /\ SkipAllowed /\ ExecutionReady
    /\ \E E \in SUBSET {e \in Entry : Selectable(e)} :
          /\ E # {} /\ \A d, e \in E : d = e \/ d.slice # e.slice
          /\ skipPending' = {[op |-> op, revision |-> revision, entries |-> E]}
    /\ at' = "skipping"
    /\ UNCHANGED <<workflow, batch, files, evidence, amendPending, operators>>

RetrySkip ==
    /\ LockFree /\ Alone /\ SkipAllowed
    /\ \E j \in skipPending : ~Recorded(j.op) /\ revision = j.revision
    /\ at' = "skipping"
    /\ UNCHANGED <<workflow, batch, files, evidence, skipPending, amendPending, operators>>

\* What the report of a skip, and the workflow's pointer to it, say.
Gap(j) == [op |-> j.op, entries |-> j.entries]

SkipTask(t) ==
    /\ at = "skipping"
    /\ \E j \in skipPending : t \in Skipping(j) \ skipped
    /\ skipped' = skipped \cup {t}
    /\ UNCHANGED <<workflow, batch, files, done, failed, reports, manifests, journals, operators>>

SkipReport ==
    /\ at = "skipping"
    /\ \E j \in skipPending : /\ Skipping(j) \subseteq skipped
                              /\ Gap(j) \notin reports
                              /\ reports' = reports \cup {Gap(j)}
    /\ UNCHANGED <<workflow, batch, files, done, failed, skipped, manifests, journals, operators>>

\* Mutant: the workflow record is written before the tasks.
SkipRecord_First ==
    /\ at = "skipping"
    /\ \E j \in skipPending : gaps' = gaps \cup {Gap(j)} /\ ~Recorded(j.op)
    /\ revision' = revision + 1
    /\ UNCHANGED <<cancelled, stage, mode, plan, batch, files, evidence, journals, operators>>

SkipRecord ==
    /\ at = "skipping"
    /\ \E j \in skipPending : /\ Skipping(j) \subseteq skipped /\ Gap(j) \in reports
                              /\ ~Recorded(j.op)
                              /\ gaps' = gaps \cup {Gap(j)}
    /\ revision' = revision + 1
    /\ UNCHANGED <<cancelled, stage, mode, plan, batch, files, evidence, journals, operators>>

SkipUnlink ==
    /\ at = "skipping"
    /\ \E j \in skipPending : Recorded(j.op)
    /\ skipPending' = {} /\ at' = "idle"
    /\ UNCHANGED <<workflow, batch, files, evidence, amendPending, operators>>

\* Mutant: a recorded skip is acknowledged, its journal not looked at.
ReplaySkip_Acknowledges ==
    /\ LockFree /\ Alone /\ cancelled
    /\ \E j \in skipPending : Recorded(j.op) /\ Skipping(j) \subseteq skipped
    /\ UNCHANGED vars

\* A skip that is recorded already only loses its journal.
ReplaySkip ==
    /\ LockFree /\ Alone /\ cancelled
    /\ \E j \in skipPending : Recorded(j.op) /\ Skipping(j) \subseteq skipped
    /\ skipPending' = {}
    /\ UNCHANGED <<workflow, batch, files, evidence, amendPending, at, operators>>

(***************************************************************************)
(* Amending the execution plan.                                            *)
(***************************************************************************)
\* Mutant: only what is held back is left alone.
Kept_Held == {s \in Active : files[s] = "blocked" \/ Deferred(s)}

Kept == {s \in Active : files[s] \in {"completed", "blocked"} \/ Deferred(s)}

\* Runs of unfinished tasks in their order; sizes and measures are a choice.
Packings(U) ==
    {P \in SUBSET ((SUBSET U) \ {{}}) :
        /\ UNION P = U
        /\ \A S, T \in P : S = T \/ S \cap T = {}
        /\ \A S \in P : \A a, b \in S : \A t \in U : (a < t /\ t < b) => t \in S}

\* The preview is made under both locks, the journal written under the first.
BeginAmendment ==
    /\ LockFree /\ Alone /\ Settled /\ amendPending = {} /\ plan < MaxAmendments
    /\ cancelled /\ stage = "analyzing" /\ mode = "full"
    /\ batchCancelled /\ NoLeases /\ OwnedOnce
    /\ \E P \in Packings(Task \ TasksOf(Kept)) :
          amendPending' = {[plan |-> plan + 1, revision |-> revision,
                            batchRevision |-> batchRevision, protected |-> skipped,
                            kept |-> Kept, new |-> {<<plan + 1, T>> : T \in P}]}
    /\ at' = "checking"
    /\ UNCHANGED <<workflow, batch, files, evidence, skipPending, operators>>

RetryAmendment ==
    /\ LockFree /\ Alone /\ amendPending # {}
    /\ at' = "checking"
    /\ UNCHANGED <<workflow, batch, files, evidence, skipPending, amendPending, operators>>

\* Mutant: what the transaction has written itself counts as changed.
Finishable_BeforeOnly(j) ==
    /\ j.protected = skipped
    /\ revision = j.revision
    /\ batchRevision = j.batchRevision

\* Protected files are as they were; each record is as it was, or as the
\* transaction writes it.
Finishable(j) ==
    /\ j.protected = skipped
    /\ \A s \in j.kept : files[s] \in {"completed", "cancelled"}
    /\ \A s \in j.new : files[s] \in {"absent", "cancelled"}
    /\ \/ revision = j.revision
       \/ revision = j.revision + 1 /\ plan = j.plan
    /\ \/ batchRevision = j.batchRevision
       \/ batchRevision = j.batchRevision + 1 /\ batchPlan = j.plan

CheckAmendment ==
    /\ at = "checking"
    /\ \E j \in amendPending : at' = IF Finishable(j) THEN "writing" ELSE "idle"
    /\ UNCHANGED <<workflow, batch, files, evidence, skipPending, amendPending, operators>>

AmendSlice(s) ==
    /\ at = "writing"
    /\ \E j \in amendPending : s \in j.new
    /\ files[s] = "absent" /\ files' = [files EXCEPT ![s] = "cancelled"]
    /\ UNCHANGED <<workflow, batch, evidence, journals, operators>>

AmendManifest ==
    /\ at = "writing"
    /\ \E j \in amendPending : /\ j.new \subseteq OnDisk /\ j.plan \notin manifests
                               /\ manifests' = manifests \cup {j.plan}
    /\ UNCHANGED <<workflow, batch, files, done, failed, skipped, reports, journals, operators>>

\* Mutant: the batch lists the new slices only.
AmendBatch_OnlyNew ==
    /\ at = "writing"
    /\ \E j \in amendPending : /\ j.plan \in manifests /\ batchPlan # j.plan
                               /\ batchPlan' = j.plan /\ sliceIds' = j.new
    /\ batchRevision' = batchRevision + 1
    /\ UNCHANGED <<workflow, batchCancelled, files, evidence, journals, operators>>

AmendBatch ==
    /\ at = "writing"
    /\ \E j \in amendPending : /\ j.plan \in manifests /\ batchPlan # j.plan
                               /\ batchPlan' = j.plan /\ sliceIds' = j.kept \cup j.new
    /\ batchRevision' = batchRevision + 1
    /\ UNCHANGED <<workflow, batchCancelled, files, evidence, journals, operators>>

AmendRecord ==
    /\ at = "writing"
    /\ \E j \in amendPending : batchPlan = j.plan /\ plan # j.plan /\ plan' = j.plan
    /\ revision' = revision + 1
    /\ UNCHANGED <<cancelled, stage, mode, gaps, batch, files, evidence, journals, operators>>

AmendUnlink ==
    /\ at = "writing"
    /\ \E j \in amendPending : plan = j.plan
    /\ amendPending' = {} /\ at' = "idle"
    /\ UNCHANGED <<workflow, batch, files, evidence, skipPending, operators>>

\* The process of a transaction dies; its locks go with it.
Crash ==
    /\ ~LockFree /\ crashes < MaxCrashes
    /\ at' = "idle" /\ crashes' = crashes + 1
    /\ UNCHANGED <<workflow, batch, files, evidence, skipPending, amendPending>>
    /\ UNCHANGED <<resuming, cancelling, commands, orderly>>

Worker == \E s \in Slice : \/ Claim(s) \/ Complete(s) \/ Fail(s)
                           \/ \E t \in Task : Pass(s, t)
Operator == Cancel \/ CancelAgain \/ CancelBatch \/ Resume \/ ResumeBatch \/ Disarm \/ Arm
SkipWrites == (\E t \in Task : SkipTask(t)) \/ SkipReport \/ SkipRecord \/ SkipUnlink
AmendWrites == \/ CheckAmendment \/ AmendManifest \/ AmendBatch \/ AmendRecord \/ AmendUnlink
               \/ \E s \in Slice : AmendSlice(s)
Retry == RetrySkip \/ ReplaySkip \/ RetryAmendment
Next ==
    \/ Worker \/ Operator \/ Promote \/ FinishPasses
    \/ (\E op \in SkipOp : BeginSkip(op)) \/ BeginAmendment \/ Retry
    \/ SkipWrites \/ AmendWrites
    \/ CallerDies \/ Crash

Spec == Init /\ [][Next]_vars

\* A process that has begun goes on unless it dies, and who has begun a
\* transaction sends its request again.
FairSpec ==
    /\ Spec
    /\ WF_vars(SkipWrites) /\ WF_vars(AmendWrites)
    /\ WF_vars(CancelBatch) /\ WF_vars(ResumeBatch)
    /\ SF_vars(RetrySkip \/ ReplaySkip) /\ SF_vars(RetryAmendment)

(***************************************************************************)
(* Properties.                                                             *)
(***************************************************************************)
TypeOK ==
    /\ revision \in Nat /\ cancelled \in BOOLEAN /\ stage \in {"analyzing", "reducing"}
    /\ mode \in {"canary", "disabled", "full"} /\ plan \in 0 .. MaxAmendments
    /\ gaps \subseteq [op : SkipOp, entries : SUBSET Entry]
    /\ batchRevision \in Nat /\ batchCancelled \in BOOLEAN
    /\ batchPlan \in 0 .. MaxAmendments /\ sliceIds \subseteq Slice
    /\ files \in [Slice -> {"absent", "ready", "leased", "blocked", "completed", "cancelled"}]
    /\ done \subseteq Task /\ failed \subseteq Slice /\ skipped \subseteq Task
    /\ reports \subseteq [op : SkipOp, entries : SUBSET Entry]
    /\ manifests \subseteq 1 .. MaxAmendments
    /\ skipPending \subseteq [op : SkipOp, revision : Nat, entries : SUBSET Entry]
    /\ amendPending \subseteq [plan : 1 .. MaxAmendments, revision : Nat, batchRevision : Nat,
                               protected : SUBSET Task, kept : SUBSET Slice, new : SUBSET Slice]
    /\ at \in {"idle", "skipping", "checking", "writing"}
    /\ resuming \in BOOLEAN /\ cancelling \in BOOLEAN
    /\ commands \in Nat /\ crashes \in Nat /\ orderly \in BOOLEAN

\* An unfinished transaction keeps the workflow stopped, whoever resumes or
\* cancels what, and no worker holds a slice meanwhile.
StoppedWhilePending == skipPending # {} \/ amendPending # {} => cancelled /\ NoLeases

\* A recorded gap has its report and its tasks behind it, or no check of the
\* workflow would pass again; and no task is given up that is in no gap.
GapsAccounted ==
    /\ \A g \in gaps : Verified(g)
    /\ skipped \subseteq UNION {Skipping(j) : j \in gaps \cup skipPending}

\* A workflow that runs has one plan, in its own record and in its batch's, by
\* which each task belongs to one slice.
WorkOwnedOnce == ~cancelled => plan = batchPlan /\ OwnedOnce

\* Given-up work is not offered again: by no resumption, late or not.
SkippedNotOffered == \A s \in Active : Tasks(s) \cap skipped # {} => files[s] = "cancelled"

\* What reaches the Reduce stage: every task's Passes are complete, or the
\* task is in a recorded gap.
ReducingAccounts ==
    stage = "reducing" => \A t \in Task : t \in done \/ \E g \in gaps : t \in Skipping(g)

\* Work that is given up: accounted for, never offered again, and the only
\* work that Reduce goes without.
SkipsHold == GapsAccounted /\ SkippedNotOffered /\ ReducingAccounts

\* Completed slices stay in force through amendments and cancellations, and
\* recorded gaps stay recorded.
OutcomesStay ==
    [][ /\ gaps \subseteq gaps'
        /\ \A s \in Active : files[s] = "completed" => s \in Active' /\ files'[s] = "completed" ]_vars

\* When operators end what they have begun before the next command, whoever
\* asks again after a crash in the end sees the transaction finished.
TransactionsEnd ==
    /\ orderly /\ skipPending # {} ~> skipPending = {}
    /\ orderly /\ amendPending # {} ~> amendPending = {}

(***************************************************************************)
(* What does not hold when they do not: README, section 6.                 *)
(***************************************************************************)
\* What operations.md:228 and pass_skips.py:40 promise: an interrupted skip can
\* be finished by the same request.
SkipFinishes ==
    \A j \in skipPending :
        \/ Recorded(j.op) /\ Skipping(j) \subseteq skipped
        \/ revision = j.revision /\ mode \in {"canary", "full"} /\ stage = "analyzing"

\* What compact-execution.md:78 promises of an amendment.
AmendFinishes == \A j \in amendPending : Finishable(j)
=============================================================================
