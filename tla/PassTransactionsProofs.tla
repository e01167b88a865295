----------------------- MODULE PassTransactionsProofs -----------------------
(***************************************************************************)
(* Proofs about PassTransactions, for every number of tasks, first cut,    *)
(* canary and bound, and whether or not operators are orderly.             *)
(***************************************************************************)
EXTENDS PassTransactions, TLAPS

\* One journal of a kind, whose transaction holds the locks it says.
Journals ==
    /\ \A i, j \in skipPending : i = j
    /\ \A i, j \in amendPending : i = j
    /\ at = "skipping" => skipPending # {} /\ batchCancelled
    /\ at \in {"checking", "writing"} => amendPending # {}
    /\ at = "writing" => batchCancelled /\ \A j \in amendPending : Finishable(j)

Stopped ==
    skipPending # {} \/ amendPending # {} =>
        cancelled /\ \A s \in Slice : files[s] # "leased"

\* Slice files: what is not in force was cancelled before it was superseded,
\* what is in force exists, rests when the batch is stopped, and is complete
\* only with its Passes.
Files ==
    /\ \A s \in Slice : s \notin Active => files[s] \in {"absent", "cancelled"}
    /\ batchPlan # 0 => sliceIds \subseteq OnDisk
    /\ batchCancelled => \A s \in Active : files[s] \in {"completed", "cancelled"}
    /\ \A s \in Slice : files[s] = "completed" => Tasks(s) \subseteq done

\* How far the records are, seen from the journal of an amendment.
Plans ==
    /\ amendPending = {} => plan = batchPlan
    /\ \A n \in manifests : n <= plan \/ \E j \in amendPending : n = j.plan
    /\ \A j \in amendPending :
          /\ \/ plan = j.plan - 1 /\ batchPlan \in {j.plan - 1, j.plan}
             \/ plan = j.plan /\ batchPlan = j.plan
          /\ batchRevision >= j.batchRevision
          /\ batchRevision = j.batchRevision => batchCancelled /\ batchPlan = j.plan - 1
          /\ batchRevision = j.batchRevision + 1 /\ batchPlan = j.plan => batchCancelled

\* Ownership: in force, and in an amendment under way.
Owned ==
    /\ amendPending = {} \/ batchPlan # 0 => OwnedOnce
    /\ \A j \in amendPending :
          /\ TasksOf(j.kept \cup j.new) = Task
          /\ \A s, r \in j.kept \cup j.new : s = r \/ Tasks(s) \cap Tasks(r) = {}
          /\ j.kept \subseteq OnDisk
          /\ batchPlan # j.plan => \A s \in Active : files[s] = "completed" => s \in j.kept
          /\ j.plan \in manifests => j.new \subseteq OnDisk

\* Skipped work, and work about to be.
Skips ==
    /\ \A j \in skipPending :
          /\ \A e \in j.entries : files[e.slice] # "absent" /\ Tasks(e.slice) \ e.tasks \subseteq done
          /\ \A g \in gaps : g.op = j.op => g = Gap(j)
          /\ \A t \in Skipping(j) : \A s \in Slice : t \in Tasks(s) => files[s] # "completed"
    /\ \A s \in Slice : Tasks(s) \cap skipped # {} => files[s] \in {"absent", "cancelled"}

IInv == /\ TypeOK /\ Journals /\ Stopped /\ Files /\ Plans /\ Owned /\ Skips
        /\ GapsAccounted /\ ReducingAccounts

LEMMA ClaimKeeps == ASSUME IInv, NEW s \in Slice, Claim(s) PROVE IInv'
<1>1. TypeOK'
  BY DEF IInv, Claim, Running, LockFree, TypeOK, Entry, workflow, batch, evidence, journals, operators
<1>2. Journals'
  BY DEF IInv, Claim, Running, LockFree, TypeOK, Journals, Finishable, workflow, batch, evidence, journals, operators
<1>3. Stopped'
  BY DEF IInv, Claim, Running, LockFree, TypeOK, Stopped, workflow, batch, evidence, journals, operators
<1>4. Files'
  BY DEF IInv, Claim, Running, LockFree, TypeOK, Files, Active, OnDisk, workflow, batch, evidence, journals, operators
<1>5. Plans'
  BY DEF IInv, Claim, Running, LockFree, TypeOK, Plans, Journals, workflow, batch, evidence, journals, operators
<1>6. Owned'
  BY DEF IInv, Claim, Running, LockFree, TypeOK, Owned, OwnedOnce, Active, OnDisk, workflow, batch, evidence, journals, operators
<1>7. Skips'
  BY DEF IInv, Claim, Running, LockFree, TypeOK, Skips, Gap, workflow, batch, evidence, journals, operators
<1>8. GapsAccounted'
  BY DEF IInv, Claim, Running, LockFree, TypeOK, GapsAccounted, Verified, Skipping, workflow, batch, evidence, journals, operators
<1>9. ReducingAccounts'
  BY DEF IInv, Claim, Running, LockFree, TypeOK, ReducingAccounts, Skipping, workflow, batch, evidence, journals, operators
<1> QED BY <1>1, <1>2, <1>3, <1>4, <1>5, <1>6, <1>7, <1>8, <1>9 DEF IInv

LEMMA PassKeeps == ASSUME IInv, NEW s \in Slice, NEW t \in Task, Pass(s, t) PROVE IInv'
<1>1. TypeOK'
  BY DEF IInv, Pass, Running, LockFree, TypeOK, Entry, workflow, batch, evidence, journals, operators
<1>2. Journals'
  BY DEF IInv, Pass, Running, LockFree, TypeOK, Journals, Finishable, workflow, batch, evidence, journals, operators
<1>3. Stopped'
  BY DEF IInv, Pass, Running, LockFree, TypeOK, Stopped, workflow, batch, evidence, journals, operators
<1>4. Files'
  BY DEF IInv, Pass, Running, LockFree, TypeOK, Files, Active, OnDisk, workflow, batch, evidence, journals, operators
<1>5. Plans'
  BY DEF IInv, Pass, Running, LockFree, TypeOK, Plans, Journals, workflow, batch, evidence, journals, operators
<1>6. Owned'
  BY DEF IInv, Pass, Running, LockFree, TypeOK, Owned, OwnedOnce, Active, OnDisk, workflow, batch, evidence, journals, operators
<1>7. Skips'
  BY DEF IInv, Pass, Running, LockFree, TypeOK, Skips, Gap, workflow, batch, evidence, journals, operators
<1>8. GapsAccounted'
  BY DEF IInv, Pass, Running, LockFree, TypeOK, GapsAccounted, Verified, Skipping, workflow, batch, evidence, journals, operators
<1>9. ReducingAccounts'
  BY DEF IInv, Pass, Running, LockFree, TypeOK, ReducingAccounts, Skipping, workflow, batch, evidence, journals, operators
<1> QED BY <1>1, <1>2, <1>3, <1>4, <1>5, <1>6, <1>7, <1>8, <1>9 DEF IInv

LEMMA CompleteKeeps == ASSUME IInv, NEW s \in Slice, Complete(s) PROVE IInv'
<1>a. /\ amendPending = {} /\ skipPending = {}
      /\ OnDisk' = OnDisk /\ Active' = Active
  BY DEF IInv, TypeOK, Stopped, Complete, Running, OnDisk, Active, workflow, batch, evidence, journals, operators
<1>1. TypeOK'
  BY DEF IInv, Complete, Running, LockFree, TypeOK, Entry, workflow, batch, evidence, journals, operators
<1>2. Journals'
  BY DEF IInv, Complete, Running, LockFree, TypeOK, Journals, Finishable, workflow, batch, evidence, journals, operators
<1>3. Stopped'
  BY DEF IInv, Complete, Running, LockFree, TypeOK, Stopped, workflow, batch, evidence, journals, operators
<1>4. Files'
  BY DEF IInv, Complete, Running, LockFree, TypeOK, Files, Active, OnDisk, workflow, batch, evidence, journals, operators
<1>5. Plans'
  BY DEF IInv, Complete, Running, LockFree, TypeOK, Plans, Journals, workflow, batch, evidence, journals, operators
<1>6. Owned'
  BY <1>a DEF IInv, Owned, OwnedOnce, Complete, workflow, batch, evidence, journals, operators
<1>7. Skips'
  <2>1. Tasks(s) \cap skipped = {} BY DEF IInv, Skips, Complete
  <2>2. files' = [files EXCEPT ![s] = "completed"] /\ UNCHANGED <<skipPending, skipped>>
    BY DEF Complete, evidence, journals
  <2>3. ASSUME NEW r \in Slice, Tasks(r) \cap skipped # {} PROVE files'[r] \in {"absent", "cancelled"}
    <3>1. r # s BY <2>1, <2>3
    <3>2. files'[r] = files[r] BY <2>2, <3>1 DEF IInv, TypeOK
    <3>3. QED BY <2>3, <3>2 DEF IInv, Skips
  <2>4. QED BY <1>a, <2>2, <2>3 DEF Skips
<1>8. GapsAccounted'
  BY DEF IInv, Complete, Running, LockFree, TypeOK, GapsAccounted, Verified, Skipping, workflow, batch, evidence, journals, operators
<1>9. ReducingAccounts'
  BY DEF IInv, Complete, Running, LockFree, TypeOK, ReducingAccounts, Skipping, workflow, batch, evidence, journals, operators
<1> QED BY <1>1, <1>2, <1>3, <1>4, <1>5, <1>6, <1>7, <1>8, <1>9 DEF IInv

LEMMA FailKeeps == ASSUME IInv, NEW s \in Slice, Fail(s) PROVE IInv'
<1>1. TypeOK'
  BY DEF IInv, Fail, Running, LockFree, TypeOK, Entry, workflow, batch, evidence, journals, operators
<1>2. Journals'
  BY DEF IInv, Fail, Running, LockFree, TypeOK, Journals, Finishable, workflow, batch, evidence, journals, operators
<1>3. Stopped'
  BY DEF IInv, Fail, Running, LockFree, TypeOK, Stopped, workflow, batch, evidence, journals, operators
<1>4. Files'
  BY DEF IInv, Fail, Running, LockFree, TypeOK, Files, Active, OnDisk, workflow, batch, evidence, journals, operators
<1>5. Plans'
  BY DEF IInv, Fail, Running, LockFree, TypeOK, Plans, Journals, workflow, batch, evidence, journals, operators
<1>6. Owned'
  BY DEF IInv, Fail, Running, LockFree, TypeOK, Owned, OwnedOnce, Active, OnDisk, workflow, batch, evidence, journals, operators
<1>7. Skips'
  BY DEF IInv, Fail, Running, LockFree, TypeOK, Skips, Gap, workflow, batch, evidence, journals, operators
<1>8. GapsAccounted'
  BY DEF IInv, Fail, Running, LockFree, TypeOK, GapsAccounted, Verified, Skipping, workflow, batch, evidence, journals, operators
<1>9. ReducingAccounts'
  BY DEF IInv, Fail, Running, LockFree, TypeOK, ReducingAccounts, Skipping, workflow, batch, evidence, journals, operators
<1> QED BY <1>1, <1>2, <1>3, <1>4, <1>5, <1>6, <1>7, <1>8, <1>9 DEF IInv

LEMMA CancelKeeps == ASSUME IInv, Cancel PROVE IInv'
<1>1. TypeOK'
  BY DEF IInv, Cancel, LockFree, TypeOK, Entry, workflow, batch, evidence, journals, operators
<1>2. Journals'
  BY DEF IInv, Cancel, LockFree, TypeOK, Journals, Finishable, workflow, batch, evidence, journals, operators
<1>3. Stopped'
  BY DEF IInv, Cancel, LockFree, TypeOK, Stopped, workflow, batch, evidence, journals, operators
<1>4. Files'
  BY DEF IInv, Cancel, LockFree, TypeOK, Files, Active, OnDisk, workflow, batch, evidence, journals, operators
<1>5. Plans'
  BY DEF IInv, Cancel, LockFree, TypeOK, Plans, Journals, workflow, batch, evidence, journals, operators
<1>6. Owned'
  BY DEF IInv, Cancel, LockFree, TypeOK, Owned, OwnedOnce, Active, OnDisk, workflow, batch, evidence, journals, operators
<1>7. Skips'
  BY DEF IInv, Cancel, LockFree, TypeOK, Skips, Gap, workflow, batch, evidence, journals, operators
<1>8. GapsAccounted'
  BY DEF IInv, Cancel, LockFree, TypeOK, GapsAccounted, Verified, Skipping, workflow, batch, evidence, journals, operators
<1>9. ReducingAccounts'
  BY DEF IInv, Cancel, LockFree, TypeOK, ReducingAccounts, Skipping, workflow, batch, evidence, journals, operators
<1> QED BY <1>1, <1>2, <1>3, <1>4, <1>5, <1>6, <1>7, <1>8, <1>9 DEF IInv

LEMMA CancelAgainKeeps == ASSUME IInv, CancelAgain PROVE IInv'
<1>1. TypeOK'
  BY DEF IInv, CancelAgain, LockFree, TypeOK, Entry, workflow, batch, evidence, journals, operators
<1>2. Journals'
  BY DEF IInv, CancelAgain, LockFree, TypeOK, Journals, Finishable, workflow, batch, evidence, journals, operators
<1>3. Stopped'
  BY DEF IInv, CancelAgain, LockFree, TypeOK, Stopped, workflow, batch, evidence, journals, operators
<1>4. Files'
  BY DEF IInv, CancelAgain, LockFree, TypeOK, Files, Active, OnDisk, workflow, batch, evidence, journals, operators
<1>5. Plans'
  BY DEF IInv, CancelAgain, LockFree, TypeOK, Plans, Journals, workflow, batch, evidence, journals, operators
<1>6. Owned'
  BY DEF IInv, CancelAgain, LockFree, TypeOK, Owned, OwnedOnce, Active, OnDisk, workflow, batch, evidence, journals, operators
<1>7. Skips'
  BY DEF IInv, CancelAgain, LockFree, TypeOK, Skips, Gap, workflow, batch, evidence, journals, operators
<1>8. GapsAccounted'
  BY DEF IInv, CancelAgain, LockFree, TypeOK, GapsAccounted, Verified, Skipping, workflow, batch, evidence, journals, operators
<1>9. ReducingAccounts'
  BY DEF IInv, CancelAgain, LockFree, TypeOK, ReducingAccounts, Skipping, workflow, batch, evidence, journals, operators
<1> QED BY <1>1, <1>2, <1>3, <1>4, <1>5, <1>6, <1>7, <1>8, <1>9 DEF IInv

LEMMA CancelBatchKeeps == ASSUME IInv, CancelBatch PROVE IInv'
<1>a. \A s \in Slice : \/ files'[s] = files[s]
                       \/ s \in Active /\ files[s] # "completed" /\ files'[s] = "cancelled"
  <2>1. CASE batchCancelled BY <2>1 DEF CancelBatch
  <2>2. CASE ~(batchCancelled) BY <2>2 DEF CancelBatch
  <2>3. QED BY <2>1, <2>2
<1>b. files' \in [Slice -> {"absent", "ready", "leased", "blocked", "completed", "cancelled"}]
  <2>1. CASE batchCancelled BY <2>1 DEF IInv, TypeOK, CancelBatch
  <2>2. CASE ~(batchCancelled)
    <3>1. DOMAIN files' = Slice /\ files' = [s \in Slice |-> files'[s]] BY <2>2 DEF CancelBatch
    <3>2. \A s \in Slice : files'[s] \in {"absent", "ready", "leased", "blocked", "completed", "cancelled"} BY <1>a DEF IInv, TypeOK
    <3>3. QED BY <3>1, <3>2
  <2>3. QED BY <2>1, <2>2
<1>c. batchPlan' = batchPlan /\ sliceIds' = sliceIds
  BY DEF CancelBatch, batch
<1>d. OnDisk' = OnDisk /\ Active' = Active
  BY <1>a, <1>c DEF IInv, Files, OnDisk, Active
<1>e. /\ UNCHANGED <<revision, cancelled, stage, mode, plan, gaps>>
      /\ UNCHANGED <<done, failed, skipped, reports, manifests>>
      /\ UNCHANGED <<skipPending, amendPending, at>>
  BY DEF CancelBatch, workflow, evidence, journals
<1>f. \A s \in Slice : files'[s] = "completed" <=> files[s] = "completed"
  BY <1>a
<1>1. TypeOK'
  <2>1. batchRevision' \in Nat
    <3>1. CASE batchCancelled BY <3>1 DEF IInv, TypeOK, CancelBatch, batch
    <3>2. CASE ~(batchCancelled) BY <3>2 DEF IInv, TypeOK, CancelBatch
    <3>3. QED BY <3>1, <3>2
  <2>2. batchCancelled' \in BOOLEAN
    <3>1. CASE batchCancelled BY <3>1 DEF IInv, TypeOK, CancelBatch, batch
    <3>2. CASE ~(batchCancelled) BY <3>2 DEF CancelBatch
    <3>3. QED BY <3>1, <3>2
  <2>3. resuming' \in BOOLEAN /\ cancelling' \in BOOLEAN
    BY DEF IInv, TypeOK, CancelBatch
  <2>4. UNCHANGED <<commands, crashes, orderly>> BY DEF CancelBatch
  <2>5. QED BY <1>b, <1>c, <1>e, <2>1, <2>2, <2>3, <2>4 DEF IInv, TypeOK
<1>2. Journals'
  BY DEF IInv, CancelBatch, BatchLockFree, TypeOK, Journals, Finishable, workflow, batch, evidence, journals, operators
<1>3. Stopped'
  BY DEF IInv, CancelBatch, BatchLockFree, TypeOK, Stopped, workflow, batch, evidence, journals, operators
<1>4. Files'
  BY DEF IInv, CancelBatch, BatchLockFree, TypeOK, Files, Active, OnDisk, workflow, batch, evidence, journals, operators
<1>5. Plans'
  BY DEF IInv, CancelBatch, BatchLockFree, TypeOK, Plans, Journals, workflow, batch, evidence, journals, operators
<1>6. Owned'
  <2>1. OwnedOnce' = OwnedOnce BY <1>d DEF OwnedOnce
  <2>2. Active \subseteq Slice BY DEF IInv, TypeOK, Active, OnDisk
  <2>3. QED BY <1>c, <1>d, <1>e, <1>f, <2>1, <2>2 DEF IInv, Owned
<1>7. Skips'
  <2>1. \A s \in Slice : files[s] # "absent" => files'[s] # "absent" BY <1>a
  <2>2. \A s \in Slice : files[s] \in {"absent", "cancelled"} => files'[s] \in {"absent", "cancelled"}
    BY <1>a
  <2>3. \A i \in skipPending : \A e \in i.entries : e.slice \in Slice BY DEF IInv, TypeOK, Entry
  <2>5. QED BY <1>e, <1>f, <2>1, <2>2, <2>3 DEF IInv, Skips, Gap
<1>8. GapsAccounted'
  BY <1>a, <1>d, <1>e DEF IInv, GapsAccounted, Verified, TypeOK, Entry
<1>9. ReducingAccounts'
  BY DEF IInv, CancelBatch, BatchLockFree, TypeOK, ReducingAccounts, Skipping, workflow, batch, evidence, journals, operators
<1> QED BY <1>1, <1>2, <1>3, <1>4, <1>5, <1>6, <1>7, <1>8, <1>9 DEF IInv

LEMMA ResumeKeeps == ASSUME IInv, Resume PROVE IInv'
<1>1. TypeOK'
  <2>1. revision' \in Nat BY DEF IInv, TypeOK, Resume
  <2>2. cancelled' \in BOOLEAN /\ resuming' \in BOOLEAN BY DEF Resume
  <2>3. QED BY <2>1, <2>2 DEF IInv, TypeOK, Resume, batch, evidence, journals
<1>2. Journals'
  BY DEF IInv, Resume, LockFree, ExecutionReady, VerifySkips, TypeOK, Journals, Finishable, workflow, batch, evidence, journals, operators
<1>3. Stopped'
  BY DEF IInv, Resume, LockFree, ExecutionReady, VerifySkips, TypeOK, Stopped, workflow, batch, evidence, journals, operators
<1>4. Files'
  BY DEF IInv, Resume, LockFree, ExecutionReady, VerifySkips, TypeOK, Files, Active, OnDisk, workflow, batch, evidence, journals, operators
<1>5. Plans'
  BY DEF IInv, Resume, LockFree, ExecutionReady, VerifySkips, TypeOK, Plans, Journals, workflow, batch, evidence, journals, operators
<1>6. Owned'
  BY DEF IInv, Resume, LockFree, ExecutionReady, VerifySkips, TypeOK, Owned, OwnedOnce, Active, OnDisk, workflow, batch, evidence, journals, operators
<1>7. Skips'
  BY DEF IInv, Resume, LockFree, ExecutionReady, VerifySkips, TypeOK, Skips, Gap, workflow, batch, evidence, journals, operators
<1>8. GapsAccounted'
  BY DEF IInv, Resume, LockFree, ExecutionReady, VerifySkips, TypeOK, GapsAccounted, Verified, Skipping, workflow, batch, evidence, journals, operators
<1>9. ReducingAccounts'
  BY DEF IInv, Resume, LockFree, ExecutionReady, VerifySkips, TypeOK, ReducingAccounts, Skipping, workflow, batch, evidence, journals, operators
<1> QED BY <1>1, <1>2, <1>3, <1>4, <1>5, <1>6, <1>7, <1>8, <1>9 DEF IInv

LEMMA ResumeBatchKeeps == ASSUME IInv, ResumeBatch PROVE IInv'
<1>a. \A s \in Slice : \/ files'[s] = files[s]
                       \/ s \in Active /\ files[s] = "cancelled" /\ ~Deferred(s) /\ files'[s] = "ready"
  <2>1. CASE ~batchCancelled BY <2>1 DEF ResumeBatch
  <2>2. CASE ~(~batchCancelled) BY <2>2 DEF ResumeBatch
  <2>3. QED BY <2>1, <2>2
<1>b. files' \in [Slice -> {"absent", "ready", "leased", "blocked", "completed", "cancelled"}]
  <2>1. CASE ~batchCancelled BY <2>1 DEF IInv, TypeOK, ResumeBatch
  <2>2. CASE ~(~batchCancelled)
    <3>1. DOMAIN files' = Slice /\ files' = [s \in Slice |-> files'[s]] BY <2>2 DEF ResumeBatch
    <3>2. \A s \in Slice : files'[s] \in {"absent", "ready", "leased", "blocked", "completed", "cancelled"} BY <1>a DEF IInv, TypeOK
    <3>3. QED BY <3>1, <3>2
  <2>3. QED BY <2>1, <2>2
<1>c. batchPlan' = batchPlan /\ sliceIds' = sliceIds
  BY DEF ResumeBatch, batch
<1>d. OnDisk' = OnDisk /\ Active' = Active
  BY <1>a, <1>c DEF IInv, Files, OnDisk, Active
<1>e. /\ UNCHANGED <<revision, cancelled, stage, mode, plan, gaps>>
      /\ UNCHANGED <<done, failed, skipped, reports, manifests>>
      /\ UNCHANGED <<skipPending, amendPending, at>>
  BY DEF ResumeBatch, workflow, evidence, journals
<1>f. \A s \in Slice : files'[s] = "completed" <=> files[s] = "completed"
  BY <1>a
<1>1. TypeOK'
  <2>1. batchRevision' \in Nat
    <3>1. CASE ~batchCancelled BY <3>1 DEF IInv, TypeOK, ResumeBatch, batch
    <3>2. CASE ~(~batchCancelled) BY <3>2 DEF IInv, TypeOK, ResumeBatch
    <3>3. QED BY <3>1, <3>2
  <2>2. batchCancelled' \in BOOLEAN
    <3>1. CASE ~batchCancelled BY <3>1 DEF IInv, TypeOK, ResumeBatch, batch
    <3>2. CASE ~(~batchCancelled) BY <3>2 DEF ResumeBatch
    <3>3. QED BY <3>1, <3>2
  <2>3. resuming' \in BOOLEAN /\ cancelling' \in BOOLEAN
    BY DEF IInv, TypeOK, ResumeBatch
  <2>4. UNCHANGED <<commands, crashes, orderly>> BY DEF ResumeBatch
  <2>5. QED BY <1>b, <1>c, <1>e, <2>1, <2>2, <2>3, <2>4 DEF IInv, TypeOK
<1>2. Journals'
  BY DEF IInv, ResumeBatch, BatchLockFree, Deferred, TypeOK, Journals, Finishable, workflow, batch, evidence, journals, operators
<1>3. Stopped'
  BY DEF IInv, ResumeBatch, BatchLockFree, Deferred, TypeOK, Stopped, workflow, batch, evidence, journals, operators
<1>4. Files'
  BY DEF IInv, ResumeBatch, BatchLockFree, Deferred, TypeOK, Files, Active, OnDisk, workflow, batch, evidence, journals, operators
<1>5. Plans'
  BY DEF IInv, ResumeBatch, BatchLockFree, Deferred, TypeOK, Plans, Journals, workflow, batch, evidence, journals, operators
<1>6. Owned'
  <2>1. OwnedOnce' = OwnedOnce BY <1>d DEF OwnedOnce
  <2>2. Active \subseteq Slice BY DEF IInv, TypeOK, Active, OnDisk
  <2>3. QED BY <1>c, <1>d, <1>e, <1>f, <2>1, <2>2 DEF IInv, Owned
<1>7. Skips'
  <2>1. \A s \in Slice : files[s] # "absent" => files'[s] # "absent" BY <1>a
  <2>2. \A s \in Slice : Tasks(s) \cap skipped # {} => files'[s] = files[s]
    BY <1>a DEF Deferred
  <2>3. \A i \in skipPending : \A e \in i.entries : e.slice \in Slice BY DEF IInv, TypeOK, Entry
  <2>5. QED BY <1>e, <1>f, <2>1, <2>2, <2>3 DEF IInv, Skips, Gap
<1>8. GapsAccounted'
  BY <1>a, <1>d, <1>e DEF IInv, GapsAccounted, Verified, TypeOK, Entry
<1>9. ReducingAccounts'
  BY DEF IInv, ResumeBatch, BatchLockFree, Deferred, TypeOK, ReducingAccounts, Skipping, workflow, batch, evidence, journals, operators
<1> QED BY <1>1, <1>2, <1>3, <1>4, <1>5, <1>6, <1>7, <1>8, <1>9 DEF IInv

LEMMA CallerDiesKeeps == ASSUME IInv, CallerDies PROVE IInv'
<1>1. TypeOK'
  <2>1. resuming' \in BOOLEAN /\ cancelling' \in BOOLEAN BY DEF IInv, TypeOK, CallerDies
  <2>2. crashes' \in Nat BY DEF IInv, TypeOK, CallerDies
  <2>3. QED BY <2>1, <2>2 DEF IInv, TypeOK, CallerDies, workflow, batch, evidence, journals
<1>2. Journals'
  BY DEF IInv, CallerDies, TypeOK, Journals, Finishable, workflow, batch, evidence, journals, operators
<1>3. Stopped'
  BY DEF IInv, CallerDies, TypeOK, Stopped, workflow, batch, evidence, journals, operators
<1>4. Files'
  BY DEF IInv, CallerDies, TypeOK, Files, Active, OnDisk, workflow, batch, evidence, journals, operators
<1>5. Plans'
  BY DEF IInv, CallerDies, TypeOK, Plans, Journals, workflow, batch, evidence, journals, operators
<1>6. Owned'
  BY DEF IInv, CallerDies, TypeOK, Owned, OwnedOnce, Active, OnDisk, workflow, batch, evidence, journals, operators
<1>7. Skips'
  BY DEF IInv, CallerDies, TypeOK, Skips, Gap, workflow, batch, evidence, journals, operators
<1>8. GapsAccounted'
  BY DEF IInv, CallerDies, TypeOK, GapsAccounted, Verified, Skipping, workflow, batch, evidence, journals, operators
<1>9. ReducingAccounts'
  BY DEF IInv, CallerDies, TypeOK, ReducingAccounts, Skipping, workflow, batch, evidence, journals, operators
<1> QED BY <1>1, <1>2, <1>3, <1>4, <1>5, <1>6, <1>7, <1>8, <1>9 DEF IInv

LEMMA DisarmKeeps == ASSUME IInv, Disarm PROVE IInv'
<1>1. TypeOK'
  BY DEF IInv, Disarm, Switch, LockFree, TypeOK, Entry, workflow, batch, evidence, journals, operators
<1>2. Journals'
  BY DEF IInv, Disarm, Switch, LockFree, TypeOK, Journals, Finishable, workflow, batch, evidence, journals, operators
<1>3. Stopped'
  BY DEF IInv, Disarm, Switch, LockFree, TypeOK, Stopped, workflow, batch, evidence, journals, operators
<1>4. Files'
  <2>1. /\ UNCHANGED <<cancelled, stage, plan, gaps, files, done, failed, skipped, reports>>
        /\ UNCHANGED <<manifests, skipPending, amendPending, at, batchPlan, sliceIds, batchCancelled>>
    BY DEF Disarm, Switch, workflow, batch, evidence, journals
  <2>2. QED BY <2>1 DEF IInv, Files, Active, OnDisk
<1>5. Plans'
  BY DEF IInv, Disarm, Switch, LockFree, TypeOK, Plans, Journals, workflow, batch, evidence, journals, operators
<1>6. Owned'
  BY DEF IInv, Disarm, Switch, LockFree, TypeOK, Owned, OwnedOnce, Active, OnDisk, workflow, batch, evidence, journals, operators
<1>7. Skips'
  BY DEF IInv, Disarm, Switch, LockFree, TypeOK, Skips, Gap, workflow, batch, evidence, journals, operators
<1>8. GapsAccounted'
  <2>1. /\ UNCHANGED <<cancelled, stage, plan, gaps, files, done, failed, skipped, reports>>
        /\ UNCHANGED <<manifests, skipPending, amendPending, at, batchPlan, sliceIds, batchCancelled>>
    BY DEF Disarm, Switch, workflow, batch, evidence, journals
  <2>2. QED BY <2>1 DEF IInv, GapsAccounted, Verified, Skipping
<1>9. ReducingAccounts'
  <2>1. /\ UNCHANGED <<cancelled, stage, plan, gaps, files, done, failed, skipped, reports>>
        /\ UNCHANGED <<manifests, skipPending, amendPending, at, batchPlan, sliceIds, batchCancelled>>
    BY DEF Disarm, Switch, workflow, batch, evidence, journals
  <2>2. QED BY <2>1 DEF IInv, ReducingAccounts, Skipping
<1> QED BY <1>1, <1>2, <1>3, <1>4, <1>5, <1>6, <1>7, <1>8, <1>9 DEF IInv

LEMMA ArmKeeps == ASSUME IInv, Arm PROVE IInv'
<1>1. TypeOK'
  BY DEF IInv, Arm, Switch, LockFree, TypeOK, Entry, workflow, batch, evidence, journals, operators
<1>2. Journals'
  BY DEF IInv, Arm, Switch, LockFree, TypeOK, Journals, Finishable, workflow, batch, evidence, journals, operators
<1>3. Stopped'
  BY DEF IInv, Arm, Switch, LockFree, TypeOK, Stopped, workflow, batch, evidence, journals, operators
<1>4. Files'
  <2>1. /\ UNCHANGED <<cancelled, stage, plan, gaps, files, done, failed, skipped, reports>>
        /\ UNCHANGED <<manifests, skipPending, amendPending, at, batchPlan, sliceIds, batchCancelled>>
    BY DEF Arm, Switch, workflow, batch, evidence, journals
  <2>2. QED BY <2>1 DEF IInv, Files, Active, OnDisk
<1>5. Plans'
  BY DEF IInv, Arm, Switch, LockFree, TypeOK, Plans, Journals, workflow, batch, evidence, journals, operators
<1>6. Owned'
  BY DEF IInv, Arm, Switch, LockFree, TypeOK, Owned, OwnedOnce, Active, OnDisk, workflow, batch, evidence, journals, operators
<1>7. Skips'
  BY DEF IInv, Arm, Switch, LockFree, TypeOK, Skips, Gap, workflow, batch, evidence, journals, operators
<1>8. GapsAccounted'
  <2>1. /\ UNCHANGED <<cancelled, stage, plan, gaps, files, done, failed, skipped, reports>>
        /\ UNCHANGED <<manifests, skipPending, amendPending, at, batchPlan, sliceIds, batchCancelled>>
    BY DEF Arm, Switch, workflow, batch, evidence, journals
  <2>2. QED BY <2>1 DEF IInv, GapsAccounted, Verified, Skipping
<1>9. ReducingAccounts'
  <2>1. /\ UNCHANGED <<cancelled, stage, plan, gaps, files, done, failed, skipped, reports>>
        /\ UNCHANGED <<manifests, skipPending, amendPending, at, batchPlan, sliceIds, batchCancelled>>
    BY DEF Arm, Switch, workflow, batch, evidence, journals
  <2>2. QED BY <2>1 DEF IInv, ReducingAccounts, Skipping
<1> QED BY <1>1, <1>2, <1>3, <1>4, <1>5, <1>6, <1>7, <1>8, <1>9 DEF IInv

LEMMA PromoteKeeps == ASSUME IInv, Promote PROVE IInv'
<1>1. TypeOK'
  BY DEF IInv, Promote, Running, LockFree, TypeOK, Entry, workflow, batch, evidence, journals, operators
<1>2. Journals'
  BY DEF IInv, Promote, Running, LockFree, TypeOK, Journals, Finishable, workflow, batch, evidence, journals, operators
<1>3. Stopped'
  BY DEF IInv, Promote, Running, LockFree, TypeOK, Stopped, workflow, batch, evidence, journals, operators
<1>4. Files'
  BY DEF IInv, Promote, Running, LockFree, TypeOK, Files, Active, OnDisk, workflow, batch, evidence, journals, operators
<1>5. Plans'
  BY DEF IInv, Promote, Running, LockFree, TypeOK, Plans, Journals, workflow, batch, evidence, journals, operators
<1>6. Owned'
  BY DEF IInv, Promote, Running, LockFree, TypeOK, Owned, OwnedOnce, Active, OnDisk, workflow, batch, evidence, journals, operators
<1>7. Skips'
  BY DEF IInv, Promote, Running, LockFree, TypeOK, Skips, Gap, workflow, batch, evidence, journals, operators
<1>8. GapsAccounted'
  BY DEF IInv, Promote, Running, LockFree, TypeOK, GapsAccounted, Verified, Skipping, workflow, batch, evidence, journals, operators
<1>9. ReducingAccounts'
  BY DEF IInv, Promote, Running, LockFree, TypeOK, ReducingAccounts, Skipping, workflow, batch, evidence, journals, operators
<1> QED BY <1>1, <1>2, <1>3, <1>4, <1>5, <1>6, <1>7, <1>8, <1>9 DEF IInv

LEMMA FinishPassesKeeps == ASSUME IInv, FinishPasses PROVE IInv'
<1>1. TypeOK'
  BY DEF IInv, FinishPasses, Advance, Running, LockFree, TypeOK, Entry, workflow, batch, evidence, journals, operators
<1>2. Journals'
  BY DEF IInv, FinishPasses, Advance, Running, LockFree, TypeOK, Journals, Finishable, workflow, batch, evidence, journals, operators
<1>3. Stopped'
  BY DEF IInv, FinishPasses, Advance, Running, LockFree, TypeOK, Stopped, workflow, batch, evidence, journals, operators
<1>4. Files'
  BY DEF IInv, FinishPasses, Advance, Running, LockFree, TypeOK, Files, Active, OnDisk, workflow, batch, evidence, journals, operators
<1>5. Plans'
  BY DEF IInv, FinishPasses, Advance, Running, LockFree, TypeOK, Plans, Journals, workflow, batch, evidence, journals, operators
<1>6. Owned'
  BY DEF IInv, FinishPasses, Advance, Running, LockFree, TypeOK, Owned, OwnedOnce, Active, OnDisk, workflow, batch, evidence, journals, operators
<1>7. Skips'
  BY DEF IInv, FinishPasses, Advance, Running, LockFree, TypeOK, Skips, Gap, workflow, batch, evidence, journals, operators
<1>8. GapsAccounted'
  BY DEF IInv, FinishPasses, Advance, Running, LockFree, TypeOK, GapsAccounted, Verified, Skipping, workflow, batch, evidence, journals, operators
<1>9. ReducingAccounts'
  <2>1. amendPending = {} /\ OwnedOnce
    BY DEF IInv, Stopped, Owned, FinishPasses, Running
  <2>2. ASSUME NEW t \in Task PROVE t \in done \/ \E g \in gaps : t \in Skipping(g)
    <3>1. PICK s \in Active : t \in Tasks(s) BY <2>1 DEF OwnedOnce, TasksOf
    <3>2. s \in Slice BY <3>1 DEF IInv, TypeOK, Active, OnDisk
    <3>3. CASE files[s] = "completed" BY <3>1, <3>2, <3>3 DEF IInv, Files
    <3>4. CASE s \in SkippedSlices
      <4>1. PICK g \in gaps : \E e \in g.entries : e.slice = s BY <3>4 DEF SkippedSlices
      <4>2. PICK e \in g.entries : e.slice = s BY <4>1
      <4>3. Tasks(s) \ e.tasks \subseteq done BY <4>2 DEF IInv, GapsAccounted, Verified
      <4>4. t \in e.tasks => t \in Skipping(g) BY <4>2 DEF Skipping
      <4>5. QED BY <3>1, <4>3, <4>4
    <3>5. QED BY <3>1, <3>3, <3>4 DEF FinishPasses
  <2>3. QED BY <2>2 DEF ReducingAccounts, FinishPasses, Advance, evidence
<1> QED BY <1>1, <1>2, <1>3, <1>4, <1>5, <1>6, <1>7, <1>8, <1>9 DEF IInv

LEMMA BeginSkipKeeps == ASSUME IInv, NEW op \in SkipOp, BeginSkip(op) PROVE IInv'
<1>a. PICK E \in SUBSET {e \in Entry : Selectable(e)} :
         skipPending' = {[op |-> op, revision |-> revision, entries |-> E]}
  BY DEF BeginSkip
<1>b. skipPending = {} /\ amendPending = {} /\ OwnedOnce /\ NoLeases
  BY DEF BeginSkip, SkipAllowed, ExecutionReady, VerifySkips
<1>c. \A s \in Slice : s \notin Active => files[s] \in {"absent", "cancelled"}
  BY DEF IInv, Files
<1>1. TypeOK'
  BY DEF IInv, BeginSkip, SkipAllowed, NoLeases, LockFree, TypeOK, Entry, workflow, batch, evidence, journals, operators
<1>2. Journals'
  BY DEF IInv, BeginSkip, SkipAllowed, NoLeases, LockFree, TypeOK, Journals, Finishable, workflow, batch, evidence, journals, operators
<1>3. Stopped'
  BY <1>b, <1>c DEF NoLeases, Stopped, BeginSkip, SkipAllowed, workflow
<1>4. Files'
  BY DEF IInv, BeginSkip, SkipAllowed, NoLeases, LockFree, TypeOK, Files, Active, OnDisk, workflow, batch, evidence, journals, operators
<1>5. Plans'
  BY DEF IInv, BeginSkip, SkipAllowed, NoLeases, LockFree, TypeOK, Plans, Journals, workflow, batch, evidence, journals, operators
<1>6. Owned'
  BY DEF IInv, BeginSkip, SkipAllowed, NoLeases, LockFree, TypeOK, Owned, OwnedOnce, Active, OnDisk, workflow, batch, evidence, journals, operators
<1>7. Skips'
  <2> DEFINE j == [op |-> op, revision |-> revision, entries |-> E]
  <2>1. \A e \in E : files[e.slice] = "cancelled" /\ Tasks(e.slice) \ e.tasks \subseteq done
    BY <1>a DEF Selectable
  <2>2. \A g \in gaps : g.op # op BY DEF BeginSkip, Recorded
  <2>3. ASSUME NEW t \in Skipping(j), NEW s \in Slice, t \in Tasks(s) PROVE files[s] # "completed"
    <3>1. PICK e \in E : t \in e.tasks BY <2>3 DEF Skipping
    <3>2. e.slice \in Active /\ t \in Tasks(e.slice) /\ files[e.slice] = "cancelled"
      BY <1>a, <3>1 DEF Selectable
    <3>3. CASE s \in Active BY <1>b, <2>3, <3>2, <3>3 DEF OwnedOnce
    <3>4. CASE s \notin Active BY <1>c, <3>4
    <3>5. QED BY <3>3, <3>4
  <2>4. \A i \in skipPending' : i = j BY <1>a
  <2>5. j.op = op /\ j.entries = E OBVIOUS
  <2>6. UNCHANGED <<gaps, files, done, skipped>> BY DEF BeginSkip, workflow, evidence
  <2> HIDE DEF j
  <2>7. QED BY <2>1, <2>2, <2>3, <2>4, <2>5, <2>6 DEF IInv, Skips
<1>8. GapsAccounted'
  BY <1>b DEF IInv, GapsAccounted, Verified, BeginSkip, workflow, evidence
<1>9. ReducingAccounts'
  BY DEF IInv, BeginSkip, SkipAllowed, NoLeases, LockFree, TypeOK, ReducingAccounts, Skipping, workflow, batch, evidence, journals, operators
<1> QED BY <1>1, <1>2, <1>3, <1>4, <1>5, <1>6, <1>7, <1>8, <1>9 DEF IInv

LEMMA RetrySkipKeeps == ASSUME IInv, RetrySkip PROVE IInv'
<1>1. TypeOK'
  BY DEF IInv, RetrySkip, SkipAllowed, LockFree, TypeOK, Entry, workflow, batch, evidence, journals, operators
<1>2. Journals'
  BY DEF IInv, RetrySkip, SkipAllowed, LockFree, TypeOK, Journals, Finishable, workflow, batch, evidence, journals, operators
<1>3. Stopped'
  BY DEF IInv, RetrySkip, SkipAllowed, LockFree, TypeOK, Stopped, workflow, batch, evidence, journals, operators
<1>4. Files'
  BY DEF IInv, RetrySkip, SkipAllowed, LockFree, TypeOK, Files, Active, OnDisk, workflow, batch, evidence, journals, operators
<1>5. Plans'
  BY DEF IInv, RetrySkip, SkipAllowed, LockFree, TypeOK, Plans, Journals, workflow, batch, evidence, journals, operators
<1>6. Owned'
  BY DEF IInv, RetrySkip, SkipAllowed, LockFree, TypeOK, Owned, OwnedOnce, Active, OnDisk, workflow, batch, evidence, journals, operators
<1>7. Skips'
  BY DEF IInv, RetrySkip, SkipAllowed, LockFree, TypeOK, Skips, Gap, workflow, batch, evidence, journals, operators
<1>8. GapsAccounted'
  BY DEF IInv, RetrySkip, SkipAllowed, LockFree, TypeOK, GapsAccounted, Verified, Skipping, workflow, batch, evidence, journals, operators
<1>9. ReducingAccounts'
  BY DEF IInv, RetrySkip, SkipAllowed, LockFree, TypeOK, ReducingAccounts, Skipping, workflow, batch, evidence, journals, operators
<1> QED BY <1>1, <1>2, <1>3, <1>4, <1>5, <1>6, <1>7, <1>8, <1>9 DEF IInv

LEMMA SkipTaskKeeps == ASSUME IInv, NEW t \in Task, SkipTask(t) PROVE IInv'
<1>1. TypeOK'
  BY DEF IInv, SkipTask, TypeOK, Entry, workflow, batch, evidence, journals, operators
<1>2. Journals'
  BY DEF IInv, SkipTask, TypeOK, Journals, Finishable, workflow, batch, evidence, journals, operators
<1>3. Stopped'
  BY DEF IInv, SkipTask, TypeOK, Stopped, workflow, batch, evidence, journals, operators
<1>4. Files'
  BY DEF IInv, SkipTask, TypeOK, Files, Active, OnDisk, workflow, batch, evidence, journals, operators
<1>5. Plans'
  BY DEF IInv, SkipTask, TypeOK, Plans, Journals, workflow, batch, evidence, journals, operators
<1>6. Owned'
  BY DEF IInv, SkipTask, TypeOK, Owned, OwnedOnce, Active, OnDisk, workflow, batch, evidence, journals, operators
<1>7. Skips'
  <2>1. PICK j \in skipPending : t \in Skipping(j) BY DEF SkipTask
  <2>2. ASSUME NEW s \in Slice, t \in Tasks(s) PROVE files[s] \in {"absent", "cancelled"}
    <3>1. files[s] # "completed" BY <2>1, <2>2 DEF IInv, Skips
    <3>2. batchCancelled BY DEF IInv, Journals, SkipTask
    <3>3. QED BY <3>1, <3>2 DEF IInv, Files
  <2>3. skipped' = skipped \cup {t} /\ UNCHANGED <<skipPending, gaps, files, done>>
    BY DEF SkipTask, workflow, journals
  <2>4. \A s \in Slice : Tasks(s) \cap skipped' # {} => files[s] \in {"absent", "cancelled"}
    BY <2>2, <2>3 DEF IInv, Skips
  <2>5. QED BY <2>3, <2>4 DEF IInv, Skips
<1>8. GapsAccounted'
  BY DEF IInv, SkipTask, TypeOK, GapsAccounted, Verified, Skipping, workflow, batch, evidence, journals, operators
<1>9. ReducingAccounts'
  BY DEF IInv, SkipTask, TypeOK, ReducingAccounts, Skipping, workflow, batch, evidence, journals, operators
<1> QED BY <1>1, <1>2, <1>3, <1>4, <1>5, <1>6, <1>7, <1>8, <1>9 DEF IInv

LEMMA SkipReportKeeps == ASSUME IInv, SkipReport PROVE IInv'
<1>1. TypeOK'
  <2>1. \A j \in skipPending : Gap(j) \in [op : SkipOp, entries : SUBSET Entry]
    BY DEF IInv, TypeOK, Gap
  <2>2. reports' \subseteq [op : SkipOp, entries : SUBSET Entry]
    BY <2>1 DEF IInv, TypeOK, SkipReport
  <2>3. QED BY <2>2 DEF IInv, TypeOK, SkipReport, workflow, batch, journals, operators
<1>2. Journals'
  BY DEF IInv, SkipReport, TypeOK, Journals, Finishable, workflow, batch, evidence, journals, operators
<1>3. Stopped'
  BY DEF IInv, SkipReport, TypeOK, Stopped, workflow, batch, evidence, journals, operators
<1>4. Files'
  BY DEF IInv, SkipReport, TypeOK, Files, Active, OnDisk, workflow, batch, evidence, journals, operators
<1>5. Plans'
  BY DEF IInv, SkipReport, TypeOK, Plans, Journals, workflow, batch, evidence, journals, operators
<1>6. Owned'
  BY DEF IInv, SkipReport, TypeOK, Owned, OwnedOnce, Active, OnDisk, workflow, batch, evidence, journals, operators
<1>7. Skips'
  BY DEF IInv, SkipReport, TypeOK, Skips, Gap, workflow, batch, evidence, journals, operators
<1>8. GapsAccounted'
  BY DEF IInv, SkipReport, TypeOK, GapsAccounted, Verified, Skipping, workflow, batch, evidence, journals, operators
<1>9. ReducingAccounts'
  BY DEF IInv, SkipReport, TypeOK, ReducingAccounts, Skipping, workflow, batch, evidence, journals, operators
<1> QED BY <1>1, <1>2, <1>3, <1>4, <1>5, <1>6, <1>7, <1>8, <1>9 DEF IInv

LEMMA SkipRecordKeeps == ASSUME IInv, SkipRecord PROVE IInv'
<1>a. PICK j \in skipPending : /\ Skipping(j) \subseteq skipped /\ Gap(j) \in reports
                               /\ gaps' = gaps \cup {Gap(j)}
  BY DEF SkipRecord
<1>b. Skipping(Gap(j)) = Skipping(j) /\ Gap(j).op = j.op /\ Gap(j).entries = j.entries
  BY DEF Skipping, Gap
<1>c. \A i \in skipPending : i = j BY DEF IInv, Journals
<1>1. TypeOK'
  BY DEF IInv, SkipRecord, TypeOK, Entry, workflow, batch, evidence, journals, operators
<1>2. Journals'
  BY DEF IInv, SkipRecord, TypeOK, Journals, Finishable, workflow, batch, evidence, journals, operators
<1>3. Stopped'
  BY DEF IInv, SkipRecord, TypeOK, Stopped, workflow, batch, evidence, journals, operators
<1>4. Files'
  BY DEF IInv, SkipRecord, TypeOK, Files, Active, OnDisk, workflow, batch, evidence, journals, operators
<1>5. Plans'
  BY DEF IInv, SkipRecord, TypeOK, Plans, Journals, workflow, batch, evidence, journals, operators
<1>6. Owned'
  BY DEF IInv, SkipRecord, TypeOK, Owned, OwnedOnce, Active, OnDisk, workflow, batch, evidence, journals, operators
<1>7. Skips'
  <2>1. UNCHANGED <<skipPending, files, done, skipped>> BY DEF SkipRecord, evidence, journals
  <2>2. QED BY <1>a, <1>c, <2>1 DEF IInv, Skips
<1>8. GapsAccounted'
  <2>1. UNCHANGED <<skipPending, files, done, skipped, reports>> BY DEF SkipRecord, evidence, journals
  <2>2. \A e \in j.entries : e.tasks \subseteq skipped BY <1>a DEF Skipping
  <2>3. Verified(Gap(j)) BY <1>a, <1>b, <2>2 DEF IInv, Skips, Verified
  <2>4. QED BY <1>a, <2>1, <2>3 DEF IInv, GapsAccounted, Verified
<1>9. ReducingAccounts'
  BY DEF IInv, SkipRecord, TypeOK, ReducingAccounts, Skipping, workflow, batch, evidence, journals, operators
<1> QED BY <1>1, <1>2, <1>3, <1>4, <1>5, <1>6, <1>7, <1>8, <1>9 DEF IInv

LEMMA SkipUnlinkKeeps == ASSUME IInv, SkipUnlink PROVE IInv'
<1>1. TypeOK'
  BY DEF IInv, SkipUnlink, TypeOK, Entry, workflow, batch, evidence, journals, operators
<1>2. Journals'
  BY DEF IInv, SkipUnlink, TypeOK, Journals, Finishable, workflow, batch, evidence, journals, operators
<1>3. Stopped'
  BY DEF IInv, SkipUnlink, TypeOK, Stopped, workflow, batch, evidence, journals, operators
<1>4. Files'
  BY DEF IInv, SkipUnlink, TypeOK, Files, Active, OnDisk, workflow, batch, evidence, journals, operators
<1>5. Plans'
  BY DEF IInv, SkipUnlink, TypeOK, Plans, Journals, workflow, batch, evidence, journals, operators
<1>6. Owned'
  BY DEF IInv, SkipUnlink, TypeOK, Owned, OwnedOnce, Active, OnDisk, workflow, batch, evidence, journals, operators
<1>7. Skips'
  BY DEF IInv, SkipUnlink, TypeOK, Skips, Gap, workflow, batch, evidence, journals, operators
<1>8. GapsAccounted'
  <2>1. PICK j \in skipPending : Recorded(j.op) BY DEF SkipUnlink
  <2>2. Gap(j) \in gaps BY <2>1 DEF IInv, Skips, Recorded
  <2>3. \A i \in skipPending : i = j BY DEF IInv, Journals
  <2>4. Skipping(Gap(j)) = Skipping(j) BY DEF Skipping, Gap
  <2>5. UNCHANGED <<gaps, files, done, skipped, reports>> BY DEF SkipUnlink, workflow, evidence
  <2>6. skipped \subseteq UNION {Skipping(g) : g \in gaps}
    BY <2>2, <2>3, <2>4 DEF IInv, GapsAccounted
  <2>7. QED BY <2>5, <2>6 DEF IInv, GapsAccounted, Verified
<1>9. ReducingAccounts'
  BY DEF IInv, SkipUnlink, TypeOK, ReducingAccounts, Skipping, workflow, batch, evidence, journals, operators
<1> QED BY <1>1, <1>2, <1>3, <1>4, <1>5, <1>6, <1>7, <1>8, <1>9 DEF IInv

LEMMA ReplaySkipKeeps == ASSUME IInv, ReplaySkip PROVE IInv'
<1>1. TypeOK'
  BY DEF IInv, ReplaySkip, LockFree, TypeOK, Entry, workflow, batch, evidence, journals, operators
<1>2. Journals'
  BY DEF IInv, ReplaySkip, LockFree, TypeOK, Journals, Finishable, workflow, batch, evidence, journals, operators
<1>3. Stopped'
  BY DEF IInv, ReplaySkip, LockFree, TypeOK, Stopped, workflow, batch, evidence, journals, operators
<1>4. Files'
  BY DEF IInv, ReplaySkip, LockFree, TypeOK, Files, Active, OnDisk, workflow, batch, evidence, journals, operators
<1>5. Plans'
  BY DEF IInv, ReplaySkip, LockFree, TypeOK, Plans, Journals, workflow, batch, evidence, journals, operators
<1>6. Owned'
  BY DEF IInv, ReplaySkip, LockFree, TypeOK, Owned, OwnedOnce, Active, OnDisk, workflow, batch, evidence, journals, operators
<1>7. Skips'
  BY DEF IInv, ReplaySkip, LockFree, TypeOK, Skips, Gap, workflow, batch, evidence, journals, operators
<1>8. GapsAccounted'
  <2>1. PICK j \in skipPending : Recorded(j.op) BY DEF ReplaySkip
  <2>2. Gap(j) \in gaps BY <2>1 DEF IInv, Skips, Recorded
  <2>3. \A i \in skipPending : i = j BY DEF IInv, Journals
  <2>4. Skipping(Gap(j)) = Skipping(j) BY DEF Skipping, Gap
  <2>5. UNCHANGED <<gaps, files, done, skipped, reports>> BY DEF ReplaySkip, workflow, evidence
  <2>6. skipped \subseteq UNION {Skipping(g) : g \in gaps}
    BY <2>2, <2>3, <2>4 DEF IInv, GapsAccounted
  <2>7. QED BY <2>5, <2>6 DEF IInv, GapsAccounted, Verified
<1>9. ReducingAccounts'
  BY DEF IInv, ReplaySkip, LockFree, TypeOK, ReducingAccounts, Skipping, workflow, batch, evidence, journals, operators
<1> QED BY <1>1, <1>2, <1>3, <1>4, <1>5, <1>6, <1>7, <1>8, <1>9 DEF IInv

LEMMA BeginAmendmentKeeps == ASSUME IInv, BeginAmendment PROVE IInv'
<1> DEFINE U == Task \ TasksOf(Kept)
<1>a. PICK P \in Packings(U) :
         amendPending' = {[plan |-> plan + 1, revision |-> revision,
                           batchRevision |-> batchRevision, protected |-> skipped,
                           kept |-> Kept, new |-> {<<plan + 1, T>> : T \in P}]}
  BY DEF BeginAmendment
<1> DEFINE new == {<<plan + 1, T>> : T \in P}
           j == [plan |-> plan + 1, revision |-> revision, batchRevision |-> batchRevision,
                 protected |-> skipped, kept |-> Kept, new |-> new]
<1>b. /\ j.plan = plan + 1 /\ j.revision = revision /\ j.batchRevision = batchRevision
      /\ j.protected = skipped /\ j.kept = Kept /\ j.new = new
  OBVIOUS
<1>c. /\ UNION P = U /\ P \subseteq (SUBSET U) \ {{}}
      /\ \A S, T \in P : S = T \/ S \cap T = {}
  BY DEF Packings
<1>d. new \subseteq Slice /\ TasksOf(new) = U
      /\ \A s, r \in new : s = r \/ Tasks(s) \cap Tasks(r) = {}
  <2>1. plan + 1 \in 0 .. MaxAmendments
    BY TransactionsAssumption DEF IInv, TypeOK, BeginAmendment
  <2>2. \A T \in P : T \in (SUBSET Task) \ {{}} BY <1>c DEF U
  <2>3. new \subseteq Slice BY <2>1, <2>2 DEF Slice
  <2>4. \A s \in new : Tasks(s) \in P BY DEF Tasks
  <2>5. \A T \in P : <<plan + 1, T>> \in new /\ Tasks(<<plan + 1, T>>) = T BY DEF Tasks
  <2>6. TasksOf(new) = UNION P BY <2>4, <2>5 DEF TasksOf
  <2>7. ASSUME NEW s \in new, NEW r \in new PROVE s = r \/ Tasks(s) \cap Tasks(r) = {}
    <3>1. PICK S \in P, T \in P : s = <<plan + 1, S>> /\ r = <<plan + 1, T>> OBVIOUS
    <3>2. Tasks(s) = S /\ Tasks(r) = T BY <3>1 DEF Tasks
    <3>3. QED BY <1>c, <3>1, <3>2
  <2>8. QED BY <1>c, <2>3, <2>6, <2>7
<1>e. Kept \subseteq Active /\ Active \subseteq Slice /\ TasksOf(Kept) \subseteq Task
  BY DEF IInv, TypeOK, Kept, Active, OnDisk, Slice, Tasks, TasksOf, Task
<1>f. amendPending' = {j} BY <1>a
<1>g. amendPending = {} /\ OwnedOnce /\ NoLeases /\ batchCancelled /\ cancelled
  BY DEF BeginAmendment
<1>h. UNCHANGED <<plan, batchPlan, batchRevision, batchCancelled, cancelled>>
      /\ UNCHANGED <<sliceIds, manifests, files, skipPending>>
  BY DEF BeginAmendment, workflow, batch, evidence
<1> HIDE DEF U, new, j
<1>1. TypeOK'
  <2>1. plan + 1 \in 1 .. MaxAmendments
    BY TransactionsAssumption DEF IInv, TypeOK, BeginAmendment
  <2>2. amendPending' \subseteq
          [plan : 1 .. MaxAmendments, revision : Nat, batchRevision : Nat,
           protected : SUBSET Task, kept : SUBSET Slice, new : SUBSET Slice]
    <3>1. j \in [plan : 1 .. MaxAmendments, revision : Nat, batchRevision : Nat,
                 protected : SUBSET Task, kept : SUBSET Slice, new : SUBSET Slice]
      BY <2>1, <1>d, <1>e DEF IInv, TypeOK, j
    <3>2. QED BY <1>f, <3>1
  <2>3. QED BY <2>2 DEF IInv, TypeOK, BeginAmendment, workflow, batch, evidence, operators
<1>2. Journals'
  BY <1>f DEF IInv, Journals, BeginAmendment, LockFree, workflow, batch, evidence, journals, operators
<1>3. Stopped'
  BY <1>g, <1>h DEF IInv, Stopped, Files, NoLeases
<1>4. Files'
  BY DEF IInv, BeginAmendment, LockFree, NoLeases, TypeOK, Files, Active, OnDisk, workflow, batch, evidence, journals, operators
<1>5. Plans'
  BY <1>b, <1>f, <1>g, <1>h DEF IInv, TypeOK, Plans
<1>6. Owned'
  <2>1. TasksOf(Kept \cup new) = Task
    <3>1. TasksOf(Kept \cup new) = TasksOf(Kept) \cup TasksOf(new) BY DEF TasksOf
    <3>2. QED BY <3>1, <1>d, <1>e DEF U
  <2>2. ASSUME NEW s \in Kept \cup new, NEW r \in Kept \cup new PROVE s = r \/ Tasks(s) \cap Tasks(r) = {}
    <3>1. \A x \in Kept : Tasks(x) \subseteq TasksOf(Kept) BY DEF TasksOf
    <3>2. \A x \in new : Tasks(x) \subseteq U BY <1>d DEF TasksOf
    <3>3. CASE s \in Kept /\ r \in Kept BY <3>3, <1>e, <1>g DEF OwnedOnce
    <3>4. CASE s \in new /\ r \in new BY <3>4, <1>d
    <3>5. CASE (s \in Kept /\ r \in new) \/ (s \in new /\ r \in Kept) BY <3>1, <3>2, <3>5 DEF U
    <3>6. QED BY <3>3, <3>4, <3>5
  <2>3. Kept \subseteq OnDisk
    BY <1>e DEF IInv, Files, Active
  <2>4. \A s \in Active : files[s] = "completed" => s \in Kept BY DEF Kept
  <2>5. plan + 1 \notin manifests BY <1>g DEF IInv, TypeOK, Plans
  <2>6. OnDisk' = OnDisk /\ Active' = Active BY <1>h DEF OnDisk, Active
  <2>7. QED BY <1>b, <1>f, <1>g, <1>h, <2>1, <2>2, <2>3, <2>4, <2>5, <2>6 DEF IInv, Owned, OwnedOnce
<1>7. Skips'
  BY DEF IInv, BeginAmendment, LockFree, NoLeases, TypeOK, Skips, Gap, workflow, batch, evidence, journals, operators
<1>8. GapsAccounted'
  BY DEF IInv, BeginAmendment, LockFree, NoLeases, TypeOK, GapsAccounted, Verified, Skipping, workflow, batch, evidence, journals, operators
<1>9. ReducingAccounts'
  BY DEF IInv, BeginAmendment, LockFree, NoLeases, TypeOK, ReducingAccounts, Skipping, workflow, batch, evidence, journals, operators
<1> QED BY <1>1, <1>2, <1>3, <1>4, <1>5, <1>6, <1>7, <1>8, <1>9 DEF IInv

LEMMA RetryAmendmentKeeps == ASSUME IInv, RetryAmendment PROVE IInv'
<1>1. TypeOK'
  BY DEF IInv, RetryAmendment, LockFree, TypeOK, Entry, workflow, batch, evidence, journals, operators
<1>2. Journals'
  BY DEF IInv, RetryAmendment, LockFree, TypeOK, Journals, Finishable, workflow, batch, evidence, journals, operators
<1>3. Stopped'
  BY DEF IInv, RetryAmendment, LockFree, TypeOK, Stopped, workflow, batch, evidence, journals, operators
<1>4. Files'
  BY DEF IInv, RetryAmendment, LockFree, TypeOK, Files, Active, OnDisk, workflow, batch, evidence, journals, operators
<1>5. Plans'
  BY DEF IInv, RetryAmendment, LockFree, TypeOK, Plans, Journals, workflow, batch, evidence, journals, operators
<1>6. Owned'
  BY DEF IInv, RetryAmendment, LockFree, TypeOK, Owned, OwnedOnce, Active, OnDisk, workflow, batch, evidence, journals, operators
<1>7. Skips'
  BY DEF IInv, RetryAmendment, LockFree, TypeOK, Skips, Gap, workflow, batch, evidence, journals, operators
<1>8. GapsAccounted'
  BY DEF IInv, RetryAmendment, LockFree, TypeOK, GapsAccounted, Verified, Skipping, workflow, batch, evidence, journals, operators
<1>9. ReducingAccounts'
  BY DEF IInv, RetryAmendment, LockFree, TypeOK, ReducingAccounts, Skipping, workflow, batch, evidence, journals, operators
<1> QED BY <1>1, <1>2, <1>3, <1>4, <1>5, <1>6, <1>7, <1>8, <1>9 DEF IInv

LEMMA CheckAmendmentKeeps == ASSUME IInv, CheckAmendment PROVE IInv'
<1>1. TypeOK'
  BY DEF IInv, CheckAmendment, TypeOK, Entry, workflow, batch, evidence, journals, operators
<1>2. Journals'
  <2>1. PICK j \in amendPending : at' = IF Finishable(j) THEN "writing" ELSE "idle"
    BY DEF CheckAmendment
  <2>2. \A i \in amendPending : i = j BY DEF IInv, Journals
  <2>3. Finishable(j)' = Finishable(j)
    BY DEF CheckAmendment, Finishable, workflow, batch, evidence
  <2>4. Finishable(j) => batchCancelled BY DEF IInv, Plans, Finishable
  <2>5. QED BY <2>1, <2>2, <2>3, <2>4 DEF IInv, Journals, CheckAmendment, batch
<1>3. Stopped'
  BY DEF IInv, CheckAmendment, TypeOK, Stopped, workflow, batch, evidence, journals, operators
<1>4. Files'
  BY DEF IInv, CheckAmendment, TypeOK, Files, Active, OnDisk, workflow, batch, evidence, journals, operators
<1>5. Plans'
  BY DEF IInv, CheckAmendment, TypeOK, Plans, Journals, workflow, batch, evidence, journals, operators
<1>6. Owned'
  BY DEF IInv, CheckAmendment, TypeOK, Owned, OwnedOnce, Active, OnDisk, workflow, batch, evidence, journals, operators
<1>7. Skips'
  BY DEF IInv, CheckAmendment, TypeOK, Skips, Gap, workflow, batch, evidence, journals, operators
<1>8. GapsAccounted'
  BY DEF IInv, CheckAmendment, TypeOK, GapsAccounted, Verified, Skipping, workflow, batch, evidence, journals, operators
<1>9. ReducingAccounts'
  BY DEF IInv, CheckAmendment, TypeOK, ReducingAccounts, Skipping, workflow, batch, evidence, journals, operators
<1> QED BY <1>1, <1>2, <1>3, <1>4, <1>5, <1>6, <1>7, <1>8, <1>9 DEF IInv

LEMMA AmendSliceKeeps == ASSUME IInv, NEW s \in Slice, AmendSlice(s) PROVE IInv'
<1>1. TypeOK'
  BY DEF IInv, AmendSlice, TypeOK, Entry, workflow, batch, evidence, journals, operators
<1>2. Journals'
  BY DEF IInv, AmendSlice, TypeOK, Journals, Finishable, workflow, batch, evidence, journals, operators
<1>3. Stopped'
  BY DEF IInv, AmendSlice, TypeOK, Stopped, workflow, batch, evidence, journals, operators
<1>4. Files'
  BY DEF IInv, AmendSlice, TypeOK, Files, Active, OnDisk, workflow, batch, evidence, journals, operators
<1>5. Plans'
  BY DEF IInv, AmendSlice, TypeOK, Plans, Journals, workflow, batch, evidence, journals, operators
<1>6. Owned'
  BY DEF IInv, AmendSlice, TypeOK, Owned, OwnedOnce, Active, OnDisk, workflow, batch, evidence, journals, operators
<1>7. Skips'
  BY DEF IInv, AmendSlice, TypeOK, Skips, Gap, workflow, batch, evidence, journals, operators
<1>8. GapsAccounted'
  BY DEF IInv, AmendSlice, TypeOK, GapsAccounted, Verified, Skipping, workflow, batch, evidence, journals, operators
<1>9. ReducingAccounts'
  BY DEF IInv, AmendSlice, TypeOK, ReducingAccounts, Skipping, workflow, batch, evidence, journals, operators
<1> QED BY <1>1, <1>2, <1>3, <1>4, <1>5, <1>6, <1>7, <1>8, <1>9 DEF IInv

LEMMA AmendManifestKeeps == ASSUME IInv, AmendManifest PROVE IInv'
<1>1. TypeOK'
  BY DEF IInv, AmendManifest, TypeOK, Entry, workflow, batch, evidence, journals, operators
<1>2. Journals'
  BY DEF IInv, AmendManifest, TypeOK, Journals, Finishable, workflow, batch, evidence, journals, operators
<1>3. Stopped'
  BY DEF IInv, AmendManifest, TypeOK, Stopped, workflow, batch, evidence, journals, operators
<1>4. Files'
  BY DEF IInv, AmendManifest, TypeOK, Files, Active, OnDisk, workflow, batch, evidence, journals, operators
<1>5. Plans'
  BY DEF IInv, AmendManifest, TypeOK, Plans, Journals, workflow, batch, evidence, journals, operators
<1>6. Owned'
  <2>1. PICK j \in amendPending : j.new \subseteq OnDisk /\ manifests' = manifests \cup {j.plan}
    BY DEF AmendManifest
  <2>2. \A i \in amendPending : i = j BY DEF IInv, Journals
  <2>3. UNCHANGED <<amendPending, batchPlan, sliceIds, files>> BY DEF AmendManifest, batch, journals
  <2>4. OnDisk' = OnDisk /\ Active' = Active BY <2>3 DEF OnDisk, Active
  <2>5. QED BY <2>1, <2>2, <2>3, <2>4 DEF IInv, Owned, OwnedOnce
<1>7. Skips'
  BY DEF IInv, AmendManifest, TypeOK, Skips, Gap, workflow, batch, evidence, journals, operators
<1>8. GapsAccounted'
  BY DEF IInv, AmendManifest, TypeOK, GapsAccounted, Verified, Skipping, workflow, batch, evidence, journals, operators
<1>9. ReducingAccounts'
  BY DEF IInv, AmendManifest, TypeOK, ReducingAccounts, Skipping, workflow, batch, evidence, journals, operators
<1> QED BY <1>1, <1>2, <1>3, <1>4, <1>5, <1>6, <1>7, <1>8, <1>9 DEF IInv

LEMMA AmendBatchKeeps == ASSUME IInv, AmendBatch PROVE IInv'
<1>a. PICK j \in amendPending : /\ j.plan \in manifests /\ batchPlan # j.plan
                                /\ batchPlan' = j.plan /\ sliceIds' = j.kept \cup j.new
  BY DEF AmendBatch
<1>b. (\A i \in amendPending : i = j) /\ Finishable(j) /\ batchCancelled
  BY DEF IInv, Journals, AmendBatch
<1>c. /\ UNCHANGED <<files, done, amendPending, manifests, batchCancelled>>
      /\ batchRevision' = batchRevision + 1
  BY DEF AmendBatch, evidence, journals
<1>d. j.plan \in 1 .. MaxAmendments /\ j.kept \subseteq Slice /\ j.new \subseteq Slice
  BY DEF IInv, TypeOK
<1>e. Active' = j.kept \cup j.new /\ OnDisk' = OnDisk
  BY <1>a, <1>c, <1>d DEF Active, OnDisk
<1>f. j.kept \cup j.new \subseteq OnDisk BY <1>a DEF IInv, Owned
<1>1. TypeOK'
  BY DEF IInv, AmendBatch, TypeOK, Entry, workflow, batch, evidence, journals, operators
<1>2. Journals'
  BY DEF IInv, AmendBatch, TypeOK, Journals, Finishable, workflow, batch, evidence, journals, operators
<1>3. Stopped'
  BY DEF IInv, AmendBatch, TypeOK, Stopped, workflow, batch, evidence, journals, operators
<1>4. Files'
  <2>1. \A s \in Active' : files[s] \in {"completed", "cancelled"}
    BY <1>b, <1>e, <1>f DEF Finishable, OnDisk
  <2>2. ASSUME NEW s \in Slice, s \notin Active' PROVE files[s] \in {"absent", "cancelled"}
    <3>1. CASE s \in Active
      <4>1. files[s] \in {"completed", "cancelled"} BY <1>b, <3>1 DEF IInv, Files
      <4>2. files[s] = "completed" => s \in j.kept BY <1>a, <3>1 DEF IInv, Owned
      <4>3. QED BY <4>1, <4>2, <1>e, <2>2
    <3>2. CASE s \notin Active BY <3>2 DEF IInv, Files
    <3>3. QED BY <3>1, <3>2
  <2>3. QED BY <1>a, <1>c, <1>e, <1>f, <2>1, <2>2 DEF IInv, Files
<1>5. Plans'
  BY DEF IInv, AmendBatch, TypeOK, Plans, Journals, workflow, batch, evidence, journals, operators
<1>6. Owned'
  BY <1>a, <1>b, <1>c, <1>d, <1>e DEF IInv, Owned, OwnedOnce
<1>7. Skips'
  BY DEF IInv, AmendBatch, TypeOK, Skips, Gap, workflow, batch, evidence, journals, operators
<1>8. GapsAccounted'
  BY DEF IInv, AmendBatch, TypeOK, GapsAccounted, Verified, Skipping, workflow, batch, evidence, journals, operators
<1>9. ReducingAccounts'
  BY DEF IInv, AmendBatch, TypeOK, ReducingAccounts, Skipping, workflow, batch, evidence, journals, operators
<1> QED BY <1>1, <1>2, <1>3, <1>4, <1>5, <1>6, <1>7, <1>8, <1>9 DEF IInv

LEMMA AmendRecordKeeps == ASSUME IInv, AmendRecord PROVE IInv'
<1>1. TypeOK'
  BY DEF IInv, AmendRecord, TypeOK, Entry, workflow, batch, evidence, journals, operators
<1>2. Journals'
  BY DEF IInv, AmendRecord, TypeOK, Journals, Finishable, workflow, batch, evidence, journals, operators
<1>3. Stopped'
  BY DEF IInv, AmendRecord, TypeOK, Stopped, workflow, batch, evidence, journals, operators
<1>4. Files'
  BY DEF IInv, AmendRecord, TypeOK, Files, Active, OnDisk, workflow, batch, evidence, journals, operators
<1>5. Plans'
  BY DEF IInv, AmendRecord, TypeOK, Plans, Journals, workflow, batch, evidence, journals, operators
<1>6. Owned'
  BY DEF IInv, AmendRecord, TypeOK, Owned, OwnedOnce, Active, OnDisk, workflow, batch, evidence, journals, operators
<1>7. Skips'
  BY DEF IInv, AmendRecord, TypeOK, Skips, Gap, workflow, batch, evidence, journals, operators
<1>8. GapsAccounted'
  BY DEF IInv, AmendRecord, TypeOK, GapsAccounted, Verified, Skipping, workflow, batch, evidence, journals, operators
<1>9. ReducingAccounts'
  BY DEF IInv, AmendRecord, TypeOK, ReducingAccounts, Skipping, workflow, batch, evidence, journals, operators
<1> QED BY <1>1, <1>2, <1>3, <1>4, <1>5, <1>6, <1>7, <1>8, <1>9 DEF IInv

LEMMA AmendUnlinkKeeps == ASSUME IInv, AmendUnlink PROVE IInv'
<1>1. TypeOK'
  BY DEF IInv, AmendUnlink, TypeOK, Entry, workflow, batch, evidence, journals, operators
<1>2. Journals'
  BY DEF IInv, AmendUnlink, TypeOK, Journals, Finishable, workflow, batch, evidence, journals, operators
<1>3. Stopped'
  BY DEF IInv, AmendUnlink, TypeOK, Stopped, workflow, batch, evidence, journals, operators
<1>4. Files'
  BY DEF IInv, AmendUnlink, TypeOK, Files, Active, OnDisk, workflow, batch, evidence, journals, operators
<1>5. Plans'
  BY DEF IInv, AmendUnlink, TypeOK, Plans, Journals, workflow, batch, evidence, journals, operators
<1>6. Owned'
  <2>1. PICK j \in amendPending : plan = j.plan BY DEF AmendUnlink
  <2>2. batchPlan # 0 BY <2>1 DEF IInv, TypeOK, Plans
  <2>3. UNCHANGED <<batchPlan, sliceIds, files>> /\ amendPending' = {} BY DEF AmendUnlink, batch
  <2>4. QED BY <2>2, <2>3 DEF IInv, Owned, OwnedOnce, Active, OnDisk
<1>7. Skips'
  BY DEF IInv, AmendUnlink, TypeOK, Skips, Gap, workflow, batch, evidence, journals, operators
<1>8. GapsAccounted'
  BY DEF IInv, AmendUnlink, TypeOK, GapsAccounted, Verified, Skipping, workflow, batch, evidence, journals, operators
<1>9. ReducingAccounts'
  BY DEF IInv, AmendUnlink, TypeOK, ReducingAccounts, Skipping, workflow, batch, evidence, journals, operators
<1> QED BY <1>1, <1>2, <1>3, <1>4, <1>5, <1>6, <1>7, <1>8, <1>9 DEF IInv

LEMMA CrashKeeps == ASSUME IInv, Crash PROVE IInv'
<1>1. TypeOK'
  BY DEF IInv, Crash, LockFree, TypeOK, Entry, workflow, batch, evidence, journals, operators
<1>2. Journals'
  BY DEF IInv, Crash, LockFree, TypeOK, Journals, Finishable, workflow, batch, evidence, journals, operators
<1>3. Stopped'
  BY DEF IInv, Crash, LockFree, TypeOK, Stopped, workflow, batch, evidence, journals, operators
<1>4. Files'
  BY DEF IInv, Crash, LockFree, TypeOK, Files, Active, OnDisk, workflow, batch, evidence, journals, operators
<1>5. Plans'
  BY DEF IInv, Crash, LockFree, TypeOK, Plans, Journals, workflow, batch, evidence, journals, operators
<1>6. Owned'
  BY DEF IInv, Crash, LockFree, TypeOK, Owned, OwnedOnce, Active, OnDisk, workflow, batch, evidence, journals, operators
<1>7. Skips'
  BY DEF IInv, Crash, LockFree, TypeOK, Skips, Gap, workflow, batch, evidence, journals, operators
<1>8. GapsAccounted'
  BY DEF IInv, Crash, LockFree, TypeOK, GapsAccounted, Verified, Skipping, workflow, batch, evidence, journals, operators
<1>9. ReducingAccounts'
  BY DEF IInv, Crash, LockFree, TypeOK, ReducingAccounts, Skipping, workflow, batch, evidence, journals, operators
<1> QED BY <1>1, <1>2, <1>3, <1>4, <1>5, <1>6, <1>7, <1>8, <1>9 DEF IInv

LEMMA InitHolds == Init => IInv
<1> SUFFICES ASSUME Init PROVE IInv OBVIOUS
<1>a. First \subseteq Slice /\ \A s \in First : \E T \in FirstSlices : s = <<0, T>>
  <2>1. 0 \in 0 .. MaxAmendments BY TransactionsAssumption
  <2>2. \A T \in FirstSlices : T \in (SUBSET Task) \ {{}} BY TransactionsAssumption
  <2>3. QED BY <2>1, <2>2 DEF First, Slice
<1>b. OnDisk = First /\ Active = First
  BY <1>a DEF Init, OnDisk, Active
<1>c. OwnedOnce
  <2>1. \A s \in First : Tasks(s) \in FirstSlices BY <1>a DEF Tasks
  <2>2. \A T \in FirstSlices : <<0, T>> \in First /\ Tasks(<<0, T>>) = T BY DEF First, Tasks
  <2>3. TasksOf(First) = UNION FirstSlices BY <2>1, <2>2 DEF TasksOf
  <2>4. \A s, r \in First : s = r \/ Tasks(s) \cap Tasks(r) = {}
    BY <1>a, TransactionsAssumption DEF Tasks
  <2>5. QED BY <1>b, <2>3, <2>4, TransactionsAssumption DEF OwnedOnce
<1>1. TypeOK
  <2>1. 0 \in 0 .. MaxAmendments BY TransactionsAssumption
  <2>2. files \in [Slice -> {"absent", "ready", "leased", "blocked", "completed", "cancelled"}]
    BY DEF Init
  <2>3. mode \in {"canary", "disabled", "full"} BY DEF Init
  <2>4. revision \in Nat /\ batchRevision \in Nat /\ commands \in Nat /\ crashes \in Nat BY DEF Init
  <2>5. QED BY <1>a, <2>1, <2>2, <2>3, <2>4 DEF Init, TypeOK
<1>2. Journals BY DEF Init, Journals
<1>3. Stopped BY DEF Init, Stopped
<1>4. Files BY <1>b DEF Init, Files
<1>5. Plans BY DEF Init, Plans
<1>6. Owned BY <1>c DEF Init, Owned
<1>7. Skips BY DEF Init, Skips
<1>8. GapsAccounted BY DEF Init, GapsAccounted
<1>9. ReducingAccounts BY DEF Init, ReducingAccounts
<1> QED BY <1>1, <1>2, <1>3, <1>4, <1>5, <1>6, <1>7, <1>8, <1>9 DEF IInv

LEMMA StutterKeeps == ASSUME IInv, UNCHANGED vars PROVE IInv'
<1>1. UNCHANGED <<revision, cancelled, stage, mode, plan, gaps>>
      /\ UNCHANGED <<batchRevision, batchCancelled, batchPlan, sliceIds>>
      /\ UNCHANGED <<files, done, failed, skipped, reports, manifests>>
      /\ UNCHANGED <<skipPending, amendPending, at>>
      /\ UNCHANGED <<resuming, cancelling, commands, crashes, orderly>>
  BY DEF vars, workflow, batch, evidence, journals, operators
<1>2. TypeOK' BY <1>1 DEF IInv, TypeOK
<1>3. Journals' BY <1>1 DEF IInv, Journals, Finishable
<1>4. Stopped' BY <1>1 DEF IInv, Stopped
<1>5. Files' BY <1>1 DEF IInv, Files, Active, OnDisk
<1>6. Plans' BY <1>1 DEF IInv, Plans
<1>7. Owned' BY <1>1 DEF IInv, Owned, OwnedOnce, Active, OnDisk
<1>8. Skips' BY <1>1 DEF IInv, Skips
<1>9. GapsAccounted' /\ ReducingAccounts' BY <1>1 DEF IInv, GapsAccounted, Verified, ReducingAccounts
<1> QED BY <1>2, <1>3, <1>4, <1>5, <1>6, <1>7, <1>8, <1>9 DEF IInv

LEMMA NextKeeps == IInv /\ [Next]_vars => IInv'
<1> SUFFICES ASSUME IInv, [Next]_vars PROVE IInv' OBVIOUS
<1>1. CASE Worker
  BY <1>1, ClaimKeeps, PassKeeps, CompleteKeeps, FailKeeps DEF Worker
<1>2. CASE Operator
  BY <1>2, CancelKeeps, CancelAgainKeeps, CancelBatchKeeps, ResumeKeeps, ResumeBatchKeeps,
     DisarmKeeps, ArmKeeps DEF Operator
<1>3. CASE Promote \/ FinishPasses BY <1>3, PromoteKeeps, FinishPassesKeeps
<1>4. CASE (\E op \in SkipOp : BeginSkip(op)) \/ BeginAmendment
  BY <1>4, BeginSkipKeeps, BeginAmendmentKeeps
<1>5. CASE Retry BY <1>5, RetrySkipKeeps, ReplaySkipKeeps, RetryAmendmentKeeps DEF Retry
<1>6. CASE SkipWrites
  BY <1>6, SkipTaskKeeps, SkipReportKeeps, SkipRecordKeeps, SkipUnlinkKeeps DEF SkipWrites
<1>7. CASE AmendWrites
  BY <1>7, CheckAmendmentKeeps, AmendSliceKeeps, AmendManifestKeeps, AmendBatchKeeps,
     AmendRecordKeeps, AmendUnlinkKeeps DEF AmendWrites
<1>8. CASE CallerDies \/ Crash BY <1>8, CallerDiesKeeps, CrashKeeps
<1>9. CASE UNCHANGED vars BY <1>9, StutterKeeps
<1> QED BY <1>1, <1>2, <1>3, <1>4, <1>5, <1>6, <1>7, <1>8, <1>9 DEF Next

\* The invariant the theorems below are read off from.
THEOREM InvHolds == Spec => []IInv
  BY InitHolds, NextKeeps, PTL DEF Spec

\* The state keeps its type.
THEOREM TypesHold == Spec => []TypeOK
<1>1. IInv => TypeOK BY DEF IInv
<1> QED BY <1>1, InvHolds, PTL

\* While a journal of either transaction is there, the workflow is stopped and
\* no worker holds a slice.
THEOREM PendingStops == Spec => []StoppedWhilePending
<1>1. IInv => StoppedWhilePending
  BY DEF IInv, TypeOK, Stopped, StoppedWhilePending, NoLeases, Active, OnDisk
<1> QED BY <1>1, InvHolds, PTL

\* A workflow that runs has one plan, and each task one slice.
THEOREM PlansAgree == Spec => []WorkOwnedOnce
<1>1. IInv => WorkOwnedOnce BY DEF IInv, Stopped, Plans, Owned, WorkOwnedOnce
<1> QED BY <1>1, InvHolds, PTL

\* Given-up work is accounted for, never offered again, and the only work that
\* Reduce goes without.
THEOREM SkipsAlwaysHold == Spec => []SkipsHold
<1>1. IInv => GapsAccounted /\ ReducingAccounts BY DEF IInv
<1>2. IInv => SkippedNotOffered
  BY DEF IInv, TypeOK, Files, Skips, SkippedNotOffered, Active, OnDisk
<1>3. IInv => SkipsHold BY <1>1, <1>2 DEF SkipsHold
<1> QED BY <1>3, InvHolds, PTL

Outcome ==
    /\ gaps \subseteq gaps'
    /\ \A s \in Active : files[s] = "completed" => s \in Active' /\ files'[s] = "completed"

LEMMA OutcomeOfFiles ==
    ASSUME TypeOK, gaps \subseteq gaps', UNCHANGED <<batchPlan, sliceIds>>,
           \A s \in Slice : /\ files[s] = "completed" => files'[s] = "completed"
                            /\ files[s] # "absent" => files'[s] # "absent"
    PROVE  Outcome
  BY DEF Outcome, Active, OnDisk, TypeOK

LEMMA OutcomeStep == ASSUME IInv, [Next]_vars PROVE Outcome
<1>0. TypeOK BY DEF IInv
<1>1. ASSUME gaps \subseteq gaps', UNCHANGED <<files, batchPlan, sliceIds>> PROVE Outcome
  BY <1>0, <1>1, OutcomeOfFiles
<1>2. CASE Worker
  <2>1. UNCHANGED <<gaps, batchPlan, sliceIds>>
    BY <1>2 DEF Worker, Claim, Pass, Complete, Fail, workflow, batch
  <2>2. ASSUME NEW r \in Slice
        PROVE  /\ files[r] = "completed" => files'[r] = "completed"
               /\ files[r] # "absent" => files'[r] # "absent"
    BY <1>0, <1>2 DEF TypeOK, Worker, Claim, Pass, Complete, Fail
  <2>3. QED BY <1>0, <2>1, <2>2, OutcomeOfFiles
<1>3. CASE Operator
  <2>1. CASE Cancel \/ CancelAgain \/ Resume
    BY <1>1, <2>1 DEF Cancel, CancelAgain, Resume, workflow, batch
  <2>2. CASE Disarm \/ Arm BY <1>1, <2>2 DEF Disarm, Arm, Switch, batch
  <2>3. CASE CancelBatch
    <3>1. UNCHANGED <<gaps, batchPlan, sliceIds>> BY <2>3 DEF CancelBatch, workflow, batch
    <3>2. ASSUME NEW r \in Slice
          PROVE  /\ files[r] = "completed" => files'[r] = "completed"
                 /\ files[r] # "absent" => files'[r] # "absent"
      <4>1. CASE batchCancelled BY <2>3, <4>1 DEF CancelBatch
      <4>2. CASE ~batchCancelled BY <2>3, <4>2 DEF CancelBatch
      <4>3. QED BY <4>1, <4>2
    <3>3. QED BY <1>0, <3>1, <3>2, OutcomeOfFiles
  <2>4. CASE ResumeBatch
    <3>1. UNCHANGED <<gaps, batchPlan, sliceIds>> BY <2>4 DEF ResumeBatch, workflow, batch
    <3>2. ASSUME NEW r \in Slice
          PROVE  /\ files[r] = "completed" => files'[r] = "completed"
                 /\ files[r] # "absent" => files'[r] # "absent"
      <4>1. CASE ~batchCancelled BY <2>4, <4>1 DEF ResumeBatch
      <4>2. CASE batchCancelled BY <2>4, <4>2 DEF ResumeBatch
      <4>3. QED BY <4>1, <4>2
    <3>3. QED BY <1>0, <3>1, <3>2, OutcomeOfFiles
  <2>5. QED BY <1>3, <2>1, <2>2, <2>3, <2>4 DEF Operator
<1>4. CASE Promote \/ FinishPasses
  BY <1>1, <1>4 DEF Promote, FinishPasses, Advance, batch
<1>5. CASE (\E op \in SkipOp : BeginSkip(op)) \/ BeginAmendment \/ Retry
  BY <1>1, <1>5 DEF BeginSkip, BeginAmendment, Retry, RetrySkip, ReplaySkip, RetryAmendment,
     workflow, batch
<1>6. CASE SkipWrites
  <2>1. CASE SkipRecord BY <1>1, <2>1 DEF SkipRecord, batch
  <2>2. CASE (\E t \in Task : SkipTask(t)) \/ SkipReport \/ SkipUnlink
    BY <1>1, <2>2 DEF SkipTask, SkipReport, SkipUnlink, workflow, batch
  <2>3. QED BY <1>6, <2>1, <2>2 DEF SkipWrites
<1>7. CASE AmendWrites
  <2>1. CASE CheckAmendment \/ AmendManifest \/ AmendRecord \/ AmendUnlink
    BY <1>1, <2>1 DEF CheckAmendment, AmendManifest, AmendRecord, AmendUnlink, workflow, batch
  <2>2. ASSUME NEW r \in Slice, AmendSlice(r) PROVE Outcome
    BY <1>0, <2>2, OutcomeOfFiles DEF TypeOK, AmendSlice, workflow, batch
  <2>3. CASE AmendBatch
    <3>1. PICK j \in amendPending : /\ j.plan \in manifests /\ batchPlan # j.plan
                                    /\ batchPlan' = j.plan /\ sliceIds' = j.kept \cup j.new
      BY <2>3 DEF AmendBatch
    <3>2. UNCHANGED <<gaps, files>> BY <2>3 DEF AmendBatch, workflow
    <3>3. j.plan # 0 BY <1>0 DEF TypeOK
    <3>4. Active' = j.kept \cup j.new BY <3>1, <3>3 DEF Active
    <3>5. \A s \in Active : files[s] = "completed" => s \in j.kept
      BY <3>1 DEF IInv, Owned
    <3>6. QED BY <3>2, <3>4, <3>5 DEF Outcome
  <2>4. QED BY <1>7, <2>1, <2>2, <2>3 DEF AmendWrites
<1>8. CASE CallerDies \/ Crash \/ UNCHANGED vars
  BY <1>1, <1>8 DEF CallerDies, Crash, vars, workflow, batch
<1> QED BY <1>2, <1>3, <1>4, <1>5, <1>6, <1>7, <1>8 DEF Next

\* Completed slices stay in force through amendments and cancellations, and
\* recorded gaps stay recorded.
THEOREM OutcomesHold == Spec => OutcomesStay
<1>1. IInv /\ [Next]_vars => [Outcome]_vars BY OutcomeStep
<1>2. OutcomesStay <=> [][Outcome]_vars BY DEF OutcomesStay, Outcome
<1> QED BY <1>1, <1>2, InvHolds, PTL DEF Spec
=============================================================================
