------------------------- MODULE SliceLedgerProofs -------------------------
(* Proofs about SliceLedger, for every value of its constants.              *)
EXTENDS SliceLedger, FiniteSetTheorems, TLAPS

\* Timers of a completed slice are off for good.
CompletedTimersOff ==
  \A s \in Slice : slice[s].state = "completed" =>
                     slice[s].left = Off /\ slice[s].wait = Off

\* A slice that may be leased (again) has attempts left: its own, or the one
\* a resumption adds.
AttemptsLeft ==
  \A s \in Slice : slice[s].state \in {"ready", "retry_wait"} =>
                     slice[s].attempt < MaxAttempts + resumes

\* The inductive invariant.
IInv ==
  /\ TypeOK
  /\ WorkerExactlyWhileLeased
  /\ StoppedBatchHoldsNoLease
  /\ LeasesWithinCapacity
  /\ CompletedTimersOff
  /\ ResultOfLastAttempt
  /\ AttemptsLeft
  /\ AttemptsBounded

\* A rewrite f of the slices that hands out no lease and completes nothing:
\* leases may end and records may be reset, but completed slices stay, and
\* what becomes leasable has used fewer than n attempts.
Calm(f, n) ==
  /\ f \in [Slice -> SliceRecord]
  /\ \A s \in Slice :
       /\ f[s].worker # None <=> f[s].state = "leased"
       /\ f[s].state = "leased" =>
            slice[s].state = "leased" /\ f[s].worker = slice[s].worker
       /\ f[s].state = "completed" \/ slice[s].state = "completed" => f[s] = slice[s]
       /\ f[s].state \in {"ready", "retry_wait"} => f[s].attempt < n
       /\ f[s].attempt <= slice[s].attempt

\* The attempts a leasable slice must not have used up.
Allowance == MaxAttempts + resumes

LEMMA OffInt == Off \in Int
  BY NumberAssumption DEF Off

----------------------------------------------------------------------------
(* What the operations make of one record.                                  *)

\* A record's lease and retry time can be cleared in any state.
LEMMA SettledType ==
  ASSUME NEW r \in SliceRecord, NEW st \in State
  PROVE  /\ Settled(r, st) \in SliceRecord
         /\ Settled(r, st).state = st /\ Settled(r, st).worker = None
         /\ Settled(r, st).attempt = r.attempt
         /\ Settled(r, st).result = r.result
  <1>1. Settled(r, st) \in SliceRecord
    BY OffInt DEF Settled, SliceRecord
  <1>2. Settled(r, st).state = st /\ Settled(r, st).worker = None
    BY DEF Settled, SliceRecord
  <1>3. Settled(r, st).attempt = r.attempt /\ Settled(r, st).result = r.result
    BY DEF Settled, SliceRecord
  <1> QED
    BY <1>1, <1>2, <1>3

\* A record that is created holds no lease and no attempt.
LEMMA FreshType ==
  ASSUME NEW s \in Slice
  PROVE  /\ Absent \in SliceRecord /\ Fresh(s) \in SliceRecord
         /\ Absent.worker = None /\ Fresh(s).worker = None
         /\ Absent.state = "absent" /\ Fresh(s).state \in {"ready", "blocked"}
         /\ Absent.attempt = 0 /\ Fresh(s).attempt = 0
  <1>1. {"absent", "ready", "blocked"} \subseteq State
    BY DEF State
  <1>2. Absent \in SliceRecord
    BY <1>1, OffInt DEF Absent, SliceRecord
  <1>3. Absent.state = "absent" /\ Absent.worker = None /\ Absent.attempt = 0
    BY DEF Absent
  <1> DEFINE st == IF s \in Oversize THEN "blocked" ELSE "ready"
             n == IF s \in Original THEN 0 ELSE 1
  <1>4. st \in State /\ st \in {"ready", "blocked"} /\ n \in 0..1
    BY <1>1
  <1> HIDE DEF st, n
  <1> DEFINE r == Absent
  <1>5. r \in SliceRecord /\ r.worker = None /\ r.attempt = 0
    BY <1>2, <1>3
  <1> HIDE DEF r
  <1>6. LET p == [r EXCEPT !.state = st, !.reslices = n]
        IN  p \in SliceRecord /\ p.state = st /\ p.worker = None /\ p.attempt = 0
    BY <1>4, <1>5 DEF SliceRecord
  <1>7. Fresh(s) = [r EXCEPT !.state = st, !.reslices = n]
    BY DEF Fresh, r, st, n
  <1> QED
    BY <1>2, <1>3, <1>4, <1>6, <1>7

\* Leasing, renewing and completing a record.
LEMMA LeasedToType ==
  ASSUME NEW r \in SliceRecord, NEW w \in Worker, NEW time \in Int
  PROVE  /\ LeasedTo(r, w, time) \in SliceRecord
         /\ LeasedTo(r, w, time).state = "leased"
         /\ LeasedTo(r, w, time).worker = w
         /\ LeasedTo(r, w, time).attempt = r.attempt + 1
  <1>1. r.attempt + 1 \in Nat
    BY DEF SliceRecord
  <1>2. "leased" \in State
    BY DEF State
  <1> QED
    BY <1>1, <1>2 DEF LeasedTo, SliceRecord

LEMMA RenewedType ==
  ASSUME NEW r \in SliceRecord, NEW time \in Int
  PROVE  /\ Renewed(r, time) \in SliceRecord
         /\ Renewed(r, time).state = r.state
         /\ Renewed(r, time).worker = r.worker
         /\ Renewed(r, time).attempt = r.attempt
  BY DEF Renewed, SliceRecord

LEMMA FinishedType ==
  ASSUME NEW r \in SliceRecord, NEW n \in Nat
  PROVE  /\ Finished(r, n) \in SliceRecord
         /\ Finished(r, n).state = "completed" /\ Finished(r, n).worker = None
         /\ Finished(r, n).attempt = r.attempt /\ Finished(r, n).result = n
  <1>1. "completed" \in State
    BY DEF State
  <1> DEFINE q == Settled(r, "completed")
  <1>2. q \in SliceRecord /\ q.state = "completed" /\ q.worker = None
        /\ q.attempt = r.attempt
    BY <1>1, SettledType
  <1> HIDE DEF q
  <1>3. LET p == [q EXCEPT !.budget = FALSE, !.result = n]
        IN  p \in SliceRecord /\ p.state = q.state /\ p.worker = q.worker
            /\ p.attempt = q.attempt /\ p.result = n
    BY <1>2 DEF SliceRecord
  <1> QED
    BY <1>2, <1>3 DEF Finished, q

LEMMA RetryAfterInt == ASSUME NEW n \in Nat PROVE RetryAfter(n) \in Int
  BY NumberAssumption DEF RetryAfter

\* Failing a record: where it goes, and that a retry has attempts left.
LEMMA FailedType ==
  ASSUME NEW r \in SliceRecord, NEW class \in FailureClass
  PROVE  /\ FailedSlice(class, r) \in SliceRecord
         /\ FailedSlice(class, r).state \in
              {"retry_wait", "reconcile_required", "awaiting_approval", "blocked"}
         /\ FailedSlice(class, r).worker = None
         /\ FailedSlice(class, r).attempt = r.attempt
         /\ FailedSlice(class, r).state = "retry_wait" => r.attempt < MaxAttempts
  <1> DEFINE st == FailedState(class, r)
             time == IF Retries(class, r.attempt) THEN RetryAfter(r.attempt) ELSE Off
             over == class = "reading_budget"
             n == IF class = "reading_budget" /\ r.reslices < 1
                    THEN r.reslices + 1 ELSE r.reslices
  <1>1. st \in {"retry_wait", "reconcile_required", "awaiting_approval", "blocked"}
    BY DEF FailedState
  <1>2. st \in State
    BY <1>1 DEF State
  <1>3. r.attempt \in Nat /\ r.reslices \in 0..1
    BY DEF SliceRecord
  <1>4. time \in Int
    BY <1>3, OffInt, RetryAfterInt
  <1>5. n \in 0..1 /\ over \in BOOLEAN
    BY <1>3
  <1>6. st = "retry_wait" => r.attempt < MaxAttempts
    BY <1>3, NumberAssumption DEF FailedState, Retries, RetryLimit
  <1> DEFINE q == Settled(r, st)
  <1>7. q \in SliceRecord /\ q.state = st /\ q.worker = None /\ q.attempt = r.attempt
    BY <1>2, SettledType
  <1>8. q.reslices = r.reslices
    BY DEF Settled, SliceRecord
  <1>9. FailedSlice(class, r) = [q EXCEPT !.wait = time, !.budget = over, !.reslices = n]
    BY <1>8, Zenon DEF FailedSlice
  <1> HIDE DEF st, time, over, n, q
  <1>10. LET p == [q EXCEPT !.wait = time, !.budget = over, !.reslices = n]
         IN  p \in SliceRecord /\ p.state = q.state /\ p.worker = q.worker
             /\ p.attempt = q.attempt
    BY <1>4, <1>5, <1>7 DEF SliceRecord
  <1> QED
    BY <1>1, <1>6, <1>7, <1>9, <1>10

\* Reclaiming a record: ready only when attempts are left.
LEMMA ReclaimedType ==
  ASSUME NEW r \in SliceRecord
  PROVE  /\ Reclaimed(r) \in SliceRecord
         /\ Reclaimed(r).state \in {"ready", "blocked"}
         /\ Reclaimed(r).worker = None
         /\ Reclaimed(r).attempt = r.attempt
         /\ Reclaimed(r).state = "ready" => r.attempt < MaxAttempts
  <1> DEFINE st == ReclaimedState(r)
             q == Settled(r, st)
  <1>1. st \in {"ready", "blocked"} /\ (st = "ready" => r.attempt < MaxAttempts)
    BY DEF ReclaimedState
  <1>2. st \in State
    BY <1>1 DEF State
  <1>3. q \in SliceRecord /\ q.state = st /\ q.worker = None /\ q.attempt = r.attempt
    BY <1>2, SettledType
  <1> HIDE DEF st, q
  <1>4. LET p == [q EXCEPT !.budget = FALSE]
        IN  p \in SliceRecord /\ p.state = q.state /\ p.worker = q.worker
            /\ p.attempt = q.attempt
    BY <1>3 DEF SliceRecord
  <1> QED
    BY <1>1, <1>3, <1>4 DEF Reclaimed, st, q

\* A tick moves timers only.
LEMMA AgedType ==
  ASSUME NEW r \in SliceRecord
  PROVE  /\ Aged(r) \in SliceRecord
         /\ Aged(r).state = r.state /\ Aged(r).worker = r.worker
         /\ Aged(r).attempt = r.attempt /\ Aged(r).result = r.result
  <1>1. Older(r.left) \in Int /\ Older(r.wait) \in Int
    BY DEF Older, SliceRecord
  <1> DEFINE n == Older(r.left)
             m == Older(r.wait)
  <1> HIDE DEF n, m
  <1>2. LET p == [r EXCEPT !.left = n, !.wait = m]
        IN  p \in SliceRecord /\ p.state = r.state /\ p.worker = r.worker
            /\ p.attempt = r.attempt /\ p.result = r.result
    BY <1>1 DEF SliceRecord, n, m
  <1> QED
    BY <1>2, Zenon DEF Aged, n, m
----------------------------------------------------------------------------
(* What the operations make of all slices.                                  *)

LEMMA AllowanceNat == TypeOK => Allowance \in Nat /\ MaxAttempts <= Allowance
                                /\ Allowance > 0
  BY NumberAssumption DEF TypeOK, Allowance

\* The slices as they are.
LEMMA CalmSame == IInv => Calm(slice, Allowance)
  <1> SUFFICES ASSUME IInv PROVE Calm(slice, Allowance)
    OBVIOUS
  <1>1. slice \in [Slice -> SliceRecord]
    BY DEF IInv, TypeOK
  <1>2. \A s \in Slice : slice[s].attempt \in Nat
    BY <1>1 DEF SliceRecord
  <1> QED
    BY <1>1, <1>2 DEF Calm, IInv, WorkerExactlyWhileLeased, AttemptsLeft, Allowance

\* Only some of the files are written.
LEMMA CalmPart ==
  ASSUME IInv, NEW f, Calm(f, Allowance), NEW W
  PROVE  Calm([s \in Slice |-> IF s \in W THEN f[s] ELSE slice[s]], Allowance)
  BY CalmSame DEF Calm

\* Creating the slices that are not there.
LEMMA CalmEnsured == IInv /\ Ensurable => Calm(EnsuredSlices, Allowance)
  <1> SUFFICES ASSUME IInv, Ensurable, ~batch.initialized
               PROVE  Calm(EnsuredSlices, Allowance)
    BY CalmSame DEF EnsuredSlices
  <1>1. slice \in [Slice -> SliceRecord] /\ Allowance > 0
    BY AllowanceNat DEF IInv, TypeOK
  <1>2. ASSUME NEW s \in Slice
        PROVE  /\ Fresh(s) \in SliceRecord
               /\ Fresh(s).worker = None /\ Fresh(s).attempt = 0
               /\ Fresh(s).state \in {"ready", "blocked"}
    BY FreshType
  <1>3. \A s \in Original : slice[s].state # "completed"
    BY <1>2, FreshType, SliceAssumption DEF Ensurable
  <1>4. \A s \in Slice : slice[s].attempt \in Nat
    BY <1>1 DEF SliceRecord
  <1> QED
    BY <1>1, <1>2, <1>3, <1>4, CalmSame DEF EnsuredSlices, Calm

\* Making due retries ready.
LEMMA CalmPromoted ==
  ASSUME NEW f, NEW d, Calm(f, Allowance)
  PROVE  Calm(Promoted(f, d), Allowance)
  <1>1. "ready" \in State
    BY DEF State
  <1>2. f \in [Slice -> SliceRecord]
    BY DEF Calm
  <1>3. ASSUME NEW s \in Slice
        PROVE  LET r == Settled(f[s], "ready")
               IN  /\ r \in SliceRecord /\ r.state = "ready" /\ r.worker = None
                   /\ r.attempt = f[s].attempt
    BY <1>1, <1>2, SettledType
  <1> QED
    BY <1>2, <1>3 DEF Promoted, Calm

\* One worker failing its slice.
LEMMA CalmFailed ==
  ASSUME IInv, NEW w \in Worker, NEW s \in Slice, NEW class \in FailureClass,
         HoldsLease(w, s, 0)
  PROVE  Calm([slice EXCEPT ![s] = FailedSlice(class, @)], Allowance)
  <1>1. slice \in [Slice -> SliceRecord] /\ Allowance >= MaxAttempts
    BY AllowanceNat, NumberAssumption DEF IInv, TypeOK
  <1>2. slice[s].attempt \in Nat /\ Allowance \in Nat /\ MaxAttempts \in Nat
    BY <1>1, AllowanceNat, NumberAssumption DEF IInv, SliceRecord
  <1> DEFINE r == FailedSlice(class, slice[s])
  <1>3. /\ r \in SliceRecord
        /\ r.state \in {"retry_wait", "reconcile_required", "awaiting_approval", "blocked"}
        /\ r.worker = None /\ r.attempt = slice[s].attempt
        /\ r.state = "retry_wait" => slice[s].attempt < MaxAttempts
    BY <1>1, FailedType
  <1>4. slice[s].state = "leased"
    BY DEF HoldsLease
  <1> HIDE DEF r
  <1>5. Calm([slice EXCEPT ![s] = r], Allowance)
    BY <1>1, <1>2, <1>3, <1>4, CalmSame DEF Calm
  <1> QED
    BY <1>5 DEF r

\* Reclaiming the expired leases.
LEMMA CalmReclaimed ==
  IInv => Calm([s \in Slice |-> IF s \in Expired THEN Reclaimed(slice[s]) ELSE slice[s]],
               Allowance)
  <1> SUFFICES ASSUME IInv
      PROVE Calm([s \in Slice |-> IF s \in Expired THEN Reclaimed(slice[s]) ELSE slice[s]],
                 Allowance)
    OBVIOUS
  <1>1. slice \in [Slice -> SliceRecord] /\ Allowance >= MaxAttempts
    BY AllowanceNat, NumberAssumption DEF IInv, TypeOK
  <1>2. ASSUME NEW s \in Slice
        PROVE  slice[s].attempt \in Nat /\ Allowance \in Nat /\ MaxAttempts \in Nat
    BY <1>1, AllowanceNat, NumberAssumption DEF IInv, SliceRecord
  <1>3. ASSUME NEW s \in Slice
        PROVE  /\ Reclaimed(slice[s]) \in SliceRecord
               /\ Reclaimed(slice[s]).state \in {"ready", "blocked"}
               /\ Reclaimed(slice[s]).worker = None
               /\ Reclaimed(slice[s]).attempt = slice[s].attempt
               /\ Reclaimed(slice[s]).state = "ready" => slice[s].attempt < Allowance
    BY <1>1, <1>2, ReclaimedType
  <1>4. \A s \in Expired : slice[s].state = "leased"
    BY DEF Expired, Leased
  <1> QED
    BY <1>2, <1>3, <1>4, CalmSame DEF Calm

\* Replacing a superseded slice.
LEMMA CalmSuperseding ==
  ASSUME IInv, NEW s \in Slice, Reconcilable(s)
  PROVE  Calm(Superseding(s), Allowance)
  <1>1. slice \in [Slice -> SliceRecord] /\ Allowance \in Nat /\ Allowance > 0
    BY AllowanceNat DEF IInv, TypeOK
  <1>2. ASSUME NEW r \in Slice
        PROVE  /\ Fresh(r) \in SliceRecord /\ slice[r].attempt \in Nat
               /\ Fresh(r).worker = None /\ Fresh(r).attempt = 0
               /\ Fresh(r).state \in {"ready", "blocked"}
    BY <1>1, FreshType DEF SliceRecord
  <1>3. "cancelled" \in State
    BY DEF State
  <1> DEFINE q == Settled(slice[s], "cancelled")
  <1>4. /\ q \in SliceRecord /\ q.state = "cancelled" /\ q.worker = None
        /\ q.attempt = slice[s].attempt
    BY <1>1, <1>3, SettledType
  <1>5. slice[s].state = "reconcile_required" /\ s \in Original
    BY DEF Reconcilable
  <1>6. \A r \in Replacement[s] : r \in Slice /\ slice[r].state # "completed"
    BY <1>2, <1>5, FreshType, SliceAssumption DEF Reconcilable
  <1> HIDE DEF q
  <1>7. Superseding(s) = [r \in Slice |-> IF r \in Replacement[s] THEN Fresh(r)
                                          ELSE IF r = s THEN q ELSE slice[r]]
    BY DEF Superseding, q
  <1> QED
    BY <1>1, <1>2, <1>4, <1>5, <1>6, <1>7, CalmSame DEF Calm

\* Cancelling what is not finished.
LEMMA CalmCancelled == IInv => Calm(CancelledSlices, Allowance)
  <1> SUFFICES ASSUME IInv PROVE Calm(CancelledSlices, Allowance)
    OBVIOUS
  <1>1. slice \in [Slice -> SliceRecord] /\ "cancelled" \in State
    BY DEF IInv, TypeOK, State
  <1>2. ASSUME NEW s \in Slice
        PROVE  LET r == Settled(slice[s], "cancelled")
               IN  /\ r \in SliceRecord /\ r.state = "cancelled" /\ r.worker = None
                   /\ r.attempt = slice[s].attempt /\ slice[s].attempt \in Nat
    BY <1>1, SettledType DEF SliceRecord
  <1> QED
    BY <1>2, CalmSame DEF CancelledSlices, Calm

\* Reopening what was cancelled takes the attempt of one more resumption.
LEMMA CalmReopened == IInv => Calm(ReopenedSlices, Allowance + 1)
  <1> SUFFICES ASSUME IInv PROVE Calm(ReopenedSlices, Allowance + 1)
    OBVIOUS
  <1>1. slice \in [Slice -> SliceRecord] /\ "ready" \in State
    BY DEF IInv, TypeOK, State
  <1>2. ASSUME NEW s \in Slice
        PROVE  LET r == Settled(slice[s], "ready")
               IN  /\ r \in SliceRecord /\ r.state = "ready" /\ r.worker = None
                   /\ r.attempt = slice[s].attempt /\ slice[s].attempt \in Nat
    BY <1>1, SettledType DEF SliceRecord
  <1>3. Allowance \in Nat /\ \A s \in Slice : slice[s].attempt <= Allowance
    BY AllowanceNat DEF IInv, AttemptsBounded, Allowance
  <1> QED
    BY <1>2, <1>3, CalmSame DEF ReopenedSlices, Calm

\* Time passing.
LEMMA CalmAged == IInv => Calm([s \in Slice |-> Aged(slice[s])], Allowance)
  <1> SUFFICES ASSUME IInv PROVE Calm([s \in Slice |-> Aged(slice[s])], Allowance)
    OBVIOUS
  <1>1. slice \in [Slice -> SliceRecord]
    BY DEF IInv, TypeOK
  <1>2. ASSUME NEW s \in Slice
        PROVE  /\ Aged(slice[s]) \in SliceRecord /\ slice[s].attempt \in Nat
               /\ Aged(slice[s]).state = slice[s].state
               /\ Aged(slice[s]).worker = slice[s].worker
               /\ Aged(slice[s]).attempt = slice[s].attempt
    BY <1>1, AgedType DEF SliceRecord
  <1>3. ASSUME NEW s \in Slice, slice[s].state = "completed"
        PROVE  Aged(slice[s]) = slice[s]
    <2>1. Older(slice[s].left) = slice[s].left /\ Older(slice[s].wait) = slice[s].wait
      BY <1>3, OffInt DEF IInv, CompletedTimersOff, Older
    <2> QED
      BY <1>1, <2>1 DEF Aged, SliceRecord
  <1> QED
    BY <1>2, <1>3, CalmSame DEF Calm
----------------------------------------------------------------------------
(* What every step preserves.                                               *)

\* What a step leaves of the other variables.
Bookkeeping ==
  /\ batch' \in BatchRecord
  /\ skipped' \in SUBSET Task
  /\ claim' \in [Worker -> [slice : Slice \cup {0}, attempt : Nat]]
  /\ resumes' \in Nat /\ crashes' \in Nat

LEMMA LeasedFinite ==
  ASSUME NEW f
  PROVE  IsFiniteSet(Leased(f)) /\ Cardinality(Leased(f)) \in Nat
  BY FS_Subset, FS_CardinalityType, SliceAssumption DEF Leased

\* A calm step keeps the invariant unless it stops a batch at work.
LEMMA CalmStep ==
  ASSUME IInv, Bookkeeping, resumes' >= resumes,
         Calm(slice', MaxAttempts + resumes'),
         batch'.capacity = batch.capacity,
         batch'.cancelled => batch.cancelled \/ Leased(slice') = {}
  PROVE  IInv'
  <1>1. slice' \in [Slice -> SliceRecord] /\ slice \in [Slice -> SliceRecord]
    BY DEF Calm, IInv, TypeOK
  <1>2. \A s \in Slice : slice'[s].attempt \in Nat /\ slice[s].attempt \in Nat
    BY <1>1 DEF SliceRecord
  <1>3. resumes \in Nat /\ resumes' \in Nat /\ MaxAttempts \in Nat
    BY NumberAssumption DEF IInv, TypeOK, Bookkeeping
  <1>4. TypeOK'
    BY <1>1 DEF Bookkeeping, TypeOK
  <1>5. WorkerExactlyWhileLeased'
    BY DEF Calm, WorkerExactlyWhileLeased
  <1>6. Leased(slice') \subseteq Leased(slice)
    BY DEF Calm, Leased
  <1>7. StoppedBatchHoldsNoLease'
    BY <1>6 DEF StoppedBatchHoldsNoLease, IInv
  <1>8. LeasesWithinCapacity'
    <2>1. Cardinality(Leased(slice')) <= Cardinality(Leased(slice))
      BY <1>6, LeasedFinite, FS_Subset
    <2>2. batch.capacity \in Nat
      BY DEF IInv, TypeOK, BatchRecord
    <2> QED
      BY <2>1, <2>2, LeasedFinite DEF LeasesWithinCapacity, IInv
  <1>9. CompletedTimersOff'
    BY DEF CompletedTimersOff, Calm, IInv
  <1>10. ResultOfLastAttempt'
    BY DEF ResultOfLastAttempt, Calm, IInv
  <1>11. AttemptsLeft'
    BY DEF AttemptsLeft, Calm
  <1>12. AttemptsBounded'
    BY <1>2, <1>3 DEF AttemptsBounded, Calm, IInv
  <1> QED
    BY <1>4, <1>5, <1>7, <1>8, <1>9, <1>10, <1>11, <1>12 DEF IInv

\* So does saving a calm rewrite, whether or not the process survives it.
LEMMA SaveStep ==
  ASSUME IInv, NEW f, NEW b \in BatchRecord, Save(f, b),
         Calm(f, MaxAttempts + resumes'), resumes' \in {resumes, resumes + 1},
         b.capacity = batch.capacity,
         b.cancelled => batch.cancelled \/ Leased(f) = {},
         UNCHANGED <<skipped, claim>>
  PROVE  IInv' /\ Calm(slice', MaxAttempts + resumes')
  <1>1. resumes \in Nat /\ crashes \in Nat /\ resumes' \in Nat /\ resumes' >= resumes
    BY DEF IInv, TypeOK
  <1>2. crashes' \in Nat
    BY <1>1 DEF Save
  <1>3. Bookkeeping
    BY <1>1, <1>2 DEF Save, IInv, TypeOK, Bookkeeping
  <1>4. Calm(slice', MaxAttempts + resumes')
    <2>1. CASE slice' = f
      BY <2>1
    <2>2. CASE \E last \in Slice : slice' = UpTo(last, f, slice)
      <3>1. PICK last \in Slice : slice' = UpTo(last, f, slice)
        BY <2>2
      <3>2. \A s \in Slice : slice[s].attempt \in Nat
        BY DEF IInv, TypeOK, SliceRecord
      <3>3. Calm(slice, MaxAttempts + resumes')
        BY <1>1, <3>2, CalmSame, NumberAssumption DEF Calm, Allowance
      <3> QED
        BY <3>1, <3>3 DEF UpTo, Calm
    <2> QED
      BY <2>1, <2>2 DEF Save
  <1>5. batch'.capacity = batch.capacity
        /\ (batch'.cancelled => batch.cancelled \/ Leased(slice') = {})
    BY DEF Save
  <1> QED
    BY <1>1, <1>3, <1>4, <1>5, CalmStep
----------------------------------------------------------------------------
(* Every step preserves the invariant, keeps completed slices, and is a     *)
(* step of the contract.                                                    *)

\* Completed slices stay as they are.
Final == \A s \in Slice : slice[s].state = "completed" => slice'[s] = slice[s]

\* What is shown of each action.
Good == IInv' /\ Final /\ Contract!Next

\* A calm step withdraws some leases, to the contract.
LEMMA CalmKept ==
  ASSUME IInv, NEW n, Calm(slice', n), batch'.capacity = batch.capacity
  PROVE  Final /\ Contract!Next
  <1>1. Final
    BY DEF Final, Calm
  <1> DEFINE S == {s \in Slice : slice[s].worker # None /\ slice'[s].worker = None}
             old == [s \in Slice |-> slice[s].worker]
             new == [s \in Slice |-> slice'[s].worker]
  <1>2. S \in SUBSET {s \in Slice : old[s] # None}
    OBVIOUS
  <1>3. new = [s \in Slice |-> IF s \in S THEN None ELSE old[s]]
    <2>1. \A s \in Slice : slice[s].worker = None => slice'[s].worker = None
      BY DEF Calm, IInv, WorkerExactlyWhileLeased
    <2>2. \A s \in Slice : slice'[s].worker # None => slice'[s].worker = slice[s].worker
      BY DEF Calm
    <2> QED
      BY <2>1, <2>2
  <1>4. {s \in Slice : slice'[s].state = "completed"}
          = {s \in Slice : slice[s].state = "completed"}
    BY DEF Calm
  <1>5. Contract!Withdraw
    <2> HIDE DEF S
    <2> QED
      BY <1>2, <1>3, <1>4 DEF Contract!Withdraw, Contract!Owned
  <1> QED
    BY <1>1, <1>5 DEF Contract!Next

\* Saving a calm rewrite.
LEMMA SaveGood ==
  ASSUME IInv, NEW f, NEW b \in BatchRecord, Save(f, b),
         Calm(f, MaxAttempts + resumes'), resumes' \in {resumes, resumes + 1},
         b.capacity = batch.capacity,
         b.cancelled => batch.cancelled \/ Leased(f) = {},
         UNCHANGED <<skipped, claim>>
  PROVE  Good
  <1>1. IInv' /\ Calm(slice', MaxAttempts + resumes')
    BY SaveStep
  <1>2. batch'.capacity = batch.capacity
    BY DEF Save
  <1> QED
    BY <1>1, <1>2, CalmKept DEF Good

\* The contract counts as the ledger does.
LEMMA SameCardinality == \A S : Contract!Cardinality(S) = Cardinality(S)
  BY Zenon DEF Contract!Cardinality, Cardinality

LEMMA InitGood == Init => IInv /\ Contract!Init
  <1> SUFFICES ASSUME Init PROVE IInv /\ Contract!Init
    OBVIOUS
  <1>1. slice = [s \in Slice |-> Absent] /\ resumes = 0 /\ batch.capacity = Concurrency
    BY DEF Init
  <1>2. Absent \in SliceRecord /\ Absent.worker = None /\ Absent.state = "absent"
        /\ Absent.attempt = 0
    <2>1. CASE Slice # {}
      BY <2>1, FreshType
    <2>2. CASE Slice = {}
      BY OffInt DEF Absent, SliceRecord, State
    <2> QED
      BY <2>1, <2>2
  <1>3. TypeOK
    <2>1. slice \in [Slice -> SliceRecord]
      BY <1>1, <1>2
    <2>2. batch \in BatchRecord
      BY OffInt, NumberAssumption DEF Init, BatchRecord
    <2>3. claim \in [Worker -> [slice : Slice \cup {0}, attempt : Nat]]
      BY DEF Init, NoClaim
    <2> QED
      BY <2>1, <2>2, <2>3 DEF Init, TypeOK
  <1>4. Leased(slice) = {}
    BY <1>1, <1>2 DEF Leased
  <1>5. LeasesWithinCapacity
    BY <1>1, <1>4, FS_EmptySet, NumberAssumption DEF LeasesWithinCapacity
  <1>6. WorkerExactlyWhileLeased /\ StoppedBatchHoldsNoLease
    BY <1>1, <1>2, <1>4 DEF WorkerExactlyWhileLeased, StoppedBatchHoldsNoLease
  <1>7. CompletedTimersOff /\ ResultOfLastAttempt /\ AttemptsLeft
    BY <1>1, <1>2 DEF CompletedTimersOff, ResultOfLastAttempt, AttemptsLeft
  <1>8. AttemptsBounded
    BY <1>1, <1>2, NumberAssumption DEF AttemptsBounded
  <1>9. Contract!Init
    BY <1>1, <1>2, NumberAssumption DEF Contract!Init
  <1> QED
    BY <1>3, <1>5, <1>6, <1>7, <1>8, <1>9 DEF IInv

\* The batch records the actions write.
LEMMA BatchType ==
  IInv => /\ EnsuredBatch \in BatchRecord /\ WarmBatch \in BatchRecord
          /\ EnsuredBatch.capacity = batch.capacity /\ WarmBatch.capacity = batch.capacity
          /\ EnsuredBatch.cancelled = batch.cancelled
          /\ WarmBatch.cancelled = batch.cancelled
  <1> SUFFICES ASSUME IInv
      PROVE  /\ EnsuredBatch \in BatchRecord /\ WarmBatch \in BatchRecord
             /\ EnsuredBatch.capacity = batch.capacity
             /\ WarmBatch.capacity = batch.capacity
             /\ EnsuredBatch.cancelled = batch.cancelled
             /\ WarmBatch.cancelled = batch.cancelled
    OBVIOUS
  <1>1. batch \in BatchRecord /\ Original \in SUBSET Slice
    BY SliceAssumption DEF IInv, TypeOK
  <1>2. EnsuredBatch \in BatchRecord /\ EnsuredBatch.capacity = batch.capacity
        /\ EnsuredBatch.cancelled = batch.cancelled
    BY <1>1 DEF EnsuredBatch, BatchRecord
  <1> DEFINE b == EnsuredBatch
  <1> HIDE DEF b
  <1>3. LET c == [b EXCEPT !.cooldown = Off]
        IN  c \in BatchRecord /\ c.capacity = batch.capacity
            /\ c.cancelled = batch.cancelled
    BY <1>2, OffInt DEF BatchRecord, b
  <1> QED
    BY <1>2, <1>3 DEF WarmBatch, b

LEMMA InitializeGood == IInv /\ InitializeSlices => Good
  <1> SUFFICES ASSUME IInv, InitializeSlices PROVE Good
    OBVIOUS
  <1>1. Calm(EnsuredSlices, MaxAttempts + resumes')
    BY CalmEnsured DEF InitializeSlices, Allowance
  <1> QED
    BY <1>1, BatchType, SaveGood DEF InitializeSlices

\* The slices a lease is chosen from: no lease of theirs has ended.
LEMMA Candidates ==
  ASSUME IInv, NEW d, Admitted(d)
  PROVE  /\ Calm(Promoted(EnsuredSlices, d), Allowance)
         /\ \A s \in Slice : Promoted(EnsuredSlices, d)[s].worker = slice[s].worker
  <1> DEFINE f == EnsuredSlices
             g == Promoted(f, d)
  <1>1. Calm(f, Allowance)
    BY CalmEnsured DEF Admitted
  <1>2. Calm(g, Allowance)
    BY <1>1, CalmPromoted
  <1>3. \A s \in Slice : f[s].worker = slice[s].worker
    <2>1. \A s \in Slice : Fresh(s).worker = None /\ Absent.worker = None
      BY FreshType
    <2> QED
      BY <2>1, SliceAssumption DEF EnsuredSlices, Ensurable, Admitted
  <1>4. \A s \in Slice : g[s].worker = f[s].worker
    <2>1. f \in [Slice -> SliceRecord] /\ "ready" \in State
      BY <1>1 DEF Calm, State
    <2>2. \A s \in Slice : f[s].state = "retry_wait" => f[s].worker = None
      BY <1>1 DEF Calm
    <2>3. \A s \in Slice : Settled(f[s], "ready").worker = None
      BY <2>1, SettledType
    <2> HIDE DEF f
    <2> QED
      BY <2>2, <2>3 DEF Promoted
  <1> QED
    BY <1>2, <1>3, <1>4

\* Handing out a lease: the slice was free, had an attempt left, and one more
\* lease fits the capacity.
LEMMA GrantGood ==
  ASSUME IInv, NEW w \in Worker, NEW s \in Slice, NEW d \in 0..LockWait, Grant(w, s, d)
  PROVE  Good
  <1> DEFINE f == Promoted(EnsuredSlices, d)
             r == LeasedTo(f[s], w, LeaseTicks - d)
  <1>1. Calm(f, Allowance) /\ \A q \in Slice : f[q].worker = slice[q].worker
    BY Candidates DEF Grant
  <1>2. f[s].state = "ready" /\ Occupied(f) < batch.capacity /\ ~batch.cancelled
    BY DEF Grant, Admitted
  <1>3. slice' = [f EXCEPT ![s] = r] /\ batch' = WarmBatch
    BY DEF Grant
  <1>4. Handed(w, s, f[s].attempt + 1) /\ UNCHANGED <<skipped, resumes, crashes>>
    BY DEF Grant
  <1> HIDE DEF f
  <1>5. f \in [Slice -> SliceRecord] /\ f[s].attempt \in Nat /\ f[s].attempt + 1 \in Nat
    BY <1>1 DEF Calm, SliceRecord
  <1>6. LeaseTicks - d \in Int
    BY NumberAssumption
  <1>7. /\ r \in SliceRecord /\ r.state = "leased" /\ r.worker = w
        /\ r.attempt = f[s].attempt + 1
    BY <1>5, <1>6, LeasedToType
  <1> HIDE DEF r
  <1>8. w # None
    BY WorkerAssumption
  <1>9. /\ slice' \in [Slice -> SliceRecord] /\ slice'[s] = r
        /\ \A q \in Slice \ {s} : slice'[q] = f[q]
    BY <1>3, <1>5, <1>7
  <1>10. Leased(slice') = Leased(f) \cup {s} /\ s \notin Leased(f)
    BY <1>2, <1>7, <1>9 DEF Leased
  <1>11. Leased(f) = Leased(slice)
    BY <1>1 DEF Leased, Calm, IInv, WorkerExactlyWhileLeased
  <1>12. Cardinality(Leased(slice')) <= batch'.capacity
    <2>1. Cardinality(Leased(slice')) = Cardinality(Leased(f)) + 1
      BY <1>10, LeasedFinite, FS_AddElement
    <2>2. batch.capacity \in Nat /\ batch'.capacity = batch.capacity
      BY <1>3, BatchType DEF IInv, TypeOK, BatchRecord
    <2> QED
      BY <1>2, <2>1, <2>2, LeasedFinite DEF Occupied
  <1>13. f[s].attempt < MaxAttempts + resumes
    BY <1>1, <1>2 DEF Calm, Allowance
  <1>14. MaxAttempts \in Nat /\ resumes \in Nat
    BY NumberAssumption DEF IInv, TypeOK
  <1>15. \A q \in Slice : f[q].attempt <= slice[q].attempt
                         /\ f[q].attempt \in Nat /\ slice[q].attempt \in Nat
    BY <1>1 DEF Calm, IInv, TypeOK, SliceRecord
  <1>16. TypeOK'
    <2>1. claim' \in [Worker -> [slice : Slice \cup {0}, attempt : Nat]]
      <3> DEFINE c == [slice |-> s, attempt |-> f[s].attempt + 1]
      <3>1. c \in [slice : Slice \cup {0}, attempt : Nat]
        BY <1>5
      <3>2. claim' = [claim EXCEPT ![w] = c] \/ UNCHANGED claim
        BY <1>4 DEF Handed
      <3> HIDE DEF c
      <3> QED
        BY <3>1, <3>2 DEF IInv, TypeOK
    <2>2. batch' \in BatchRecord
      BY <1>3, BatchType
    <2> QED
      BY <1>4, <1>9, <2>1, <2>2 DEF TypeOK, IInv
  <1>17. IInv'
    <2>1. WorkerExactlyWhileLeased'
      BY <1>1, <1>7, <1>8, <1>9 DEF WorkerExactlyWhileLeased, Calm
    <2>2. StoppedBatchHoldsNoLease'
      BY <1>2, <1>3, BatchType DEF StoppedBatchHoldsNoLease
    <2>3. LeasesWithinCapacity'
      BY <1>12 DEF LeasesWithinCapacity
    <2>4. CompletedTimersOff' /\ ResultOfLastAttempt'
      BY <1>1, <1>7, <1>9 DEF CompletedTimersOff, ResultOfLastAttempt, Calm, IInv
    <2>5. AttemptsLeft'
      BY <1>1, <1>4, <1>7, <1>9 DEF AttemptsLeft, Calm, Allowance
    <2>6. AttemptsBounded'
      <3>1. \A q \in Slice : slice[q].attempt <= MaxAttempts + resumes
        BY DEF IInv, AttemptsBounded
      <3>2. r.attempt <= MaxAttempts + resumes
        BY <1>5, <1>7, <1>13, <1>14
      <3>3. \A q \in Slice \ {s} : slice'[q].attempt <= MaxAttempts + resumes
        BY <1>9, <1>14, <1>15, <3>1
      <3> QED
        BY <1>4, <1>9, <3>2, <3>3 DEF AttemptsBounded
    <2> QED
      BY <1>16, <2>1, <2>2, <2>3, <2>4, <2>5, <2>6 DEF IInv
  <1>18. Final
    BY <1>1, <1>2, <1>9 DEF Final, Calm
  <1>19. Contract!HandOut(w, s)
    <2> DEFINE old == [q \in Slice |-> slice[q].worker]
               new == [q \in Slice |-> slice'[q].worker]
    <2>1. slice[s].state # "completed" /\ slice[s].worker = None
      BY <1>1, <1>2, <1>10, <1>11 DEF Calm, Leased, IInv, WorkerExactlyWhileLeased
    <2>2. {q \in Slice : old[q] # None} = Leased(slice)
      BY DEF Leased, IInv, WorkerExactlyWhileLeased
    <2>3. Cardinality(Leased(slice)) < batch.capacity
      BY <1>2, <1>11 DEF Occupied
    <2>4. new = [old EXCEPT ![s] = w]
      BY <1>1, <1>7, <1>9
    <2>5. {q \in Slice : slice'[q].state = "completed"}
            = {q \in Slice : slice[q].state = "completed"}
      BY <1>1, <1>2, <1>7, <1>9 DEF Calm
    <2>6. batch'.capacity = batch.capacity
      BY <1>3, BatchType
    <2> QED
      BY <2>1, <2>2, <2>3, <2>4, <2>5, <2>6, SameCardinality
      DEF Contract!HandOut, Contract!Owned
  <1> QED
    BY <1>17, <1>18, <1>19 DEF Good, Contract!Next

LEMMA ExistingLeaseGood ==
  ASSUME IInv, NEW w \in Worker, NEW s \in Slice, NEW d \in 0..LockWait,
         ExistingLease(w, s, d)
  PROVE  Good
  <1> DEFINE f == Promoted(EnsuredSlices, d)
  <1>1. Calm(f, Allowance)
    BY Candidates DEF ExistingLease
  <1>2. slice' = f /\ batch' = WarmBatch /\ Handed(w, s, f[s].attempt)
        /\ UNCHANGED <<skipped, resumes, crashes>>
    BY DEF ExistingLease
  <1> HIDE DEF f
  <1>3. f[s].attempt \in Nat
    BY <1>1 DEF Calm, SliceRecord
  <1>4. claim' \in [Worker -> [slice : Slice \cup {0}, attempt : Nat]]
    <2> DEFINE c == [slice |-> s, attempt |-> f[s].attempt]
    <2>1. c \in [slice : Slice \cup {0}, attempt : Nat]
      BY <1>3
    <2>2. claim' = [claim EXCEPT ![w] = c] \/ UNCHANGED claim
      BY <1>2 DEF Handed
    <2> HIDE DEF c
    <2> QED
      BY <2>1, <2>2 DEF IInv, TypeOK
  <1>5. Bookkeeping /\ resumes' >= resumes
    BY <1>2, <1>4, BatchType DEF Bookkeeping, IInv, TypeOK
  <1>6. Calm(slice', MaxAttempts + resumes')
    BY <1>1, <1>2 DEF Allowance
  <1>7. batch'.capacity = batch.capacity /\ (batch'.cancelled => batch.cancelled)
    BY <1>2, BatchType
  <1> QED
    BY <1>5, <1>6, <1>7, CalmStep, CalmKept DEF Good

\* A calm step that writes the batch but keeps its limit and its state.
LEMMA QuietGood ==
  ASSUME IInv, Calm(slice', Allowance), batch' \in BatchRecord,
         batch'.capacity = batch.capacity, batch'.cancelled = batch.cancelled,
         UNCHANGED <<skipped, claim, resumes>>, crashes' \in {crashes, crashes + 1}
  PROVE  Good
  <1>1. Bookkeeping /\ resumes' >= resumes
    BY DEF Bookkeeping, IInv, TypeOK
  <1>2. Calm(slice', MaxAttempts + resumes')
    BY DEF Allowance
  <1> QED
    BY <1>1, <1>2, CalmStep, CalmKept DEF Good

LEMMA NoLeaseGood ==
  ASSUME IInv, NEW d \in 0..LockWait, NoLease(d)
  PROVE  Good
  BY Candidates, BatchType, QuietGood DEF NoLease

\* The cooldown of a batch can be cleared.
LEMMA WarmType ==
  IInv => LET b == [batch EXCEPT !.cooldown = Off]
          IN  b \in BatchRecord /\ b.capacity = batch.capacity
              /\ b.cancelled = batch.cancelled
  BY OffInt DEF IInv, TypeOK, BatchRecord

LEMMA RefusedGood ==
  ASSUME IInv, NEW d \in 0..LockWait, Refused(d)
  PROVE  Good
  BY CalmSame, WarmType, QuietGood DEF Refused

LEMMA NextSliceDiesGood ==
  ASSUME IInv, NEW d \in 0..LockWait, NextSliceDies(d)
  PROVE  Good
  <1> DEFINE e == EnsuredSlices
             f == Promoted(EnsuredSlices, d)
  <1>1. Calm(e, Allowance) /\ Calm(f, Allowance) /\ Calm(slice, Allowance)
    BY Candidates, CalmEnsured, CalmSame DEF NextSliceDies, Admitted
  <1>2. UNCHANGED <<skipped, claim, resumes>> /\ crashes' = crashes + 1
    BY DEF NextSliceDies
  <1>3. PICK last \in Slice \cup {0} :
          \/ slice' = UpTo(last, e, slice) /\ batch' = [batch EXCEPT !.cooldown = Off]
          \/ slice' = UpTo(last, f, e) /\ batch' = WarmBatch
    BY DEF NextSliceDies
  <1> HIDE DEF e, f
  <1>4. Calm(slice', Allowance)
    BY <1>1, <1>3 DEF UpTo, Calm
  <1>5. /\ batch' \in BatchRecord /\ batch'.capacity = batch.capacity
        /\ batch'.cancelled = batch.cancelled
    BY <1>3, WarmType, BatchType
  <1> QED
    BY <1>2, <1>4, <1>5, QuietGood

LEMMA HeartbeatGood ==
  ASSUME IInv, NEW w \in Worker, NEW s \in Slice, NEW d \in 0..LockWait,
         Heartbeat(w, s, d)
  PROVE  Good
  <1> DEFINE r == Renewed(slice[s], LeaseTicks - d)
  <1>1. slice \in [Slice -> SliceRecord] /\ LeaseTicks - d \in Int
    BY NumberAssumption DEF IInv, TypeOK
  <1>2. /\ r \in SliceRecord /\ r.state = slice[s].state
        /\ r.worker = slice[s].worker /\ r.attempt = slice[s].attempt
    BY <1>1, RenewedType
  <1>3. slice' = [slice EXCEPT ![s] = r] /\ slice[s].state = "leased"
        /\ UNCHANGED <<batch, skipped, claim, resumes, crashes>>
    BY DEF Heartbeat, HoldsLease
  <1> HIDE DEF r
  <1>4. \A q \in Slice : slice[q].attempt \in Nat
    BY <1>1 DEF SliceRecord
  <1>5. Calm(slice', Allowance)
    BY <1>1, <1>2, <1>3, <1>4, CalmSame DEF Calm
  <1>6. Calm(slice', MaxAttempts + resumes') /\ resumes' >= resumes
    BY <1>3, <1>5 DEF Allowance, IInv, TypeOK
  <1>7. Bookkeeping
    BY <1>3 DEF Bookkeeping, IInv, TypeOK
  <1> QED
    BY <1>3, <1>6, <1>7, CalmStep, CalmKept DEF Good

\* Completing a slice: the claim that is accepted is the last attempt's.
LEMMA CompleteGood ==
  ASSUME IInv, NEW w \in Worker, NEW s \in Slice, NEW d \in 0..LockWait,
         Complete(w, s, d)
  PROVE  Good
  <1> DEFINE r == Finished(slice[s], claim[w].attempt)
  <1>1. slice \in [Slice -> SliceRecord] /\ claim[w].attempt \in Nat
    BY DEF IInv, TypeOK
  <1>2. /\ r \in SliceRecord /\ r.state = "completed" /\ r.worker = None
        /\ r.attempt = slice[s].attempt /\ r.result = claim[w].attempt
    BY <1>1, FinishedType
  <1>3. r.left = Off /\ r.wait = Off
    <2> DEFINE q == Settled(slice[s], "completed")
    <2>1. q \in SliceRecord
      BY <1>1, SettledType DEF State
    <2>2. q.left = Off /\ q.wait = Off
      BY <1>1 DEF Settled, SliceRecord
    <2>3. r = [q EXCEPT !.budget = FALSE, !.result = claim[w].attempt]
      BY DEF Finished
    <2> HIDE DEF q, r
    <2> QED
      BY <2>1, <2>2, <2>3 DEF SliceRecord
  <1>4. /\ slice' = [slice EXCEPT ![s] = r] /\ slice[s].state = "leased"
        /\ slice[s].attempt = claim[w].attempt /\ ~batch.cancelled
        /\ UNCHANGED <<batch, skipped, claim, resumes, crashes>>
    BY DEF Complete, HoldsLease
  <1> HIDE DEF r
  <1>5. /\ slice' \in [Slice -> SliceRecord] /\ slice'[s] = r
        /\ \A q \in Slice \ {s} : slice'[q] = slice[q]
    BY <1>1, <1>2, <1>4
  <1>6. IInv'
    <2>1. TypeOK'
      BY <1>4, <1>5 DEF IInv, TypeOK
    <2>2. WorkerExactlyWhileLeased'
      BY <1>2, <1>5 DEF WorkerExactlyWhileLeased, IInv
    <2>3. StoppedBatchHoldsNoLease'
      BY <1>4 DEF StoppedBatchHoldsNoLease
    <2>4. LeasesWithinCapacity'
      <3>1. Leased(slice') \subseteq Leased(slice)
        BY <1>2, <1>5 DEF Leased
      <3>2. Cardinality(Leased(slice')) <= Cardinality(Leased(slice))
        BY <3>1, LeasedFinite, FS_Subset
      <3>3. batch.capacity \in Nat /\ batch'.capacity = batch.capacity
        BY <1>4 DEF IInv, TypeOK, BatchRecord
      <3> QED
        BY <3>2, <3>3, LeasedFinite DEF LeasesWithinCapacity, IInv
    <2>5. CompletedTimersOff' /\ ResultOfLastAttempt'
      BY <1>2, <1>3, <1>4, <1>5 DEF CompletedTimersOff, ResultOfLastAttempt, IInv
    <2>6. AttemptsLeft' /\ AttemptsBounded'
      BY <1>2, <1>4, <1>5 DEF AttemptsLeft, AttemptsBounded, IInv
    <2> QED
      BY <2>1, <2>2, <2>3, <2>4, <2>5, <2>6 DEF IInv
  <1>7. Final
    BY <1>4, <1>5 DEF Final
  <1>8. Contract!Finish(s)
    <2>1. slice[s].worker # None
      BY <1>4 DEF IInv, WorkerExactlyWhileLeased
    <2>2. [q \in Slice |-> slice'[q].worker]
            = [[q \in Slice |-> slice[q].worker] EXCEPT ![s] = None]
      BY <1>2, <1>5
    <2>3. {q \in Slice : slice'[q].state = "completed"}
            = {q \in Slice : slice[q].state = "completed"} \cup {s}
      BY <1>2, <1>5
    <2> QED
      BY <1>4, <2>1, <2>2, <2>3 DEF Contract!Finish
  <1> QED
    BY <1>6, <1>7, <1>8 DEF Good, Contract!Next

LEMMA FailGood ==
  ASSUME IInv, NEW w \in Worker, NEW s \in Slice, NEW class \in FailureClass,
         Fail(w, s, class)
  PROVE  Good
  <1> DEFINE f == [slice EXCEPT ![s] = FailedSlice(class, @)]
             b == IF class = "rate_limited"
                    THEN [batch EXCEPT !.cooldown = RetryAfter(slice[s].attempt)]
                    ELSE batch
  <1>1. Save(f, b) /\ UNCHANGED <<skipped, claim, resumes>>
    BY DEF Fail
  <1>2. Calm(f, MaxAttempts + resumes')
    BY <1>1, CalmFailed DEF Fail, Allowance
  <1>3. slice[s].attempt \in Nat
    BY DEF IInv, TypeOK, SliceRecord
  <1>4. b \in BatchRecord /\ b.capacity = batch.capacity /\ b.cancelled = batch.cancelled
    BY <1>3, RetryAfterInt DEF IInv, TypeOK, BatchRecord
  <1> HIDE DEF f, b
  <1> QED
    BY <1>1, <1>2, <1>4, SaveGood

LEMMA RefreshGood == IInv /\ Refresh => Good
  <1> SUFFICES ASSUME IInv, Refresh PROVE Good
    OBVIOUS
  <1> DEFINE f == Promoted(slice, 0)
             b == [batch EXCEPT !.cooldown = Off]
  <1>1. Save(f, b) /\ UNCHANGED <<skipped, claim, resumes>>
    BY DEF Refresh
  <1>2. Calm(f, MaxAttempts + resumes')
    BY <1>1, CalmSame, CalmPromoted DEF Allowance
  <1>3. b \in BatchRecord /\ b.capacity = batch.capacity /\ b.cancelled = batch.cancelled
    BY OffInt DEF IInv, TypeOK, BatchRecord
  <1> HIDE DEF f, b
  <1> QED
    BY <1>1, <1>2, <1>3, SaveGood

LEMMA ReclaimGood == IInv /\ ReclaimExpired => Good
  <1> SUFFICES ASSUME IInv, ReclaimExpired PROVE Good
    OBVIOUS
  <1> DEFINE f == [s \in Slice |-> IF s \in Expired THEN Reclaimed(slice[s]) ELSE slice[s]]
  <1>1. Save(f, batch) /\ UNCHANGED <<skipped, claim, resumes>>
    BY DEF ReclaimExpired
  <1>2. Calm(f, MaxAttempts + resumes')
    BY <1>1, CalmReclaimed DEF Allowance
  <1>3. batch \in BatchRecord
    BY DEF IInv, TypeOK
  <1> HIDE DEF f
  <1> QED
    BY <1>1, <1>2, <1>3, SaveGood

LEMMA ReconcileGood ==
  ASSUME IInv, NEW s \in Slice, Reconcile(s)
  PROVE  Good
  <1> DEFINE f == Superseding(s)
  <1>1. Calm(f, Allowance)
    BY CalmSuperseding DEF Reconcile
  <1>2. Calm(slice', Allowance)
    <2>1. CASE slice' = f
      BY <1>1, <2>1
    <2>2. CASE \E last \in Replacement[s] :
                 slice' = [r \in Slice |-> IF r \in Replacement[s] /\ r <= last
                                             THEN Fresh(r) ELSE slice[r]]
      <3>1. PICK last \in Replacement[s] :
                 slice' = [r \in Slice |-> IF r \in Replacement[s] /\ r <= last
                                             THEN Fresh(r) ELSE slice[r]]
        BY <2>2
      <3> DEFINE W == {r \in Replacement[s] : r <= last}
      <3>2. slice' = [r \in Slice |-> IF r \in W THEN f[r] ELSE slice[r]]
        BY <3>1 DEF Superseding
      <3> HIDE DEF W, f
      <3> QED
        BY <1>1, <3>2, CalmPart
    <2> QED
      BY <2>1, <2>2 DEF Reconcile
  <1>3. /\ batch' \in BatchRecord /\ batch'.capacity = batch.capacity
        /\ batch'.cancelled = batch.cancelled
    <2>1. batch \in BatchRecord
      BY DEF IInv, TypeOK
    <2>2. Replacement[s] \in SUBSET Slice
      BY SliceAssumption DEF Reconcile, Reconcilable
    <2> DEFINE ids == batch.ids \cup Replacement[s]
    <2>3. ids \in SUBSET Slice
      BY <2>1, <2>2 DEF BatchRecord
    <2>4. batch' = [batch EXCEPT !.ids = ids] \/ batch' = batch
      BY DEF Reconcile
    <2> HIDE DEF ids
    <2> QED
      BY <2>1, <2>3, <2>4 DEF BatchRecord
  <1>4. UNCHANGED <<skipped, claim, resumes>> /\ crashes' \in {crashes, crashes + 1}
    BY DEF Reconcile
  <1>5. Bookkeeping /\ resumes' >= resumes
    BY <1>3, <1>4 DEF Bookkeeping, IInv, TypeOK
  <1>6. Calm(slice', MaxAttempts + resumes')
    BY <1>2, <1>4 DEF Allowance
  <1> QED
    BY <1>3, <1>5, <1>6, CalmStep, CalmKept DEF Good

LEMMA CancelGood == IInv /\ Cancel => Good
  <1> SUFFICES ASSUME IInv, Cancel PROVE Good
    OBVIOUS
  <1> DEFINE b == [batch EXCEPT !.cancelled = TRUE]
  <1>1. Save(CancelledSlices, b) /\ UNCHANGED <<skipped, claim, resumes>>
    BY DEF Cancel
  <1>2. Calm(CancelledSlices, MaxAttempts + resumes')
    BY <1>1, CalmCancelled DEF Allowance
  <1>3. Leased(CancelledSlices) = {}
    <2>1. slice \in [Slice -> SliceRecord] /\ "cancelled" \in State
      BY DEF IInv, TypeOK, State
    <2>2. \A s \in Slice : Settled(slice[s], "cancelled").state = "cancelled"
      BY <2>1, SettledType
    <2> QED
      BY <2>2 DEF Leased, CancelledSlices
  <1>4. b \in BatchRecord /\ b.capacity = batch.capacity
    BY DEF IInv, TypeOK, BatchRecord
  <1> HIDE DEF b
  <1> QED
    BY <1>1, <1>2, <1>3, <1>4, SaveGood

LEMMA ResumeGood == IInv /\ Resume => Good
  <1> SUFFICES ASSUME IInv, Resume PROVE Good
    OBVIOUS
  <1> DEFINE b == [batch EXCEPT !.cancelled = FALSE]
  <1>1. /\ Save(ReopenedSlices, b) /\ UNCHANGED <<skipped, claim>>
        /\ resumes' = resumes + 1 /\ resumes \in Nat /\ MaxAttempts \in Nat
    BY NumberAssumption DEF Resume, IInv, TypeOK
  <1>2. Allowance + 1 = MaxAttempts + resumes'
    BY <1>1 DEF Allowance
  <1>3. Calm(ReopenedSlices, MaxAttempts + resumes')
    BY <1>2, CalmReopened
  <1>4. b \in BatchRecord /\ b.capacity = batch.capacity /\ ~b.cancelled
    BY DEF IInv, TypeOK, BatchRecord
  <1> HIDE DEF b
  <1> QED
    BY <1>1, <1>3, <1>4, SaveGood

\* The capacity changes only while no slice names a worker, so none is leased.
LEMMA SetCapacityGood == IInv /\ SetCapacity => Good
  <1> SUFFICES ASSUME IInv, SetCapacity PROVE Good
    OBVIOUS
  <1>1. PICK n \in 1..MaxCapacity : batch' = [batch EXCEPT !.capacity = n]
    BY DEF SetCapacity
  <1>2. UNCHANGED <<slice, skipped, claim, resumes, crashes>>
    BY DEF SetCapacity
  <1>3. n \in Nat \ {0}
    BY NumberAssumption
  <1>4. batch' \in BatchRecord /\ batch'.capacity = n
    BY <1>1, <1>3 DEF IInv, TypeOK, BatchRecord
  <1>5. Leased(slice) = {}
    BY DEF SetCapacity, NoWorkerRecorded, Leased, IInv, WorkerExactlyWhileLeased
  <1>6. IInv'
    <2>1. TypeOK'
      BY <1>2, <1>4 DEF IInv, TypeOK
    <2>2. LeasesWithinCapacity'
      BY <1>2, <1>3, <1>4, <1>5, FS_EmptySet DEF LeasesWithinCapacity
    <2>3. StoppedBatchHoldsNoLease'
      BY <1>2, <1>5 DEF StoppedBatchHoldsNoLease
    <2> QED
      BY <1>2, <2>1, <2>2, <2>3 DEF IInv, WorkerExactlyWhileLeased,
         CompletedTimersOff, ResultOfLastAttempt, AttemptsLeft, AttemptsBounded
  <1>7. Contract!Resize
    <2>1. \A s \in Slice : slice[s].worker = None
      BY DEF SetCapacity, NoWorkerRecorded
    <2> QED
      BY <1>2, <1>3, <1>4, <2>1 DEF Contract!Resize, Contract!Owned
  <1> QED
    BY <1>2, <1>6, <1>7 DEF Good, Final, Contract!Next

LEMMA SkipGood ==
  ASSUME IInv, NEW s \in Slice, SkipSlice(s)
  PROVE  Good
  <1>1. UNCHANGED <<slice, batch, claim, resumes, crashes>>
        /\ skipped' = skipped \cup TaskOf[s]
    BY DEF SkipSlice
  <1>2. skipped' \in SUBSET Task
    BY <1>1, SliceAssumption DEF IInv, TypeOK
  <1>3. Bookkeeping /\ resumes' >= resumes
    BY <1>1, <1>2 DEF Bookkeeping, IInv, TypeOK
  <1>4. Calm(slice', MaxAttempts + resumes')
    BY <1>1, CalmSame DEF Allowance
  <1> QED
    BY <1>1, <1>3, <1>4, CalmStep, CalmKept DEF Good

LEMMA TickGood == IInv /\ Tick => Good
  <1> SUFFICES ASSUME IInv, Tick PROVE Good
    OBVIOUS
  <1>1. /\ slice' = [s \in Slice |-> Aged(slice[s])]
        /\ batch' = [batch EXCEPT !.cooldown = Older(@)]
        /\ UNCHANGED <<skipped, claim, resumes, crashes>>
    BY DEF Tick
  <1>2. Calm(slice', MaxAttempts + resumes')
    BY <1>1, CalmAged DEF Allowance
  <1>3. Older(batch.cooldown) \in Int
    BY DEF Older, IInv, TypeOK, BatchRecord
  <1>4. /\ batch' \in BatchRecord /\ batch'.capacity = batch.capacity
        /\ batch'.cancelled = batch.cancelled
    BY <1>1, <1>3 DEF IInv, TypeOK, BatchRecord
  <1>5. Bookkeeping /\ resumes' >= resumes
    BY <1>1, <1>4 DEF Bookkeeping, IInv, TypeOK
  <1> QED
    BY <1>2, <1>4, <1>5, CalmStep, CalmKept DEF Good

LEMMA StepGood == IInv /\ Next => Good
  <1> SUFFICES ASSUME IInv, Next PROVE Good
    OBVIOUS
  <1>1. ASSUME NEW d \in 0..LockWait, NextSlice(d) PROVE Good
    BY <1>1, GrantGood, ExistingLeaseGood, NoLeaseGood, RefusedGood, NextSliceDiesGood
       DEF NextSlice
  <1>2. CASE WorkerStep
    BY <1>1, <1>2, HeartbeatGood, CompleteGood, FailGood DEF WorkerStep
  <1>3. CASE \E s \in Slice : Reconcile(s) \/ SkipSlice(s)
    BY <1>3, ReconcileGood, SkipGood
  <1> QED
    BY <1>2, <1>3, InitializeGood, RefreshGood, ReclaimGood, CancelGood, ResumeGood,
       SetCapacityGood, TickGood DEF Next

LEMMA StutterGood == IInv /\ UNCHANGED vars => IInv' /\ Final /\ UNCHANGED Contract!contractVars
  <1> SUFFICES ASSUME IInv, UNCHANGED vars
               PROVE  IInv' /\ Final /\ UNCHANGED Contract!contractVars
    OBVIOUS
  <1>1. UNCHANGED <<slice, batch, skipped, claim, resumes, crashes>>
    BY DEF vars
  <1>2. IInv'
    BY <1>1 DEF IInv, TypeOK, WorkerExactlyWhileLeased, StoppedBatchHoldsNoLease,
       LeasesWithinCapacity, CompletedTimersOff, ResultOfLastAttempt, AttemptsLeft,
       AttemptsBounded
  <1> QED
    BY <1>1, <1>2 DEF Final, Contract!contractVars
----------------------------------------------------------------------------
(* Which slices hold the tasks.                                             *)

\* The states only a slice that was leased gets into.
Begun == {"leased", "reconcile_required", "completed"}

\* Of the slices f, under the batch record b, those once leased are in
\* the batch's list, and what replaced a slice came with its cancellation.
Traced(f, b) ==
  /\ ~b.initialized => b.ids = {}
  /\ \A s \in Slice : f[s].state \in Begun => s \in b.ids
  /\ \A r \in b.ids \ Original :
       \E s \in Original : r \in Replacement[s] /\ f[s].state = "cancelled"

\* The files are those of the batch's list, each is skipped as a whole or not
\* at all, and every task has a slice, one not cancelled while it has to be done.
Covered(f, b, sk) ==
  /\ ~b.initialized => b.ids = {} /\ sk = {}
  /\ {s \in Slice : f[s].state # "absent"} = b.ids
  /\ \A s \in b.ids : TaskOf[s] \cap sk = {} \/ TaskOf[s] \subseteq sk
  /\ b.initialized =>
       \A t \in Task : \E s \in b.ids :
         t \in TaskOf[s] /\ (~b.cancelled /\ t \notin sk => f[s].state # "cancelled")

\* From the slices f to the slices g no file comes or goes, none is cancelled
\* or reopened, and only slices of the list are set to work.
Similar(f, g, ids) ==
  \A s \in Slice :
    /\ g[s].state = "absent" <=> f[s].state = "absent"
    /\ g[s].state = "cancelled" <=> f[s].state = "cancelled"
    /\ g[s].state \in Begun =>
         f[s].state \in Begun \/ s \in ids

\* What is shown of each action.
Follows ==
  /\ resumes' = 0 /\ Traced(slice, batch) => Traced(slice', batch')
  /\ crashes' = 0 /\ Covered(slice, batch, skipped) => Covered(slice', batch', skipped')

\* A similar ledger under the same list is traced and covered as well.
LEMMA SimilarTraced ==
  ASSUME NEW f, NEW g, NEW b, NEW c, Traced(f, b), Similar(f, g, b.ids),
         c.ids = b.ids, c.initialized = b.initialized
  PROVE  Traced(g, c)
  <1>1. Original \subseteq Slice
    BY SliceAssumption
  <1> QED
    BY <1>1 DEF Traced, Similar

LEMMA SimilarCovered ==
  ASSUME NEW f, NEW g, NEW b, NEW c, NEW sk, Covered(f, b, sk), Similar(f, g, b.ids),
         c.ids = b.ids, c.initialized = b.initialized, c.cancelled = b.cancelled
  PROVE  Covered(g, c, sk)
  <1>1. {s \in Slice : g[s].state # "absent"} = {s \in Slice : f[s].state # "absent"}
    BY DEF Similar
  <1>2. b.ids \subseteq Slice
    BY DEF Covered
  <1>3. \A s \in Slice : g[s].state = "cancelled" => f[s].state = "cancelled"
    BY DEF Similar
  <1> QED
    BY <1>1, <1>2, <1>3 DEF Covered

\* Only some of the files are written; one rewrite after another.
LEMMA SimilarPart ==
  ASSUME NEW f, NEW g, NEW ids, Similar(f, g, ids), NEW last
  PROVE  Similar(f, UpTo(last, g, f), ids)
  BY DEF Similar, UpTo

LEMMA SimilarTwice ==
  ASSUME NEW f, NEW g, NEW h, NEW ids, Similar(f, g, ids), Similar(g, h, ids)
  PROVE  Similar(f, h, ids)
  BY DEF Similar

\* Saving a similar ledger.
LEMMA SaveFollows ==
  ASSUME NEW g, NEW c, Save(g, c), Similar(slice, g, batch.ids),
         c.ids = batch.ids, c.initialized = batch.initialized,
         c.cancelled = batch.cancelled, UNCHANGED skipped
  PROVE  Follows
  <1>1. Similar(slice, slice', batch.ids)
    BY SimilarPart DEF Save
  <1>2. /\ batch'.ids = batch.ids /\ batch'.initialized = batch.initialized
        /\ batch'.cancelled = batch.cancelled
    BY DEF Save
  <1> QED
    BY <1>1, <1>2, SimilarTraced, SimilarCovered DEF Follows

\* Making due retries ready is a similar ledger.
LEMMA PromotedSimilar ==
  ASSUME NEW f \in [Slice -> SliceRecord], NEW d, NEW ids
  PROVE  Similar(f, Promoted(f, d), ids)
  <1>1. \A s \in Slice : Settled(f[s], "ready").state = "ready"
    BY SettledType DEF State
  <1> QED
    BY <1>1 DEF Similar, Promoted, Begun

\* Creating the slices.
LEMMA EnsuredTraced ==
  ASSUME IInv, Ensurable, Traced(slice, batch)
  PROVE  Traced(EnsuredSlices, EnsuredBatch)
  <1>1. CASE batch.initialized
    BY <1>1 DEF EnsuredSlices, EnsuredBatch
  <1>2. CASE ~batch.initialized
    <2>1. EnsuredBatch.ids = Original /\ EnsuredBatch.initialized
      BY <1>2 DEF EnsuredBatch, IInv, TypeOK, BatchRecord
    <2>2. \A s \in Slice : Fresh(s).state \in {"ready", "blocked"}
      BY FreshType
    <2>3. \A s \in Slice : EnsuredSlices[s].state \notin Begun
      BY <1>2, <2>2 DEF EnsuredSlices, Traced, Begun
    <2> QED
      BY <2>1, <2>3 DEF Traced
  <1> QED
    BY <1>1, <1>2

LEMMA EnsuredCovered ==
  ASSUME IInv, Ensurable, Covered(slice, batch, skipped)
  PROVE  Covered(EnsuredSlices, EnsuredBatch, skipped)
  <1>1. CASE batch.initialized
    BY <1>1 DEF EnsuredSlices, EnsuredBatch
  <1>2. CASE ~batch.initialized
    <2>1. /\ EnsuredBatch.ids = Original /\ EnsuredBatch.initialized
          /\ skipped = {}
      BY <1>2 DEF EnsuredBatch, IInv, TypeOK, BatchRecord, Covered
    <2>2. \A s \in Slice : Fresh(s).state \in {"ready", "blocked"}
      BY FreshType
    <2>3. \A s \in Slice : slice[s].state = "absent"
      BY <1>2 DEF Covered
    <2>4. {s \in Slice : EnsuredSlices[s].state # "absent"} = Original
      BY <1>2, <2>2, <2>3, SliceAssumption DEF EnsuredSlices
    <2>5. \A s \in Original : EnsuredSlices[s].state # "cancelled"
      BY <1>2, <2>2, SliceAssumption DEF EnsuredSlices
    <2>6. \A t \in Task : \E s \in Original : t \in TaskOf[s]
      BY PartitionAssumption
    <2> QED
      BY <2>1, <2>4, <2>5, <2>6 DEF Covered
  <1> QED
    BY <1>1, <1>2

\* A similar ledger after creating the slices, under the batch record c.
LEMMA EnsuredFollows ==
  ASSUME IInv, Ensurable, Similar(EnsuredSlices, slice', EnsuredBatch.ids),
         batch'.ids = EnsuredBatch.ids, batch'.initialized = EnsuredBatch.initialized,
         batch'.cancelled = EnsuredBatch.cancelled, UNCHANGED skipped
  PROVE  Follows
  BY EnsuredTraced, EnsuredCovered, SimilarTraced, SimilarCovered DEF Follows

\* The batch record of batch_next_slice, its cooldown aside.
LEMMA WarmSame ==
  IInv => /\ WarmBatch.ids = EnsuredBatch.ids
          /\ WarmBatch.initialized = EnsuredBatch.initialized
          /\ WarmBatch.cancelled = EnsuredBatch.cancelled
  <1> SUFFICES ASSUME IInv
      PROVE  /\ WarmBatch.ids = EnsuredBatch.ids
             /\ WarmBatch.initialized = EnsuredBatch.initialized
             /\ WarmBatch.cancelled = EnsuredBatch.cancelled
    OBVIOUS
  <1> DEFINE b == EnsuredBatch
  <1>1. b \in BatchRecord
    BY BatchType
  <1> HIDE DEF b
  <1>2. LET c == [b EXCEPT !.cooldown = Off]
        IN  c.ids = b.ids /\ c.initialized = b.initialized /\ c.cancelled = b.cancelled
    BY <1>1 DEF BatchRecord
  <1> QED
    BY <1>2 DEF WarmBatch, b
----------------------------------------------------------------------------
(* Every step keeps the tasks in place.                                     *)

LEMMA InitFollows == Init => Traced(slice, batch) /\ Covered(slice, batch, skipped)
  <1>1. Init => \A s \in Slice : slice[s].state = "absent"
    BY DEF Init, Absent
  <1> QED
    BY <1>1 DEF Init, Traced, Covered, Begun

LEMMA InitializeFollows == IInv /\ InitializeSlices => Follows
  <1> SUFFICES ASSUME IInv, InitializeSlices PROVE Follows
    OBVIOUS
  <1>1. Ensurable /\ ~batch.initialized /\ UNCHANGED <<skipped, claim, resumes>>
        /\ Save(EnsuredSlices, EnsuredBatch)
    BY DEF InitializeSlices
  <1>2. CASE slice' = EnsuredSlices /\ batch' = EnsuredBatch
    <2>1. Similar(EnsuredSlices, slice', EnsuredBatch.ids)
      BY <1>2 DEF Similar
    <2> QED
      BY <1>1, <1>2, <2>1, EnsuredFollows
  <1>3. CASE /\ crashes' = crashes + 1 /\ UNCHANGED batch
             /\ \E last \in Slice : slice' = UpTo(last, EnsuredSlices, slice)
    <2>1. crashes' # 0
      BY <1>3 DEF IInv, TypeOK
    <2>2. \A s \in Slice : Fresh(s).state \in {"ready", "blocked"}
      BY FreshType
    <2>3. ASSUME NEW s \in Slice, Traced(slice, batch)
          PROVE  slice'[s].state \notin Begun
      BY <1>1, <1>3, <2>2, <2>3 DEF Traced, EnsuredSlices, UpTo, Begun
    <2> QED
      BY <1>1, <1>3, <2>1, <2>3 DEF Follows, Traced
  <1> QED
    BY <1>1, <1>2, <1>3 DEF Save

\* The slices batch_next_slice chooses from are similar to those it creates.
LEMMA CandidatesSimilar ==
  ASSUME IInv, NEW d, Admitted(d), NEW ids
  PROVE  /\ Promoted(EnsuredSlices, d) \in [Slice -> SliceRecord]
         /\ Similar(EnsuredSlices, Promoted(EnsuredSlices, d), ids)
  <1>1. EnsuredSlices \in [Slice -> SliceRecord]
    BY CalmEnsured DEF Admitted, Calm
  <1>2. Promoted(EnsuredSlices, d) \in [Slice -> SliceRecord]
    BY Candidates DEF Calm
  <1> QED
    BY <1>1, <1>2, PromotedSimilar

LEMMA GrantFollows ==
  ASSUME IInv, NEW d \in 0..LockWait, NEW w \in Worker, NEW s \in Slice, Grant(w, s, d)
  PROVE  Follows
  <1> DEFINE f == Promoted(EnsuredSlices, d)
             r == LeasedTo(f[s], w, LeaseTicks - d)
  <1>1. Admitted(d) /\ Ensurable
    BY DEF Grant, Admitted
  <1>2. f \in [Slice -> SliceRecord] /\ Similar(EnsuredSlices, f, EnsuredBatch.ids)
    BY <1>1, CandidatesSimilar
  <1>3. /\ f[s].state = "ready" /\ s \in EnsuredBatch.ids
        /\ slice' = [f EXCEPT ![s] = r]
        /\ batch' = WarmBatch /\ UNCHANGED <<skipped, resumes, crashes>>
    BY DEF Grant
  <1>4. r.state = "leased"
    <2>1. LeaseTicks - d \in Int
      BY NumberAssumption
    <2> QED
      BY <1>2, <2>1, LeasedToType
  <1> HIDE DEF f, r
  <1>5. Similar(f, slice', EnsuredBatch.ids)
    BY <1>2, <1>3, <1>4 DEF Similar
  <1>6. Similar(EnsuredSlices, slice', EnsuredBatch.ids)
    BY <1>2, <1>5, SimilarTwice
  <1> QED
    BY <1>1, <1>3, <1>6, WarmSame, EnsuredFollows

LEMMA OfferFollows ==
  ASSUME IInv, NEW d \in 0..LockWait,
         NoLease(d) \/ \E w \in Worker, s \in Slice : ExistingLease(w, s, d)
  PROVE  Follows
  <1>1. Admitted(d) /\ Ensurable
    BY DEF NoLease, ExistingLease, Admitted
  <1>2. slice' = Promoted(EnsuredSlices, d) /\ batch' = WarmBatch /\ UNCHANGED skipped
    BY DEF NoLease, ExistingLease
  <1>3. Similar(EnsuredSlices, slice', EnsuredBatch.ids)
    BY <1>1, <1>2, CandidatesSimilar
  <1> QED
    BY <1>1, <1>2, <1>3, WarmSame, EnsuredFollows

\* The records of the batch keep their list.
LEMMA SameList ==
  IInv => \A c \in Int :
            LET b == [batch EXCEPT !.cooldown = c]
            IN  b.ids = batch.ids /\ b.initialized = batch.initialized
                /\ b.cancelled = batch.cancelled
  BY DEF IInv, TypeOK, BatchRecord

LEMMA RefusedFollows == ASSUME IInv, NEW d, Refused(d) PROVE Follows
  <1>1. batch' = [batch EXCEPT !.cooldown = Off] /\ UNCHANGED <<slice, skipped>>
    BY DEF Refused
  <1>2. Similar(slice, slice', batch.ids)
    BY <1>1 DEF Similar
  <1> QED
    BY <1>1, <1>2, OffInt, SameList, SimilarTraced, SimilarCovered DEF Follows

LEMMA NextSliceDiesFollows ==
  ASSUME IInv, NEW d \in 0..LockWait, NextSliceDies(d)
  PROVE  Follows
  <1>1. Admitted(d) /\ Ensurable /\ UNCHANGED <<skipped, claim, resumes>>
        /\ crashes' = crashes + 1
    BY DEF NextSliceDies, Admitted
  <1>2. crashes' # 0
    BY <1>1 DEF IInv, TypeOK
  <1>3. PICK last \in Slice \cup {0} :
          \/ /\ slice' = UpTo(last, EnsuredSlices, slice)
             /\ batch' = [batch EXCEPT !.cooldown = Off]
          \/ /\ slice' = UpTo(last, Promoted(EnsuredSlices, d), EnsuredSlices)
             /\ batch' = WarmBatch
    BY DEF NextSliceDies
  <1>4. ASSUME slice' = UpTo(last, EnsuredSlices, slice),
               batch' = [batch EXCEPT !.cooldown = Off], Traced(slice, batch)
        PROVE  Traced(slice', batch')
    <2>1. batch'.ids = batch.ids /\ batch'.initialized = batch.initialized
      BY <1>4, OffInt, SameList
    <2>2. CASE batch.initialized
      <3>1. slice' = slice
        BY <1>4, <2>2 DEF EnsuredSlices, UpTo, IInv, TypeOK
      <3> QED
        BY <1>4, <2>1, <3>1 DEF Traced
    <2>3. CASE ~batch.initialized
      <3>1. \A s \in Slice : Fresh(s).state \in {"ready", "blocked"}
        BY FreshType
      <3>2. \A s \in Slice : slice'[s].state \notin Begun
        BY <1>4, <2>3, <3>1 DEF Traced, EnsuredSlices, UpTo, Begun
      <3> QED
        BY <1>4, <2>1, <2>3, <3>2 DEF Traced
    <2> QED
      BY <2>2, <2>3
  <1>5. ASSUME slice' = UpTo(last, Promoted(EnsuredSlices, d), EnsuredSlices),
               batch' = WarmBatch, Traced(slice, batch)
        PROVE  Traced(slice', batch')
    <2>1. Similar(EnsuredSlices, slice', EnsuredBatch.ids)
      BY <1>1, <1>5, CandidatesSimilar, SimilarPart
    <2> QED
      BY <1>1, <1>5, <2>1, WarmSame, EnsuredTraced, SimilarTraced
  <1> QED
    BY <1>2, <1>3, <1>4, <1>5 DEF Follows

LEMMA HeldFollows ==
  ASSUME IInv, NEW w \in Worker, NEW s \in Slice, NEW d \in 0..LockWait,
         Heartbeat(w, s, d) \/ Complete(w, s, d)
  PROVE  Follows
  <1>1. slice \in [Slice -> SliceRecord] /\ claim[w].attempt \in Nat
        /\ LeaseTicks - d \in Int
    BY NumberAssumption DEF IInv, TypeOK
  <1>2. slice[s].state = "leased" /\ UNCHANGED <<batch, skipped, resumes, crashes>>
    BY DEF Heartbeat, Complete, HoldsLease
  <1>3. /\ Renewed(slice[s], LeaseTicks - d).state = "leased"
        /\ Finished(slice[s], claim[w].attempt).state = "completed"
    BY <1>1, <1>2, RenewedType, FinishedType
  <1>4. Similar(slice, slice', batch.ids)
    BY <1>1, <1>2, <1>3 DEF Similar, Heartbeat, Complete, Begun
  <1> QED
    BY <1>2, <1>4, SimilarTraced, SimilarCovered DEF Follows

LEMMA FailFollows ==
  ASSUME IInv, NEW w \in Worker, NEW s \in Slice, NEW class \in FailureClass,
         Fail(w, s, class)
  PROVE  Follows
  <1> DEFINE r == FailedSlice(class, slice[s])
             b == IF class = "rate_limited"
                    THEN [batch EXCEPT !.cooldown = RetryAfter(slice[s].attempt)]
                    ELSE batch
  <1>1. slice \in [Slice -> SliceRecord] /\ slice[s].attempt \in Nat
    BY DEF IInv, TypeOK, SliceRecord
  <1>2. r.state \in {"retry_wait", "reconcile_required", "awaiting_approval", "blocked"}
    BY <1>1, FailedType
  <1>3. b.ids = batch.ids /\ b.initialized = batch.initialized
        /\ b.cancelled = batch.cancelled
    BY <1>1, RetryAfterInt, SameList
  <1>4. Save([slice EXCEPT ![s] = r], b) /\ UNCHANGED skipped
        /\ slice[s].state = "leased"
    BY DEF Fail, HoldsLease
  <1> HIDE DEF r, b
  <1>5. Similar(slice, [slice EXCEPT ![s] = r], batch.ids)
    BY <1>1, <1>2, <1>4 DEF Similar, Begun
  <1> QED
    BY <1>3, <1>4, <1>5, SaveFollows

LEMMA RefreshFollows == IInv /\ Refresh => Follows
  <1> SUFFICES ASSUME IInv, Refresh PROVE Follows
    OBVIOUS
  <1>1. Similar(slice, Promoted(slice, 0), batch.ids)
    BY PromotedSimilar DEF IInv, TypeOK
  <1> QED
    BY <1>1, OffInt, SameList, SaveFollows DEF Refresh

LEMMA ReclaimFollows == IInv /\ ReclaimExpired => Follows
  <1> SUFFICES ASSUME IInv, ReclaimExpired PROVE Follows
    OBVIOUS
  <1> DEFINE f == [s \in Slice |-> IF s \in Expired THEN Reclaimed(slice[s]) ELSE slice[s]]
  <1>1. \A s \in Slice : Reclaimed(slice[s]).state \in {"ready", "blocked"}
    BY ReclaimedType DEF IInv, TypeOK
  <1>2. \A s \in Expired : slice[s].state = "leased"
    BY DEF Expired, Leased
  <1>3. Similar(slice, f, batch.ids)
    BY <1>1, <1>2 DEF Similar, Begun
  <1>4. Save(f, batch) /\ UNCHANGED skipped
    BY DEF ReclaimExpired
  <1> HIDE DEF f
  <1> QED
    BY <1>3, <1>4, SaveFollows

\* The replacements take over the tasks of the slice they supersede.
LEMMA ReconcileFollows == ASSUME IInv, NEW s \in Slice, Reconcile(s) PROVE Follows
  <1> DEFINE f == Superseding(s)
  <1>1. /\ s \in Original /\ Replacement[s] \subseteq Slice \ Original
        /\ slice[s].state = "reconcile_required" /\ ~batch.cancelled
        /\ UNCHANGED <<skipped, claim, resumes>>
    BY SliceAssumption DEF Reconcile, Reconcilable
  <1>2. \A r \in Slice : Fresh(r).state \in {"ready", "blocked"}
    BY FreshType
  <1>3. Settled(slice[s], "cancelled").state = "cancelled"
    BY SettledType DEF State, IInv, TypeOK
  <1>4. /\ \A r \in Replacement[s] : f[r] = Fresh(r) /\ f[r].state \in {"ready", "blocked"}
        /\ f[s].state = "cancelled"
        /\ \A r \in Slice \ (Replacement[s] \cup {s}) : f[r] = slice[r]
    BY <1>1, <1>2, <1>3 DEF Superseding
  <1> HIDE DEF f
  <1>5. ASSUME slice' = f, batch'.ids = batch.ids \cup Replacement[s] \/ batch' = batch,
               batch'.initialized = batch.initialized, Traced(slice, batch)
        PROVE  Traced(slice', batch')
    <2>1. s \in batch.ids /\ batch.initialized
      BY <1>1, <1>5 DEF Traced, Begun
    <2>2. ASSUME NEW r \in Slice, slice'[r].state \in Begun
          PROVE  r \in batch'.ids
      BY <1>4, <1>5, <2>2 DEF Traced, Begun
    <2>3. ASSUME NEW r \in batch'.ids \ Original
          PROVE  \E q \in Original : r \in Replacement[q] /\ slice'[q].state = "cancelled"
      <3>1. CASE r \in Replacement[s]
        BY <1>1, <1>4, <1>5, <3>1
      <3>2. CASE r \in batch.ids
        <4>1. PICK q \in Original : r \in Replacement[q] /\ slice[q].state = "cancelled"
          BY <1>5, <2>3, <3>2 DEF Traced
        <4>2. slice'[q].state = "cancelled"
          BY <1>1, <1>4, <1>5, <4>1, SliceAssumption
        <4> QED
          BY <4>1, <4>2
      <3> QED
        BY <1>5, <2>3, <3>1, <3>2
    <2> QED
      BY <1>5, <2>1, <2>2, <2>3 DEF Traced
  <1>6. ASSUME slice' = f, batch'.ids = batch.ids \cup Replacement[s],
               batch'.initialized = batch.initialized,
               batch'.cancelled = batch.cancelled, Covered(slice, batch, skipped)
        PROVE  Covered(slice', batch', skipped')
    <2>1. s \in batch.ids /\ batch.initialized
      BY <1>1, <1>6 DEF Covered
    <2>2. {r \in Slice : slice'[r].state # "absent"} = batch'.ids
      BY <1>1, <1>4, <1>6, <2>1 DEF Covered
    <2>3. UNION {TaskOf[r] : r \in Replacement[s]} = TaskOf[s]
      BY <1>1, SliceAssumption
    <2>4. ASSUME NEW r \in batch'.ids
          PROVE  TaskOf[r] \cap skipped = {} \/ TaskOf[r] \subseteq skipped
      <3>1. CASE r \in Replacement[s]
        <4>1. TaskOf[r] \subseteq TaskOf[s]
          BY <2>3, <3>1
        <4> QED
          BY <1>6, <2>1, <4>1 DEF Covered
      <3> QED
        BY <1>6, <2>4, <3>1 DEF Covered
    <2>5. ASSUME NEW t \in Task
          PROVE  \E r \in batch'.ids :
                   t \in TaskOf[r] /\ (t \notin skipped => slice'[r].state # "cancelled")
      <3>1. PICK q \in batch.ids :
               t \in TaskOf[q] /\ (t \notin skipped => slice[q].state # "cancelled")
        BY <1>1, <1>6, <2>1 DEF Covered
      <3>2. CASE q = s
        <4>1. PICK r \in Replacement[s] : t \in TaskOf[r]
          BY <2>3, <3>1, <3>2
        <4> QED
          BY <1>4, <1>6, <4>1
      <3>3. CASE q \in Replacement[s]
        BY <1>4, <1>6, <3>1, <3>3
      <3>4. CASE q \notin Replacement[s] \cup {s}
        <4>1. q \in Slice
          BY <1>6, <3>1 DEF Covered
        <4> QED
          BY <1>4, <1>6, <3>1, <3>4, <4>1
      <3> QED
        BY <3>2, <3>3, <3>4
    <2> QED
      BY <1>1, <1>6, <2>1, <2>2, <2>4, <2>5 DEF Covered
  <1>7. CASE slice' = f /\ batch' = [batch EXCEPT !.ids = @ \cup Replacement[s]]
    <2>1. /\ batch'.ids = batch.ids \cup Replacement[s]
          /\ batch'.initialized = batch.initialized /\ batch'.cancelled = batch.cancelled
      BY <1>7 DEF IInv, TypeOK, BatchRecord
    <2> QED
      BY <1>5, <1>6, <1>7, <2>1 DEF Follows
  <1>8. CASE /\ crashes' = crashes + 1 /\ UNCHANGED batch
             /\ \/ \E last \in Replacement[s] :
                     slice' = [r \in Slice |-> IF r \in Replacement[s] /\ r <= last
                                                 THEN Fresh(r) ELSE slice[r]]
                \/ slice' = f
    <2>1. crashes' # 0
      BY <1>8 DEF IInv, TypeOK
    <2>2. ASSUME NEW last \in Replacement[s], Traced(slice, batch),
                 slice' = [r \in Slice |-> IF r \in Replacement[s] /\ r <= last
                                             THEN Fresh(r) ELSE slice[r]]
          PROVE  Traced(slice', batch')
      <3>1. \A r \in Slice : slice'[r].state \in Begun => slice[r].state \in Begun
        BY <1>1, <1>2, <2>2 DEF Begun
      <3>2. \A r \in Original : slice'[r] = slice[r]
        BY <1>1, <2>2, SliceAssumption
      <3> QED
        BY <1>8, <2>2, <3>1, <3>2 DEF Traced
    <2> QED
      BY <1>5, <1>8, <2>1, <2>2 DEF Follows
  <1> QED
    BY <1>7, <1>8 DEF Reconcile, f

\* A cancellation keeps the files and stops all that is not done.
LEMMA CancelFollows == IInv /\ Cancel => Follows
  <1> SUFFICES ASSUME IInv, Cancel PROVE Follows
    OBVIOUS
  <1>1. Save(CancelledSlices, [batch EXCEPT !.cancelled = TRUE]) /\ UNCHANGED skipped
        /\ crashes' \in {crashes, crashes + 1}
    BY DEF Cancel, Save
  <1>2. \A s \in Slice : Settled(slice[s], "cancelled").state = "cancelled"
    BY SettledType DEF State, IInv, TypeOK
  <1>3. \A s \in Slice :
          /\ slice'[s].state \in {slice[s].state, "cancelled"}
          /\ slice[s].state = "absent" => slice'[s].state = "absent"
    BY <1>1, <1>2 DEF Save, UpTo, CancelledSlices
  <1>4. batch'.ids = batch.ids /\ batch'.initialized = batch.initialized
    BY <1>1 DEF Save, IInv, TypeOK, BatchRecord
  <1>5. Traced(slice, batch) => Traced(slice', batch')
    BY <1>3, <1>4, SliceAssumption DEF Traced, Begun
  <1>6. ASSUME crashes' = 0, Covered(slice, batch, skipped)
        PROVE  Covered(slice', batch', skipped')
    <2>1. batch'.cancelled
      BY <1>1, <1>6 DEF Save, IInv, TypeOK, BatchRecord
    <2>2. {s \in Slice : slice'[s].state # "absent"} = {s \in Slice : slice[s].state # "absent"}
      BY <1>3
    <2> QED
      BY <1>1, <1>4, <1>6, <2>1, <2>2 DEF Covered
  <1> QED
    BY <1>5, <1>6 DEF Follows

\* A resumption reopens every slice with a task to do: none is skipped in part.
LEMMA ResumeFollows == IInv /\ Resume => Follows
  <1> SUFFICES ASSUME IInv, Resume PROVE Follows
    OBVIOUS
  <1>1. Save(ReopenedSlices, [batch EXCEPT !.cancelled = FALSE])
        /\ UNCHANGED <<skipped, claim>> /\ resumes' # 0
        /\ crashes' \in {crashes, crashes + 1}
    BY DEF Resume, Save, IInv, TypeOK
  <1>2. \A s \in Slice : Settled(slice[s], "ready").state = "ready"
    BY SettledType DEF State, IInv, TypeOK
  <1>3. ASSUME crashes' = 0, Covered(slice, batch, skipped)
        PROVE  Covered(slice', batch', skipped')
    <2>1. slice' = ReopenedSlices /\ batch' = [batch EXCEPT !.cancelled = FALSE]
      BY <1>1, <1>3 DEF Save, IInv, TypeOK
    <2>2. /\ batch'.ids = batch.ids /\ batch'.initialized = batch.initialized
          /\ ~batch'.cancelled
      BY <2>1 DEF IInv, TypeOK, BatchRecord
    <2>3. {s \in Slice : slice'[s].state # "absent"} = {s \in Slice : slice[s].state # "absent"}
      BY <1>2, <2>1 DEF ReopenedSlices
    <2>4. ASSUME NEW t \in Task \ skipped, NEW s \in batch.ids, t \in TaskOf[s]
          PROVE  slice'[s].state # "cancelled"
      <3>1. TaskOf[s] \cap skipped = {} /\ s \in Slice
        BY <1>3, <2>4 DEF Covered
      <3> QED
        BY <1>2, <2>1, <3>1 DEF ReopenedSlices, Deferred
    <2> QED
      BY <1>1, <1>3, <2>2, <2>3, <2>4 DEF Covered
  <1> QED
    BY <1>1, <1>3 DEF Follows

LEMMA SetCapacityFollows == IInv /\ SetCapacity => Follows
  <1> SUFFICES ASSUME IInv, SetCapacity PROVE Follows
    OBVIOUS
  <1>1. /\ batch'.ids = batch.ids /\ batch'.initialized = batch.initialized
        /\ batch'.cancelled = batch.cancelled
        /\ UNCHANGED <<slice, skipped>>
    BY DEF SetCapacity, IInv, TypeOK, BatchRecord
  <1>2. Similar(slice, slice', batch.ids)
    BY <1>1 DEF Similar
  <1> QED
    BY <1>1, <1>2, SimilarTraced, SimilarCovered DEF Follows

\* Slices own each task once, so skipping one leaves the others alone.
LEMMA SkipFollows == ASSUME IInv, NEW s \in Slice, SkipSlice(s) PROVE Follows
  <1>1. /\ UNCHANGED <<slice, batch, claim, resumes, crashes>> /\ OwnedOnce
        /\ slice[s].state = "cancelled" /\ skipped' = skipped \cup TaskOf[s]
        /\ batch.cancelled
    BY DEF SkipSlice
  <1>2. Traced(slice, batch) => Traced(slice', batch')
    BY <1>1 DEF Traced
  <1>3. ASSUME NEW q \in OnDisk \ {s} PROVE TaskOf[q] \cap TaskOf[s] = {}
    <2> SUFFICES ASSUME NEW t \in TaskOf[q] \cap TaskOf[s] PROVE FALSE
      OBVIOUS
    <2> DEFINE S == {r \in OnDisk : t \in TaskOf[r]}
    <2>1. t \in Task /\ s \in OnDisk
      BY <1>1, SliceAssumption DEF OnDisk
    <2>2. Cardinality(S) = 1 /\ s \in S /\ q \in S
      BY <1>1, <2>1 DEF OwnedOnce
    <2>3. IsFiniteSet(S)
      BY FS_Subset, SliceAssumption DEF OnDisk
    <2> HIDE DEF S
    <2>4. PICK x : S = {x}
      BY <2>2, <2>3, FS_Singleton
    <2> QED
      BY <2>2, <2>4
  <1>4. ASSUME Covered(slice, batch, skipped) PROVE Covered(slice', batch', skipped')
    <2>1. s \in batch.ids /\ batch.initialized /\ batch.ids = OnDisk
      BY <1>1, <1>4 DEF Covered, OnDisk
    <2>2. \A q \in batch.ids : TaskOf[q] \cap skipped' = {} \/ TaskOf[q] \subseteq skipped'
      BY <1>1, <1>3, <1>4, <2>1 DEF Covered
    <2> QED
      BY <1>1, <1>4, <2>1, <2>2 DEF Covered
  <1> QED
    BY <1>2, <1>4 DEF Follows

LEMMA TickFollows == IInv /\ Tick => Follows
  <1> SUFFICES ASSUME IInv, Tick PROVE Follows
    OBVIOUS
  <1>1. \A s \in Slice : Aged(slice[s]).state = slice[s].state
    BY AgedType DEF IInv, TypeOK
  <1>2. Similar(slice, slice', batch.ids)
    BY <1>1 DEF Tick, Similar
  <1>3. Older(batch.cooldown) \in Int
    BY DEF Older, IInv, TypeOK, BatchRecord
  <1>4. /\ batch'.ids = batch.ids /\ batch'.initialized = batch.initialized
        /\ batch'.cancelled = batch.cancelled /\ UNCHANGED skipped
    BY <1>3, SameList DEF Tick
  <1> QED
    BY <1>2, <1>4, SimilarTraced, SimilarCovered DEF Follows

LEMMA StepFollows == IInv /\ [Next]_vars => Follows
  <1> SUFFICES ASSUME IInv, [Next]_vars PROVE Follows
    OBVIOUS
  <1>1. ASSUME NEW d \in 0..LockWait, NextSlice(d) PROVE Follows
    BY <1>1, GrantFollows, OfferFollows, RefusedFollows, NextSliceDiesFollows
       DEF NextSlice
  <1>2. CASE WorkerStep
    BY <1>1, <1>2, HeldFollows, FailFollows DEF WorkerStep
  <1>3. CASE \E s \in Slice : Reconcile(s) \/ SkipSlice(s)
    BY <1>3, ReconcileFollows, SkipFollows
  <1>4. CASE UNCHANGED vars
    BY <1>4 DEF vars, Follows, Traced, Covered
  <1> QED
    BY <1>2, <1>3, <1>4, InitializeFollows, RefreshFollows, ReclaimFollows,
       CancelFollows, ResumeFollows, SetCapacityFollows, TickFollows DEF Next

\* Traced slices share no task at work or done: of two that share one, both are
\* original, both replace the same slice, or one replaces the other.
LEMMA TracedOnce ==
  ASSUME TypeOK, Traced(slice, batch) PROVE NoTaskWorkedTwice
  <1> SUFFICES ASSUME NEW t \in Task
      PROVE  Cardinality({s \in Slice : t \in TaskOf[s]
                           /\ slice[s].state \in {"leased", "completed"}}) <= 1
    BY DEF NoTaskWorkedTwice
  <1> DEFINE S == {s \in Slice : t \in TaskOf[s]
                                  /\ slice[s].state \in {"leased", "completed"}}
  <1>1. ASSUME NEW r \in S
        PROVE  /\ r \in Slice /\ t \in TaskOf[r] /\ slice[r].state # "cancelled"
               /\ r \in Original \/ \E s \in Original :
                    /\ r \in Replacement[s] /\ slice[s].state = "cancelled"
                    /\ t \in TaskOf[s]
    <2>1. r \in batch.ids
      BY DEF Traced, Begun
    <2>2. ASSUME NEW s \in Original, r \in Replacement[s] PROVE t \in TaskOf[s]
      BY <2>2, SliceAssumption
    <2> QED
      BY <2>1, <2>2 DEF Traced
  <1>2. ASSUME NEW r \in S, NEW q \in S PROVE r = q
    <2>1. \A x, y \in Original : t \in TaskOf[x] /\ t \in TaskOf[y] => x = y
      BY PartitionAssumption
    <2>2. \A s \in Original : r \in Replacement[s] /\ q \in Replacement[s] => r = q
      BY <1>1, PartitionAssumption
    <2> HIDE DEF S
    <2> QED
      BY <1>1, <2>1, <2>2
  <1>3. S = {} \/ \E r : S = {r}
    BY <1>2
  <1> HIDE DEF S
  <1>4. Cardinality(S) \in {0, 1}
    BY <1>3, FS_EmptySet, FS_Singleton
  <1> QED
    BY <1>4 DEF S

\* Resumptions and crashes are counted and never forgotten.
LEMMA CountsGrow ==
  ASSUME IInv, [Next]_vars
  PROVE  resumes' \in {resumes, resumes + 1} /\ crashes' \in {crashes, crashes + 1}
  <1> DEFINE Grown == resumes' \in {resumes, resumes + 1} /\ crashes' \in {crashes, crashes + 1}
  <1>1. ASSUME NEW f, NEW b, Save(f, b) PROVE crashes' \in {crashes, crashes + 1}
    BY <1>1 DEF Save
  <1>2. ASSUME NEW d, NextSlice(d) PROVE Grown
    BY <1>2 DEF NextSlice, Grant, ExistingLease, NoLease, Refused, NextSliceDies
  <1>3. ASSUME NEW w, NEW s, NEW class, Fail(w, s, class) PROVE Grown
    BY <1>1, <1>3, Zenon DEF Fail
  <1>4. ASSUME NEW w, NEW s, NEW d, Heartbeat(w, s, d) \/ Complete(w, s, d) PROVE Grown
    BY <1>4 DEF Heartbeat, Complete
  <1>5. CASE WorkerStep
    BY <1>2, <1>3, <1>4, <1>5 DEF WorkerStep
  <1>6. CASE InitializeSlices \/ Refresh \/ ReclaimExpired \/ Cancel \/ Resume
    BY <1>1, <1>6 DEF InitializeSlices, Refresh, ReclaimExpired, Cancel, Resume
  <1>7. ASSUME NEW s, Reconcile(s) \/ SkipSlice(s) PROVE Grown
    BY <1>7 DEF Reconcile, SkipSlice
  <1>8. CASE SetCapacity \/ Tick \/ UNCHANGED vars
    BY <1>8 DEF SetCapacity, Tick, vars
  <1> QED
    BY <1>5, <1>6, <1>7, <1>8 DEF Next

LEMMA CountsStart ==
  ASSUME IInv, [Next]_vars
  PROVE  (resumes' = 0 => resumes = 0) /\ (crashes' = 0 => crashes = 0)
  BY CountsGrow DEF IInv, TypeOK
----------------------------------------------------------------------------
(* The theorems.                                                            *)

\* The strengthened invariant holds in every reachable state.
THEOREM Invariance == Spec => []IInv
  <1>1. Init => IInv
    BY InitGood
  <1>2. IInv /\ [Next]_vars => IInv'
    BY StepGood, StutterGood DEF Good
  <1> QED
    BY <1>1, <1>2, PTL DEF Spec

\* The ledger's records keep their shapes.
THEOREM TypeCorrect == Spec => []TypeOK
  BY Invariance, PTL DEF IInv

\* No more slices are ever leased than the capacity in force, however many
\* slices and workers there are and wherever operations die.
THEOREM CapacityHolds == Spec => []LeasesWithinCapacity
  BY Invariance, PTL DEF IInv

\* A slice names a worker exactly while it is leased, so the stop checks that
\* look at the worker see every lease.
THEOREM WorkerMarksLease == Spec => []WorkerExactlyWhileLeased
  BY Invariance, PTL DEF IInv

\* A batch recorded as cancelled has no slice at work.
THEOREM StoppedMeansIdle == Spec => []StoppedBatchHoldsNoLease
  BY Invariance, PTL DEF IInv

\* The three of them: what the runs check of leases.
THEOREM LeasesAlwaysHold == Spec => []LeasesHold
  BY CapacityHolds, WorkerMarksLease, StoppedMeansIdle, PTL DEF LeasesHold

\* A completed slice keeps the result of its last attempt, never that of a
\* worker whose lease was taken back.
THEOREM LastAttemptPublishes == Spec => []ResultOfLastAttempt
  BY Invariance, PTL DEF IInv

\* A slice is attempted max_attempts times at most, and once more for each
\* resumption of its batch.
THEOREM AttemptsAreBounded == Spec => []AttemptsBounded
  BY Invariance, PTL DEF IInv

\* What the runs check of attempts.
THEOREM AttemptsAlwaysHold == Spec => []AttemptsHold
  BY LastAttemptPublishes, AttemptsAreBounded, PTL DEF AttemptsHold

\* Once completed, a slice's record never changes.
THEOREM CompletedStays == Spec => CompletedIsFinal
  <1>1. IInv /\ [Next]_vars
          => [\A s \in Slice : slice[s].state = "completed" => slice'[s] = slice[s]]_vars
    BY StepGood DEF Good, Final
  <1> QED
    BY <1>1, Invariance, PTL DEF Spec, CompletedIsFinal

\* The ledger implements the exclusive-lease contract of its workers.
THEOREM ImplementsContract == Spec => KeepsContract
  <1>1. Init => Contract!Init
    BY InitGood
  <1>2. IInv /\ [Next]_vars => [Contract!Next]_(Contract!contractVars)
    BY StepGood, StutterGood DEF Good
  <1> QED
    BY <1>1, <1>2, Invariance, PTL DEF Spec, KeepsContract, Contract!Spec

\* While a batch was never resumed, no task is worked on by two slices nor
\* again after one completed it, whatever was resplit and wherever an
\* operation died: a replacement works only once what it replaces is stopped.
THEOREM TasksWorkedOnce == Spec => [](resumes = 0 => NoTaskWorkedTwice)
  <1> DEFINE Inv == IInv /\ (resumes = 0 => Traced(slice, batch))
  <1>1. Init => Inv
    BY InitGood, InitFollows
  <1>2. Inv /\ [Next]_vars => Inv'
    <2>1. IInv /\ [Next]_vars => IInv' /\ (resumes' = 0 => resumes = 0)
      BY StepGood, StutterGood, CountsStart DEF Good
    <2> QED
      BY <2>1, StepFollows DEF Follows
  <1>3. Inv => (resumes = 0 => NoTaskWorkedTwice)
    BY TracedOnce DEF IInv
  <1> QED
    BY <1>1, <1>2, <1>3, PTL DEF Spec

\* While no operation died half-way, a running batch keeps a slice that is not
\* cancelled for each task not skipped: neither resplitting, stopping and
\* resuming nor skipping loses work.
THEOREM TasksNotDropped == Spec => [](crashes = 0 => NoTaskDropped)
  <1> DEFINE Inv == IInv /\ (crashes = 0 => Covered(slice, batch, skipped))
  <1>1. Init => Inv
    BY InitGood, InitFollows
  <1>2. Inv /\ [Next]_vars => Inv'
    <2>1. IInv /\ [Next]_vars => IInv' /\ (crashes' = 0 => crashes = 0)
      BY StepGood, StutterGood, CountsStart DEF Good
    <2> QED
      BY <2>1, StepFollows DEF Follows
  <1>3. Inv => (crashes = 0 => NoTaskDropped)
    BY DEF Covered, NoTaskDropped
  <1> QED
    BY <1>1, <1>2, <1>3, PTL DEF Spec
=============================================================================
