--------------------------- MODULE PageCallsProofs ---------------------------
(***************************************************************************)
(* What PageCalls promises, for any pages, threads, stops, admissions and  *)
(* crashes: a call is sent again only after it is recorded as failed, no   *)
(* page is asked for beyond its budget, and the index, the drafts and the  *)
(* receipts say what the saved replies say.                                *)
(***************************************************************************)
EXTENDS PageCalls, SequenceTheorems, FiniteSetTheorems, TLAPS

Attempt == [request: Request, state: {"reserved"} \cup Verdict]

\* Request r stands at its ordinal in the index, at each of its pages.
Placed(r) ==
  \A k \in r.pages : r.ordinal \in DOMAIN attempts[k] /\ attempts[k][r.ordinal].request = r

Busy(t) == thread[t].at # "idle"

\* A thread that is busy has a reserved request, and no other thread has it;
\* what it has yet to settle is open.
ThreadsApart ==
  /\ \A t \in Thread : Busy(t) => thread[t].request \in Request /\ Placed(thread[t].request)
  /\ \A t, u \in Thread :
       Busy(t) /\ Busy(u) /\ t # u => thread[t].request # thread[u].request
  /\ \A t \in Thread :
       thread[t].at = "settling" => thread[t].left \subseteq Open(thread[t].request)

\* While requests are gone through only the lead thread works.
LeadAlone ==
  /\ run = "off" => \A t \in Thread : ~Busy(t)
  /\ run = "recovering" => \A t \in Thread \ {Lead} : ~Busy(t)
  /\ \A r \in todo : Placed(r)

\* How far a thread is says what is saved of its request.
RepliesKnown ==
  /\ \A t \in Thread :
       LET r == thread[t].request IN
       /\ thread[t].at \in {"ready", "called"} => answer[r] = Nothing
       /\ thread[t].at \in {"answered", "settling"} => answer[r] # Nothing
       /\ thread[t].at = "settling" => r \in responses
  /\ \A r \in Request : answer[r] # Nothing => Placed(r)
  /\ \A r \in responses : answer[r] # Nothing

\* A receipt says what the reply says.
ReceiptsTrue ==
  \A c \in receipts :
    /\ c.page \in c.request.pages /\ answer[c.request] # Nothing
    /\ answer[c.request][c.page] = c.verdict

\* Another sending was granted for a failure, and is used once.
GrantsPaid ==
  \A r \in Request :
    /\ granted[r] > 0 => granted[r] - 1 \in failed[r]
    /\ \A g \in retried[r] : g - 1 \in failed[r]

\* The sendings of a request, the one a thread is about to make included.
SendingsCounted ==
  /\ \A r \in Request :
       /\ sent[r] <= 1 + Cardinality(retried[r])
       /\ ~Placed(r) => sent[r] = 0
  /\ \A t \in Thread :
       thread[t].at = "ready" =>
         sent[thread[t].request] <= Cardinality(retried[thread[t].request])

\* The inductive invariant.
IInv ==
  /\ TypeOK
  /\ BudgetHolds
  /\ ThreadsApart
  /\ LeadAlone
  /\ RepliesKnown
  /\ ReceiptsTrue
  /\ SettledTruthfully
  /\ GrantsPaid
  /\ SendingsCounted

----------------------------------------------------------------------------
(* Requests and attempts.                                                   *)

LEMMA AttemptsShape ==
  ASSUME TypeOK, NEW k \in Page
  PROVE  /\ attempts[k] \in Seq(Attempt) /\ Len(attempts[k]) \in 0..2
         /\ DOMAIN attempts[k] = 1..Len(attempts[k])
         /\ \A n \in DOMAIN attempts[k] : attempts[k][n] \in Attempt
  <1>1. PICK n \in 0..2 : attempts[k] \in [1..n -> Attempt]
    BY DEF TypeOK, Attempt
  <1>2. attempts[k] \in Seq(Attempt)
    BY <1>1, SeqDef
  <1>3. /\ Len(attempts[k]) \in Nat /\ DOMAIN attempts[k] = 1..Len(attempts[k])
    BY <1>2, LenProperties
  <1>4. DOMAIN attempts[k] = 1..n
    BY <1>1
  <1>5. Len(attempts[k]) = n
    BY <1>1, <1>3, <1>4
  <1> QED
    BY <1>1, <1>2, <1>3, <1>5

LEMMA RequestPages ==
  ASSUME NEW r \in Request
  PROVE  r.pages \subseteq Page /\ r.pages # {} /\ r.ordinal \in {1, 2}
  <1>1. r.pages \subseteq Page /\ Cardinality(r.pages) \in {1, 2} /\ r.ordinal \in {1, 2}
    BY DEF Request
  <1>2. Cardinality({}) = 0
    BY FS_EmptySet
  <1> QED
    BY <1>1, <1>2

\* What a thread takes is a request, and at the ordinal that is next for each
\* of its pages; no such request was reserved before.
LEMMA NewRequest ==
  ASSUME TypeOK, NEW S \in SUBSET Page, Group(S)
  PROVE  /\ RequestFor(S) \in Request /\ RequestFor(S).pages = S
         /\ \A k \in S : RequestFor(S).ordinal = Len(attempts[k]) + 1
         /\ \A k \in S : Len(attempts[k]) = 0 \/
                           (Len(attempts[k]) = 1 /\ attempts[k][1].state = "correctable")
         /\ ~Placed(RequestFor(S))
  <1>1. \A k \in S : Len(attempts[k]) \in 0..2 /\ (attempts[k] = <<>> <=> Len(attempts[k]) = 0)
    BY AttemptsShape, EmptySeq
  <1>2. RequestFor(S) \in Request /\ RequestFor(S).pages = S
    BY DEF Group, RequestFor, Request
  <1>3. \A k \in S : Len(attempts[k]) = 0 \/
                       (Len(attempts[k]) = 1 /\ attempts[k][1].state = "correctable")
    BY <1>1 DEF Group, Reservable
  <1>4. \A k \in S : RequestFor(S).ordinal = Len(attempts[k]) + 1
    <2>1. CASE \A k \in S : attempts[k] = <<>>
      BY <1>1, <2>1 DEF RequestFor
    <2>2. CASE ~(\A k \in S : attempts[k] = <<>>)
      <3>1. Cardinality(S) = 1
        BY <2>2 DEF Group
      <3>2. PICK k \in S : S = {k}
        BY <3>1, CallAssumption, FS_Subset, FS_Singleton
      <3>3. Len(attempts[k]) = 1
        BY <1>1, <1>3, <2>2, <3>2
      <3>4. RequestFor(S).ordinal = 2
        BY <2>2 DEF RequestFor
      <3>5. ASSUME NEW j \in S PROVE RequestFor(S).ordinal = Len(attempts[j]) + 1
        <4>1. j = k
          BY <3>2
        <4>2. Len(attempts[j]) = 1
          BY <3>3, <4>1
        <4>3. Len(attempts[j]) + 1 = 2
          BY <4>2
        <4> QED
          BY <3>4, <4>3
      <3> QED
        BY <3>5
    <2> QED
      BY <2>1, <2>2
  <1>5. ~Placed(RequestFor(S))
    <2>1. PICK k \in S : TRUE
      BY <1>2, RequestPages
    <2>2. RequestFor(S).ordinal \notin DOMAIN attempts[k]
      BY <1>1, <1>4, <2>1, AttemptsShape
    <2> QED
      BY <1>2, <2>1, <2>2 DEF Placed
  <1> QED
    BY <1>2, <1>3, <1>4, <1>5

\* An attempt keeps its request.
IndexGrows ==
  \A k \in Page : \A n \in DOMAIN attempts[k] :
    n \in DOMAIN attempts'[k] /\ attempts'[k][n].request = attempts[k][n].request

LEMMA PlacedStays ==
  ASSUME IndexGrows, NEW r \in Request, Placed(r)
  PROVE  Placed(r)'
  BY RequestPages DEF IndexGrows, Placed

----------------------------------------------------------------------------
(* How the index changes.                                                   *)

LEMMA ReserveIndex ==
  ASSUME TypeOK, NEW t \in Thread, NEW S \in SUBSET Page, Reserve(t, S)
  PROVE  /\ attempts' \in [Page -> Seq(Attempt)]
         /\ \A k \in Page \ S : attempts'[k] = attempts[k]
         /\ \A k \in S :
              /\ Len(attempts'[k]) = Len(attempts[k]) + 1
              /\ DOMAIN attempts'[k] = 1..(Len(attempts[k]) + 1)
              /\ \A n \in DOMAIN attempts[k] : attempts'[k][n] = attempts[k][n]
              /\ attempts'[k][Len(attempts[k]) + 1] =
                   [request |-> RequestFor(S), state |-> "reserved"]
         /\ IndexGrows
  <1> DEFINE a == [request |-> RequestFor(S), state |-> "reserved"]
  <1>1. /\ attempts' = [k \in Page |-> IF k \in S THEN Append(attempts[k], a) ELSE attempts[k]]
        /\ Group(S)
    BY DEF Reserve, Takes
  <1>2. a \in Attempt
    BY <1>1, NewRequest DEF Attempt
  <1>3. ASSUME NEW k \in S
        PROVE  /\ attempts'[k] \in Seq(Attempt)
               /\ Len(attempts'[k]) = Len(attempts[k]) + 1
               /\ DOMAIN attempts'[k] = 1..(Len(attempts[k]) + 1)
               /\ \A n \in DOMAIN attempts[k] : attempts'[k][n] = attempts[k][n]
               /\ attempts'[k][Len(attempts[k]) + 1] = a
    <2>1. attempts'[k] = Append(attempts[k], a)
      BY <1>1
    <2>2. attempts[k] \in Seq(Attempt) /\ DOMAIN attempts[k] = 1..Len(attempts[k])
      BY AttemptsShape
    <2> HIDE DEF a
    <2>3. /\ Append(attempts[k], a) \in Seq(Attempt)
          /\ Len(Append(attempts[k], a)) = Len(attempts[k]) + 1
          /\ \A n \in 1..Len(attempts[k]) : Append(attempts[k], a)[n] = attempts[k][n]
          /\ Append(attempts[k], a)[Len(attempts[k]) + 1] = a
      BY <1>2, <2>2, AppendProperties
    <2> QED
      BY <2>1, <2>2, <2>3, LenProperties
  <1>4. \A k \in Page \ S : attempts'[k] = attempts[k] /\ attempts'[k] \in Seq(Attempt)
    BY <1>1, AttemptsShape
  <1>5. attempts' \in [Page -> Seq(Attempt)]
    BY <1>1, <1>3, <1>4
  <1>6. IndexGrows
    BY <1>3, <1>4, AttemptsShape DEF IndexGrows
  <1> QED
    BY <1>3, <1>4, <1>5, <1>6

\* The receipt of a page, saved before or not, says what the reply says.
LEMMA ReceiptSays ==
  ASSUME TypeOK, ReceiptsTrue, NEW r \in Request, NEW k \in r.pages, answer[r] # Nothing
  PROVE  /\ Receipt(r, k) = [page |-> k, request |-> r, verdict |-> answer[r][k]]
         /\ answer[r][k] \in Verdict
  <1>1. answer[r][k] \in Verdict
    BY DEF TypeOK
  <1>2. CASE Saved(r, k) # {}
    <2>1. PICK c \in Saved(r, k) : Receipt(r, k) = c
      BY <1>2 DEF Receipt
    <2>2. c \in receipts /\ c.page = k /\ c.request = r
      BY <2>1 DEF Saved
    <2>3. c.verdict = answer[r][k] /\ c \in [page: Page, request: Request, verdict: Verdict]
      BY <2>2 DEF ReceiptsTrue, TypeOK
    <2>4. c = [page |-> k, request |-> r, verdict |-> answer[r][k]]
      BY <2>2, <2>3
    <2> QED
      BY <1>1, <2>1, <2>4
  <1>3. CASE Saved(r, k) = {}
    BY <1>1, <1>3 DEF Receipt, SlotVerdict
  <1> QED
    BY <1>2, <1>3

\* What the thread settles is open, as the last attempt of the page.
LEMMA SettledIsOpen ==
  ASSUME TypeOK, BudgetHolds, ThreadsApart, RepliesKnown,
         NEW t \in Thread, NEW k \in Page, MaySettle(t, k)
  PROVE  LET r == thread[t].request IN
         /\ r \in Request /\ k \in r.pages /\ r \in responses /\ answer[r] # Nothing
         /\ r.ordinal = Len(attempts[k]) /\ r.ordinal \in DOMAIN attempts[k]
         /\ attempts[k][r.ordinal] = [request |-> r, state |-> "reserved"]
  <1> DEFINE r == thread[t].request
  <1>1. thread[t].at = "settling" /\ k \in Open(r)
    BY DEF MaySettle, ThreadsApart
  <1>2. r \in Request /\ r \in responses /\ answer[r] # Nothing
    BY <1>1 DEF ThreadsApart, Busy, RepliesKnown
  <1>3. k \in r.pages
    BY <1>1 DEF Open
  <1>4. PICK n \in DOMAIN attempts[k] : attempts[k][n] = [request |-> r, state |-> "reserved"]
    BY <1>1 DEF Open
  <1>5. r.ordinal = n
    BY <1>4 DEF BudgetHolds
  <1>6. Len(attempts[k]) \in 0..2 /\ n \in 1..Len(attempts[k])
    BY <1>4, AttemptsShape
  <1>7. n = Len(attempts[k])
    <2>1. Len(attempts[k]) = 2 => n # 1
      <3>1. attempts[k][n].state # "correctable"
        BY <1>4
      <3>2. Len(attempts[k]) = 2 => attempts[k][1].state = "correctable"
        BY DEF BudgetHolds
      <3> QED
        BY <3>1, <3>2
    <2>2. PICK m \in 0..2 : Len(attempts[k]) = m
      BY <1>6
    <2>3. n \in 1..m /\ (m = 2 => n # 1)
      BY <1>6, <2>1, <2>2
    <2>4. n = m
      BY <2>3
    <2> QED
      BY <2>2, <2>4
  <1> QED
    BY <1>2, <1>3, <1>4, <1>5, <1>7

LEMMA SettleIndex ==
  ASSUME TypeOK, BudgetHolds, ThreadsApart, RepliesKnown, ReceiptsTrue,
         NEW t \in Thread, NEW k \in Page, Settle(t, k)
  PROVE  LET r == thread[t].request IN
         /\ attempts' \in [Page -> Seq(Attempt)]
         /\ \A j \in Page \ {k} : attempts'[j] = attempts[j]
         /\ Len(attempts'[k]) = Len(attempts[k]) /\ DOMAIN attempts'[k] = DOMAIN attempts[k]
         /\ \A n \in DOMAIN attempts[k] \ {r.ordinal} : attempts'[k][n] = attempts[k][n]
         /\ attempts'[k][r.ordinal] = [request |-> r, state |-> answer[r][k]]
         /\ IndexGrows
  <1> DEFINE r == thread[t].request
             a == [request |-> r, state |-> answer[r][k]]
  <1>1. MaySettle(t, k) /\ attempts' = SettledAttempts(r, k)
    BY DEF Settle
  <1>2. /\ r \in Request /\ k \in r.pages /\ answer[r] # Nothing
        /\ r.ordinal \in DOMAIN attempts[k]
        /\ attempts[k][r.ordinal] = [request |-> r, state |-> "reserved"]
    BY <1>1, SettledIsOpen
  <1>3. Receipt(r, k).verdict = answer[r][k] /\ answer[r][k] \in Verdict
    BY <1>2, ReceiptSays
  <1>4. [attempts[k][r.ordinal] EXCEPT !.state = answer[r][k]] = a /\ a \in Attempt
    BY <1>2, <1>3 DEF Attempt
  <1>5. attempts' = [attempts EXCEPT ![k] = [attempts[k] EXCEPT ![r.ordinal] = a]]
    BY <1>1, <1>3, <1>4 DEF SettledAttempts
  <1>6. /\ attempts[k] \in Seq(Attempt) /\ DOMAIN attempts[k] = 1..Len(attempts[k])
        /\ \A j \in Page : attempts[j] \in Seq(Attempt)
    BY AttemptsShape
  <1>7. attempts'[k] = [attempts[k] EXCEPT ![r.ordinal] = a]
    BY <1>5 DEF TypeOK
  <1>8. \A j \in Page \ {k} : attempts'[j] = attempts[j]
    BY <1>5 DEF TypeOK
  <1> HIDE DEF r, a
  <1>9. /\ attempts'[k] \in Seq(Attempt) /\ Len(attempts'[k]) = Len(attempts[k])
        /\ \A n \in 1..Len(attempts[k]) :
             attempts'[k][n] = IF n = r.ordinal THEN a ELSE attempts[k][n]
    BY <1>2, <1>4, <1>6, <1>7, ExceptSeq
  <1>10. DOMAIN attempts'[k] = DOMAIN attempts[k]
    BY <1>6, <1>9, LenProperties
  <1>11. attempts' \in [Page -> Seq(Attempt)]
    <2>1. attempts' = [j \in Page |-> attempts'[j]]
      BY <1>5 DEF TypeOK
    <2>2. \A j \in Page : attempts'[j] \in Seq(Attempt)
      BY <1>6, <1>8, <1>9
    <2> QED
      BY <2>1, <2>2
  <1>12. /\ \A n \in DOMAIN attempts[k] \ {r.ordinal} : attempts'[k][n] = attempts[k][n]
         /\ attempts'[k][r.ordinal] = a
    BY <1>2, <1>6, <1>9
  <1>13. IndexGrows
    BY <1>2, <1>8, <1>10, <1>12 DEF IndexGrows, a
  <1> QED
    BY <1>8, <1>9, <1>10, <1>11, <1>12, <1>13 DEF a, r

----------------------------------------------------------------------------
(* The kinds of step.                                                       *)

\* Threads go on as they were or end what they do, and nothing else that the
\* invariant speaks of changes, but the worker's own place and the grants.
Quiet ==
  /\ \A u \in Thread : thread'[u] \in {thread[u], Idle}
  /\ UNCHANGED <<attempts, answer, responses, receipts, draft, sent, retried>>

Sends(t) ==
  /\ thread[t].at = "ready"
  /\ sent' = [sent EXCEPT ![thread[t].request] = @ + 1]
  /\ thread' = [thread EXCEPT ![t].at = "called"]
  /\ UNCHANGED <<attempts, answer, responses, receipts, draft, retried>>

\* The lead thread takes a request that was found, at a place it was left at.
LeadTakes(r, v) ==
  /\ IsNext(r) /\ r \in Request
  /\ thread' = [thread EXCEPT ![Lead] = v]
  /\ UNCHANGED <<attempts, answer, responses, receipts, draft, sent>>
  /\ \/ v = Settling(r) /\ r \in responses /\ retried' = retried
     \/ v = At(r, "answered") /\ answer[r] # Nothing /\ retried' = retried
     \/ /\ v = At(r, "ready") /\ answer[r] = Nothing
        /\ granted[r] > 0 /\ granted[r] \notin retried[r]
        /\ retried' = [retried EXCEPT ![r] = @ \cup {granted[r]}]

StepKind ==
  \/ Quiet
  \/ \E t \in Thread, S \in SUBSET Page : Reserve(t, S)
  \/ \E t \in Thread : Sends(t) \/ Answer(t) \/ Capture(t)
  \/ \E t \in Thread, k \in Page : Settle(t, k) \/ SettleDies(t, k)
  \/ \E r \in Request : \E v \in {Settling(r), At(r, "answered"), At(r, "ready")} : LeadTakes(r, v)

LEMMA StepKinds ==
  ASSUME TypeOK, [Next]_vars
  PROVE  StepKind
  <1> USE CallAssumption DEF index, files, recovery, control, worker
  <1>1. ASSUME NEW t \in Thread, Raise(t),
               UNCHANGED <<attempts, answer, responses, receipts, draft, sent, retried>>
        PROVE  Quiet
    BY <1>1 DEF TypeOK, Quiet, Raise
  <1>2. ASSUME thread' = thread,
               UNCHANGED <<attempts, answer, responses, receipts, draft, sent, retried>>
        PROVE  Quiet
    BY <1>2 DEF Quiet
  <1>3. ASSUME NEW t \in Thread, ThreadStep(t) PROVE StepKind
    <2>1. CASE \E S \in SUBSET Page : ReserveRefused(t, S)
      BY <1>2, <2>1 DEF ReserveRefused, StepKind
    <2>2. CASE Send(t)
      BY <1>1, <2>2 DEF Send, Sends, StepKind
    <2>3. CASE FailCall(t) \/ LoseCall(t) \/ SettleRefused(t)
      BY <1>1, <2>3 DEF FailCall, LoseCall, SettleRefused, StepKind
    <2> QED
      BY <1>3, <2>1, <2>2, <2>3 DEF ThreadStep, StepKind
  <1>4. CASE WorkerStep
    <2>1. CASE Start \/ BeginCalls \/ BeginCorrections \/ End
      BY <1>2, <2>1 DEF Start, BeginCalls, BeginCorrections, End, StepKind
    <2>2. ASSUME NEW r \in Request, RecoverResponse(r) PROVE StepKind
      BY <1>1, <2>2 DEF RecoverResponse, LeadTakes, StepKind
    <2>3. ASSUME NEW r \in Request, RecoverReply(r) PROVE StepKind
      BY <2>3 DEF RecoverReply, FindsReply, LeadTakes, StepKind
    <2>4. ASSUME NEW r \in Request, ClaimRetry(r) PROVE StepKind
      BY <2>4 DEF ClaimRetry, MayClaim, FindsReply, LeadTakes, StepKind
    <2>5. ASSUME NEW r \in Request, Held(r) PROVE StepKind
      BY <1>1, <2>5 DEF Held, StepKind
    <2> QED
      BY <1>4, <2>1, <2>2, <2>3, <2>4, <2>5 DEF WorkerStep
  <1>5. CASE Crash
    BY <1>5 DEF Crash, Gone, Quiet, StepKind
  <1>6. CASE Stop \/ StopToRecover \/ Resume \/ Admit \/ Renew \/ UNCHANGED vars
    BY <1>2, <1>6 DEF Stop, StopToRecover, Resume, Admit, Renew, vars, StepKind
  <1> QED
    BY <1>3, <1>4, <1>5, <1>6 DEF Next, StepKind

LEMMA IndexStep ==
  ASSUME TypeOK, BudgetHolds, ThreadsApart, RepliesKnown, ReceiptsTrue, [Next]_vars
  PROVE  IndexGrows
  <1>1. CASE attempts' = attempts
    BY <1>1 DEF IndexGrows
  <1>2. ASSUME NEW t \in Thread, NEW S \in SUBSET Page, Reserve(t, S) PROVE IndexGrows
    BY <1>2, ReserveIndex
  <1>3. ASSUME NEW t \in Thread, NEW k \in Page, Settle(t, k) PROVE IndexGrows
    BY <1>3, SettleIndex
  <1> QED
    BY <1>1, <1>2, <1>3, StepKinds DEF StepKind, Quiet, Sends, Answer, Capture, SettleDies, LeadTakes,
       index

----------------------------------------------------------------------------
(* The budget.                                                              *)

LEMMA BudgetStep ==
  ASSUME TypeOK, BudgetHolds, ThreadsApart, RepliesKnown, ReceiptsTrue, [Next]_vars
  PROVE  BudgetHolds'
  <1>1. CASE attempts' = attempts
    BY <1>1 DEF BudgetHolds
  <1>2. ASSUME NEW t \in Thread, NEW S \in SUBSET Page, Reserve(t, S) PROVE BudgetHolds'
    <2> DEFINE r == RequestFor(S)
    <2>1. Group(S)
      BY <1>2 DEF Reserve, Takes
    <2>2. /\ r \in Request /\ r.pages = S
          /\ \A k \in S : r.ordinal = Len(attempts[k]) + 1
          /\ \A k \in S : Len(attempts[k]) = 0 \/
                            (Len(attempts[k]) = 1 /\ attempts[k][1].state = "correctable")
      BY <2>1, NewRequest
    <2>3. /\ IndexGrows
          /\ \A k \in Page \ S : attempts'[k] = attempts[k]
          /\ \A k \in S :
               /\ Len(attempts'[k]) = Len(attempts[k]) + 1
               /\ DOMAIN attempts'[k] = 1..(Len(attempts[k]) + 1)
               /\ \A n \in DOMAIN attempts[k] : attempts'[k][n] = attempts[k][n]
               /\ attempts'[k][Len(attempts[k]) + 1] = [request |-> r, state |-> "reserved"]
      BY <1>2, ReserveIndex
    <2> HIDE DEF r
    <2>4. ASSUME NEW k \in Page, Len(attempts'[k]) = 2 PROVE attempts'[k][1].state = "correctable"
      <3>1. CASE k \notin S
        BY <2>3, <2>4, <3>1 DEF BudgetHolds
      <3>2. CASE k \in S
        BY <2>2, <2>3, <2>4, <3>2, AttemptsShape
      <3> QED
        BY <3>1, <3>2
    <2>5. ASSUME NEW k \in Page, NEW n \in DOMAIN attempts'[k]
          PROVE  LET q == attempts'[k][n].request IN
                 /\ k \in q.pages /\ q.ordinal = n
                 /\ \A j \in q.pages : n \in DOMAIN attempts'[j] /\ attempts'[j][n].request = q
      <3>1. CASE n \in DOMAIN attempts[k]
        <4>1. attempts'[k][n].request = attempts[k][n].request
          BY <2>3, <3>1 DEF IndexGrows
        <4>2. attempts[k][n].request.pages \subseteq Page
          BY <3>1, AttemptsShape, RequestPages DEF Attempt
        <4> QED
          BY <2>3, <3>1, <4>1, <4>2 DEF BudgetHolds, IndexGrows
      <3>2. CASE n \notin DOMAIN attempts[k]
        <4>1. k \in S /\ n = Len(attempts[k]) + 1
          BY <2>3, <3>2, AttemptsShape
        <4>2. attempts'[k][n].request = r /\ r.ordinal = n
          BY <2>2, <2>3, <4>1
        <4>3. \A j \in S : n \in DOMAIN attempts'[j] /\ attempts'[j][n].request = r
          <5> SUFFICES ASSUME NEW j \in S
                       PROVE  n \in DOMAIN attempts'[j] /\ attempts'[j][n].request = r
            OBVIOUS
          <5>1. n = Len(attempts[j]) + 1
            BY <2>2, <4>2
          <5>2. Len(attempts[j]) \in 0..2
            BY AttemptsShape
          <5> QED
            BY <2>3, <5>1, <5>2
        <4> QED
          BY <2>2, <4>1, <4>2, <4>3
      <3> QED
        BY <3>1, <3>2
    <2> QED
      BY <2>4, <2>5 DEF BudgetHolds
  <1>3. ASSUME NEW t \in Thread, NEW k \in Page, Settle(t, k) PROVE BudgetHolds'
    <2> DEFINE r == thread[t].request
    <2>1. /\ r \in Request /\ k \in r.pages /\ r.ordinal = Len(attempts[k])
          /\ r.ordinal \in DOMAIN attempts[k]
          /\ attempts[k][r.ordinal] = [request |-> r, state |-> "reserved"]
      BY <1>3, SettledIsOpen DEF Settle
    <2>2. /\ IndexGrows
          /\ \A j \in Page \ {k} : attempts'[j] = attempts[j]
          /\ Len(attempts'[k]) = Len(attempts[k]) /\ DOMAIN attempts'[k] = DOMAIN attempts[k]
          /\ \A n \in DOMAIN attempts[k] \ {r.ordinal} : attempts'[k][n] = attempts[k][n]
      BY <1>3, SettleIndex
    <2> HIDE DEF r
    <2>3. ASSUME NEW j \in Page, Len(attempts'[j]) = 2 PROVE attempts'[j][1].state = "correctable"
      <3>1. CASE j # k
        BY <2>2, <2>3, <3>1 DEF BudgetHolds
      <3>2. CASE j = k
        <4>1. r.ordinal = 2 /\ 1 \in DOMAIN attempts[k]
          BY <2>1, <2>2, <2>3, <3>2, AttemptsShape
        <4>2. attempts'[k][1] = attempts[k][1]
          BY <2>2, <4>1
        <4> QED
          BY <2>2, <2>3, <3>2, <4>2 DEF BudgetHolds
      <3> QED
        BY <3>1, <3>2
    <2>4. ASSUME NEW j \in Page, NEW n \in DOMAIN attempts'[j]
          PROVE  LET q == attempts'[j][n].request IN
                 /\ j \in q.pages /\ q.ordinal = n
                 /\ \A i \in q.pages : n \in DOMAIN attempts'[i] /\ attempts'[i][n].request = q
      <3>1. n \in DOMAIN attempts[j]
        BY <2>2
      <3>2. attempts'[j][n].request = attempts[j][n].request
        BY <2>2, <3>1 DEF IndexGrows
      <3>3. attempts[j][n].request.pages \subseteq Page
        BY <3>1, AttemptsShape, RequestPages DEF Attempt
      <3> QED
        BY <2>2, <3>1, <3>2, <3>3 DEF BudgetHolds, IndexGrows
    <2> QED
      BY <2>3, <2>4 DEF BudgetHolds
  <1> QED
    BY <1>1, <1>2, <1>3, StepKinds DEF StepKind, Quiet, Sends, Answer, Capture, SettleDies, LeadTakes,
       index

----------------------------------------------------------------------------
(* The threads.                                                             *)

\* What is open stays so, but for the page that is settled.
LEMMA OpenStays ==
  ASSUME TypeOK, BudgetHolds, ThreadsApart, RepliesKnown, ReceiptsTrue
  PROVE  /\ attempts' = attempts => \A r \in Request : Open(r)' = Open(r)
         /\ \A t \in Thread, S \in SUBSET Page : Reserve(t, S) =>
              \A r \in Request : Open(r) \subseteq Open(r)'
         /\ \A t \in Thread, k \in Page : Settle(t, k) =>
              \A r \in Request :
                Open(r) \ (IF r = thread[t].request THEN {k} ELSE {}) \subseteq Open(r)'
  <1>1. attempts' = attempts => \A r \in Request : Open(r)' = Open(r)
    BY DEF Open
  <1>2. ASSUME NEW t \in Thread, NEW S \in SUBSET Page, Reserve(t, S),
               NEW r \in Request, NEW k \in Open(r)
        PROVE  k \in Open(r)'
    <2>1. k \in r.pages /\ k \in Page
      BY RequestPages DEF Open
    <2>2. PICK n \in DOMAIN attempts[k] : attempts[k][n] = [request |-> r, state |-> "reserved"]
      BY DEF Open
    <2>3. n \in DOMAIN attempts'[k] /\ attempts'[k][n] = attempts[k][n]
      BY <1>2, <2>1, <2>2, ReserveIndex DEF IndexGrows
    <2> QED
      BY <2>1, <2>2, <2>3 DEF Open
  <1>3. ASSUME NEW t \in Thread, NEW k \in Page, Settle(t, k),
               NEW r \in Request, NEW j \in Open(r), r = thread[t].request => j # k
        PROVE  j \in Open(r)'
    <2>1. j \in r.pages /\ j \in Page
      BY RequestPages DEF Open
    <2>2. PICK n \in DOMAIN attempts[j] : attempts[j][n] = [request |-> r, state |-> "reserved"]
      BY DEF Open
    <2>3. attempts'[j] = attempts[j] \/ (j = k /\ n # thread[t].request.ordinal)
      <3>1. CASE j # k
        BY <1>3, <2>1, <3>1, SettleIndex
      <3>2. CASE j = k
        <4>1. r # thread[t].request
          BY <1>3, <3>2
        <4>2. attempts[k][thread[t].request.ordinal].request = thread[t].request
          <5>1. MaySettle(t, k)
            BY <1>3 DEF Settle
          <5>2. attempts[k][thread[t].request.ordinal] =
                  [request |-> thread[t].request, state |-> "reserved"]
            BY <5>1, SettledIsOpen
          <5> QED
            BY <5>2
        <4>3. attempts[k][n].request = r
          BY <2>2, <3>2
        <4>4. n # thread[t].request.ordinal
          <5>1. SUFFICES ASSUME n = thread[t].request.ordinal PROVE FALSE
            OBVIOUS
          <5>2. attempts[k][n].request = thread[t].request
            BY <4>2, <5>1
          <5> QED
            BY <4>1, <4>3, <5>2
        <4> QED
          BY <3>2, <4>4
      <3> QED
        BY <3>1, <3>2
    <2>4. n \in DOMAIN attempts'[j] /\ attempts'[j][n] = attempts[j][n]
      <3>1. CASE attempts'[j] = attempts[j]
        BY <2>2, <3>1
      <3>2. CASE j = k /\ n # thread[t].request.ordinal
        <4>1. n \in DOMAIN attempts[k] \ {thread[t].request.ordinal}
          BY <2>2, <3>2
        <4>2. /\ DOMAIN attempts'[k] = DOMAIN attempts[k]
              /\ \A m \in DOMAIN attempts[k] \ {thread[t].request.ordinal} :
                   attempts'[k][m] = attempts[k][m]
          BY <1>3, SettleIndex
        <4> QED
          BY <3>2, <4>1, <4>2
      <3> QED
        BY <2>3, <3>1, <3>2
    <2> QED
      BY <2>1, <2>2, <2>4 DEF Open
  <1> QED
    BY <1>1, <1>2, <1>3

LEMMA ApartStep ==
  ASSUME TypeOK, BudgetHolds, ThreadsApart, LeadAlone, RepliesKnown, ReceiptsTrue, [Next]_vars
  PROVE  ThreadsApart'
  <1> USE DEF Busy
  <1>1. \A r \in Request : Placed(r) => Placed(r)'
    BY IndexStep, PlacedStays
  <1>2. SUFFICES
          /\ \A u \in Thread, r \in Request :
               thread'[u].at # "idle" /\ r = thread'[u].request => Placed(r)'
          /\ \A u \in Thread : thread'[u].at # "idle" => thread'[u].request \in Request
          /\ \A u, w \in Thread :
               thread'[u].at # "idle" /\ thread'[w].at # "idle" /\ u # w =>
                 thread'[u].request # thread'[w].request
          /\ \A u \in Thread, r \in Request :
               thread'[u].at = "settling" /\ r = thread'[u].request =>
                 thread'[u].left \subseteq Open(r)'
    BY DEF ThreadsApart, Placed, Open
  <1> DEFINE Goal ==
          /\ \A u \in Thread, r \in Request :
               thread'[u].at # "idle" /\ r = thread'[u].request => Placed(r)'
          /\ \A u \in Thread : thread'[u].at # "idle" => thread'[u].request \in Request
          /\ \A u, w \in Thread :
               thread'[u].at # "idle" /\ thread'[w].at # "idle" /\ u # w =>
                 thread'[u].request # thread'[w].request
          /\ \A u \in Thread, r \in Request :
               thread'[u].at = "settling" /\ r = thread'[u].request =>
                 thread'[u].left \subseteq Open(r)'
  <1>3. ASSUME attempts' = attempts,
               \A u \in Thread :
                 \/ thread'[u].at = "idle"
                 \/ /\ thread[u].at # "idle" /\ thread'[u].request = thread[u].request
                    /\ thread'[u].at = "settling" =>
                         \/ thread[u].at = "settling" /\ thread'[u].left = thread[u].left
                         \/ thread'[u].left = Open(thread[u].request)
        PROVE  Goal
    <2>1. \A r \in Request : Open(r)' = Open(r)
      BY <1>3, OpenStays
    <2> QED
      BY <1>1, <1>3, <2>1 DEF ThreadsApart
  <1>4. CASE Quiet
    BY <1>3, <1>4 DEF Quiet, Idle
  <1>5. ASSUME NEW t \in Thread, Sends(t) PROVE Goal
    BY <1>3, <1>5 DEF Sends, TypeOK
  <1>6. ASSUME NEW t \in Thread, Answer(t) PROVE Goal
    BY <1>3, <1>6 DEF Answer, TypeOK, index
  <1>7. ASSUME NEW t \in Thread, Capture(t) PROVE Goal
    <2>1. attempts' = attempts /\ thread[t].at = "answered"
      BY <1>7 DEF Capture, index
    <2>2. thread' = [thread EXCEPT ![t] = Idle] \/
          thread' = [thread EXCEPT ![t] = Settling(thread[t].request)]
      BY <1>7 DEF Capture, Raise
    <2>3. /\ \A u \in Thread \ {t} : thread'[u] = thread[u]
          /\ thread'[t] \in {Idle, Settling(thread[t].request)}
      BY <2>2 DEF TypeOK
    <2> QED
      BY <1>3, <2>1, <2>3 DEF Idle, Settling
  <1>8. ASSUME NEW r \in Request, NEW v \in {Settling(r), At(r, "answered"), At(r, "ready")},
               LeadTakes(r, v)
        PROVE  Goal
    <2>1. /\ \A u \in Thread \ {Lead} : thread'[u] = thread[u] /\ thread[u].at = "idle"
          /\ thread'[Lead] = v /\ Placed(r) /\ attempts' = attempts
      BY <1>8, CallAssumption DEF LeadTakes, IsNext, LeadAlone, TypeOK
    <2>2. v.request = r /\ (v.at = "settling" => v.left = Open(r))
      BY <1>8 DEF Settling, At
    <2>3. Placed(r)' /\ Open(r)' = Open(r)
      BY <1>1, <2>1, OpenStays
    <2> QED
      BY <2>1, <2>2, <2>3
  <1>9. ASSUME NEW t \in Thread, NEW S \in SUBSET Page, Reserve(t, S) PROVE Goal
    <2>1. Group(S) /\ thread' = [thread EXCEPT ![t] = At(RequestFor(S), "ready")]
      BY <1>9 DEF Reserve, Takes
    <2>2. PICK r \in Request :
            /\ r = RequestFor(S) /\ r.pages = S /\ ~Placed(r)
            /\ \A k \in S : r.ordinal = Len(attempts[k]) + 1
      BY <2>1, NewRequest
    <2>3. Placed(r)'
      <3>1. ASSUME NEW k \in S
            PROVE  r.ordinal \in DOMAIN attempts'[k] /\ attempts'[k][r.ordinal].request = r
        <4>1. /\ DOMAIN attempts'[k] = 1..(Len(attempts[k]) + 1)
              /\ attempts'[k][Len(attempts[k]) + 1] = [request |-> r, state |-> "reserved"]
          BY <1>9, <2>2, ReserveIndex
        <4>2. Len(attempts[k]) \in 0..2 /\ r.ordinal = Len(attempts[k]) + 1
          BY <2>2, AttemptsShape
        <4> QED
          BY <4>1, <4>2
      <3> QED
        BY <2>2, <3>1 DEF Placed
    <2>4. /\ thread'[t].request = r /\ thread'[t].at = "ready"
          /\ \A u \in Thread \ {t} : thread'[u] = thread[u]
      BY <2>1, <2>2 DEF TypeOK, At
    <2>5. \A u \in Thread \ {t} : thread[u].at # "idle" => thread[u].request # r
      BY <2>2 DEF ThreadsApart
    <2>6. \A q \in Request : Open(q) \subseteq Open(q)'
      BY <1>9, OpenStays
    <2> QED
      BY <1>1, <2>2, <2>3, <2>4, <2>5, <2>6 DEF ThreadsApart
  <1>10. ASSUME NEW t \in Thread, NEW k \in Page, Settle(t, k) PROVE Goal
    <2>1. thread[t].at = "settling" /\ thread[t].request \in Request
      BY <1>10 DEF Settle, MaySettle, ThreadsApart
    <2>2. PICK r \in Request : r = thread[t].request
      BY <2>1
    <2>3. /\ \A u \in Thread \ {t} : thread'[u] = thread[u]
          /\ thread'[t].at = "idle" \/
             (thread'[t].request = r /\ thread'[t].left = thread[t].left \ {k})
      BY <1>10, <2>2 DEF Settle, TypeOK, Idle
    <2>4. \A q \in Request : q # r => Open(q) \subseteq Open(q)'
      BY <1>10, <2>2, OpenStays
    <2>5. Open(r) \ {k} \subseteq Open(r)'
      BY <1>10, <2>2, OpenStays
    <2>6. \A u \in Thread \ {t} : thread[u].at # "idle" => thread[u].request # r
      BY <2>1, <2>2 DEF ThreadsApart
    <2> QED
      BY <1>1, <2>1, <2>2, <2>3, <2>4, <2>5, <2>6 DEF ThreadsApart
  <1>11. ASSUME NEW t \in Thread, NEW k \in Page, SettleDies(t, k) PROVE Goal
    BY <1>3, <1>11 DEF SettleDies, Gone, index, Idle
  <1> QED
    BY <1>4, <1>5, <1>6, <1>7, <1>8, <1>9, <1>10, <1>11, StepKinds DEF StepKind

LEMMA UnsettledPlaced ==
  ASSUME BudgetHolds, NEW r \in Unsettled
  PROVE  r \in Request /\ Placed(r)
  <1>1. PICK k \in r.pages : \E n \in DOMAIN attempts[k] :
                               attempts[k][n] = [request |-> r, state |-> "reserved"]
    BY DEF Unsettled, Open
  <1>2. PICK n \in DOMAIN attempts[k] : attempts[k][n].request = r
    BY <1>1
  <1>3. r \in Request /\ k \in Page
    BY RequestPages DEF Unsettled
  <1>4. r.ordinal = n /\ \A j \in r.pages : n \in DOMAIN attempts[j] /\ attempts[j][n].request = r
    BY <1>2, <1>3 DEF BudgetHolds
  <1> QED
    BY <1>3, <1>4 DEF Placed

LEMMA LeadStep ==
  ASSUME TypeOK, BudgetHolds, ThreadsApart, LeadAlone, RepliesKnown, ReceiptsTrue, [Next]_vars
  PROVE  LeadAlone'
  <1> DEFINE Alone ==
        /\ run' = "off" => \A u \in Thread : thread'[u].at = "idle"
        /\ run' = "recovering" => \A u \in Thread \ {Lead} : thread'[u].at = "idle"
      Goal == Alone /\ (todo' \subseteq todo \/ (attempts' = attempts /\ todo' = Unsettled))
  <1>1. \A r \in Request : Placed(r) => Placed(r)'
    BY IndexStep, PlacedStays
  <1>2. SUFFICES Goal
    <2>1. \A r \in Unsettled : r \in Request /\ Placed(r)
      BY UnsettledPlaced
    <2>2. \A r \in todo' : r \in Request /\ Placed(r)
      BY <1>2, <2>1 DEF LeadAlone, TypeOK
    <2>3. \A r \in Request : r \in todo' => Placed(r)'
      BY <1>1, <2>2
    <2>4. \A r \in todo' : Placed(r)'
      BY <2>2, <2>3
    <2> QED
      BY <1>2, <2>4 DEF LeadAlone, Busy
  <1>3. ASSUME NEW t \in Thread, Raise(t), Busy(t) \/ t = Lead PROVE Goal
    <2>1. /\ thread'[t].at = "idle" /\ \A u \in Thread \ {t} : thread'[u] = thread[u]
          /\ run' = RunAfterError /\ todo' = {}
      BY <1>3 DEF Raise, Idle, TypeOK
    <2>2. CASE run = "recovering"
      BY <1>3, <2>1, <2>2 DEF LeadAlone, Busy
    <2>3. CASE run # "recovering"
      BY <2>1, <2>3 DEF RunAfterError
    <2> QED
      BY <2>2, <2>3
  <1>4. ASSUME NEW t \in Thread, NEW v, thread' = [thread EXCEPT ![t] = v],
               Busy(t) \/ (run # "off" /\ t = Lead) \/ run \in {"calling", "failing", "correcting"},
               run' = run, todo' \subseteq todo
        PROVE  Goal
    BY <1>4 DEF LeadAlone, Busy, TypeOK
  <1>5. CASE run' = run /\ thread' = thread /\ todo' = todo
    BY <1>5 DEF LeadAlone, Busy
  <1>6. CASE Gone
    BY <1>6 DEF Gone, Idle
  <1>7. ASSUME NEW t \in Thread, ThreadStep(t) PROVE Goal
    <2>1. ASSUME NEW S \in SUBSET Page, Reserve(t, S) PROVE Goal
      BY <1>4, <2>1 DEF Reserve, Takes
    <2>2. ASSUME NEW S \in SUBSET Page, ReserveRefused(t, S) PROVE Goal
      BY <2>2 DEF ReserveRefused, Takes, RunAfterError
    <2>3. CASE Send(t)
      <3>1. Busy(t)
        BY <2>3 DEF Send, Busy
      <3>2. CASE Raise(t)
        BY <1>3, <3>1, <3>2
      <3>3. CASE thread' = [thread EXCEPT ![t].at = "called"] /\ run' = run /\ todo' = todo
        BY <1>4, <3>1, <3>3
      <3> QED
        BY <2>3, <3>2, <3>3 DEF Send
    <2>4. CASE Answer(t)
      <3>1. Busy(t)
        BY <2>4 DEF Answer, Busy
      <3>2. thread' = [thread EXCEPT ![t].at = "answered"] /\ run' = run /\ todo' = todo
        BY <2>4 DEF Answer
      <3> QED
        BY <1>4, <3>1, <3>2
    <2>5. CASE FailCall(t) \/ LoseCall(t) \/ SettleRefused(t)
      BY <1>3, <2>5 DEF FailCall, LoseCall, SettleRefused, Busy
    <2>6. CASE Capture(t)
      <3>1. Busy(t)
        BY <2>6 DEF Capture, Busy
      <3>2. CASE Raise(t)
        BY <1>3, <3>1, <3>2
      <3>3. CASE thread' = [thread EXCEPT ![t] = Settling(thread[t].request)] /\ run' = run
                 /\ todo' = todo
        BY <1>4, <3>1, <3>3
      <3> QED
        BY <2>6, <3>2, <3>3 DEF Capture
    <2>7. ASSUME NEW k \in Page, Settle(t, k) PROVE Goal
      <3>1. Busy(t)
        BY <2>7 DEF Settle, MaySettle, Busy
      <3>2. \E v : thread' = [thread EXCEPT ![t] = v]
        BY <2>7 DEF Settle
      <3>3. run' = run /\ todo' \subseteq todo
        BY <2>7 DEF Settle
      <3> QED
        BY <1>4, <3>1, <3>2, <3>3
    <2> QED
      BY <1>7, <2>1, <2>2, <2>3, <2>4, <2>5, <2>6, <2>7 DEF ThreadStep
  <1>8. CASE WorkerStep
    <2>1. CASE Start
      BY <2>1 DEF Start, LeadAlone, Busy, index
    <2>2. CASE BeginCalls \/ BeginCorrections
      BY <2>2 DEF BeginCalls, BeginCorrections
    <2>3. CASE End
      BY <2>3 DEF End, RoundOver
    <2>4. ASSUME NEW r \in Request, RecoverResponse(r) PROVE Goal
      <3>1. CASE Raise(Lead)
        BY <1>3, <3>1, CallAssumption
      <3>2. CASE thread' = [thread EXCEPT ![Lead] = Settling(r)] /\ run' = run /\ todo' = todo
        BY <1>4, <2>4, <3>2, CallAssumption DEF RecoverResponse, IsNext
      <3> QED
        BY <2>4, <3>1, <3>2 DEF RecoverResponse
    <2>5. ASSUME NEW r \in Request, RecoverReply(r) \/ ClaimRetry(r) PROVE Goal
      <3>1. run # "off" /\ run' = run /\ todo' = todo
        BY <2>5 DEF RecoverReply, ClaimRetry, IsNext
      <3>2. \E v : thread' = [thread EXCEPT ![Lead] = v]
        BY <2>5 DEF RecoverReply, ClaimRetry
      <3> QED
        BY <1>4, <3>1, <3>2, CallAssumption
    <2>6. ASSUME NEW r \in Request, Held(r) PROVE Goal
      BY <1>3, <2>6, CallAssumption DEF Held
    <2> QED
      BY <1>8, <2>1, <2>2, <2>3, <2>4, <2>5, <2>6 DEF WorkerStep
  <1>9. CASE Stop \/ StopToRecover \/ Resume \/ Admit \/ Renew \/ UNCHANGED vars
    BY <1>5, <1>9 DEF Stop, StopToRecover, Resume, Admit, Renew, vars, worker
  <1> QED
    BY <1>6, <1>7, <1>8, <1>9 DEF Next, Crash, SettleDies

----------------------------------------------------------------------------
(* The replies.                                                             *)

LEMMA RepliesAreSomething ==
  ASSUME NEW r \in Request, NEW v \in [r.pages -> Verdict]
  PROVE  v # Nothing
  <1>1. DOMAIN v # {}
    BY RequestPages
  <1>2. DOMAIN Nothing = {}
    BY EmptySeq DEF Nothing
  <1> QED
    BY <1>1, <1>2

LEMMA RepliesStep ==
  ASSUME TypeOK, BudgetHolds, ThreadsApart, LeadAlone, RepliesKnown, ReceiptsTrue, [Next]_vars
  PROVE  RepliesKnown'
  <1> DEFINE Known(u) ==
        LET r == thread'[u].request IN
        /\ thread'[u].at \in {"ready", "called"} => answer'[r] = Nothing
        /\ thread'[u].at \in {"answered", "settling"} => answer'[r] # Nothing
        /\ thread'[u].at = "settling" => r \in responses'
      Saves ==
        /\ \A r \in Request : answer'[r] # Nothing => Placed(r) \/ answer[r] # Nothing
        /\ \A r \in responses' : answer'[r] # Nothing
      Goal == (\A u \in Thread : Known(u)) /\ Saves
  <1>1. SUFFICES Goal
    <2>1. \A r \in Request : Placed(r) => Placed(r)'
      BY IndexStep, PlacedStays
    <2>2. \A r \in Request : answer'[r] # Nothing => Placed(r)'
      BY <1>1, <2>1 DEF RepliesKnown
    <2> QED
      BY <1>1, <2>2 DEF RepliesKnown
  <1>2. UNCHANGED <<answer, responses>> => Saves
    BY DEF RepliesKnown
  <1>3. \A u \in Thread :
          UNCHANGED <<answer, responses>> /\ thread'[u] \in {thread[u], Idle} => Known(u)
    BY DEF RepliesKnown, Idle
  <1>4. CASE Quiet
    BY <1>2, <1>3, <1>4 DEF Quiet
  <1>5. ASSUME NEW t \in Thread, Sends(t) PROVE Goal
    <2>1. /\ UNCHANGED <<answer, responses>> /\ thread[t].at = "ready"
          /\ \A u \in Thread \ {t} : thread'[u] = thread[u]
          /\ thread'[t].request = thread[t].request /\ thread'[t].at = "called"
      BY <1>5 DEF Sends, TypeOK
    <2> QED
      BY <1>2, <1>3, <2>1 DEF RepliesKnown
  <1>6. ASSUME NEW t \in Thread, Answer(t) PROVE Goal
    <2>1. thread[t].at = "called"
      BY <1>6 DEF Answer
    <2>2. PICK r \in Request : r = thread[t].request /\ Placed(r)
      BY <2>1 DEF ThreadsApart, Busy
    <2>3. PICK v \in [r.pages -> Verdict] : answer' = [answer EXCEPT ![r] = v]
      BY <1>6, <2>2 DEF Answer
    <2>4. v # Nothing
      BY <2>2, <2>3, RepliesAreSomething
    <2>5. /\ responses' = responses
          /\ \A u \in Thread \ {t} : thread'[u] = thread[u]
          /\ thread'[t].request = r /\ thread'[t].at = "answered"
      BY <1>6, <2>2 DEF Answer, TypeOK
    <2>6. answer'[r] = v /\ \A q \in Request \ {r} : answer'[q] = answer[q]
      BY <2>3 DEF TypeOK
    <2>7. responses \subseteq Request /\ \A u \in Thread : Busy(u) => thread[u].request \in Request
      BY DEF TypeOK, ThreadsApart
    <2>8. Saves
      BY <2>2, <2>4, <2>5, <2>6, <2>7 DEF RepliesKnown
    <2>9. Known(t)
      BY <2>4, <2>5, <2>6
    <2>10. ASSUME NEW u \in Thread \ {t} PROVE Known(u)
      <3>1. CASE Busy(u)
        <4>1. thread[u].request \in Request \ {r}
          BY <2>1, <2>2, <2>7, <3>1 DEF ThreadsApart, Busy
        <4> QED
          BY <2>5, <2>6, <4>1 DEF RepliesKnown
      <3>2. CASE ~Busy(u)
        BY <2>5, <3>2 DEF Busy
      <3> QED
        BY <3>1, <3>2
    <2> QED
      BY <2>8, <2>9, <2>10
  <1>7. ASSUME NEW t \in Thread, Capture(t) PROVE Goal
    <2>1. /\ thread[t].at = "answered" /\ answer' = answer
          /\ responses' = responses \cup {thread[t].request}
      BY <1>7 DEF Capture
    <2>2. thread' = [thread EXCEPT ![t] = Idle] \/
          thread' = [thread EXCEPT ![t] = Settling(thread[t].request)]
      BY <1>7 DEF Capture, Raise
    <2>3. /\ \A u \in Thread \ {t} : thread'[u] = thread[u]
          /\ thread'[t] \in {Idle, Settling(thread[t].request)}
      BY <2>2 DEF TypeOK
    <2>4. answer[thread[t].request] # Nothing
      BY <2>1 DEF RepliesKnown
    <2> QED
      BY <2>1, <2>3, <2>4 DEF RepliesKnown, Idle, Settling
  <1>8. ASSUME NEW r \in Request, NEW v \in {Settling(r), At(r, "answered"), At(r, "ready")},
               LeadTakes(r, v)
        PROVE  Goal
    <2>1. UNCHANGED <<answer, responses>>
      BY <1>8 DEF LeadTakes
    <2>2. \A u \in Thread \ {Lead} : thread'[u] = thread[u]
      BY <1>8 DEF LeadTakes, TypeOK
    <2>3. thread'[Lead] = v
      BY <1>8, CallAssumption DEF LeadTakes, TypeOK
    <2>4. v.request = r /\ v.at \in {"settling", "answered", "ready"}
      BY <1>8 DEF Settling, At
    <2>5. /\ v.at = "settling" => r \in responses
          /\ v.at = "answered" => answer[r] # Nothing
          /\ v.at = "ready" => answer[r] = Nothing
      BY <1>8 DEF LeadTakes, Settling, At
    <2>6. r \in responses => answer[r] # Nothing
      BY DEF RepliesKnown
    <2>7. Known(Lead)
      BY <2>1, <2>3, <2>4, <2>5, <2>6
    <2> QED
      BY <1>2, <1>3, <2>1, <2>2, <2>7
  <1>9. ASSUME NEW t \in Thread, NEW S \in SUBSET Page, Reserve(t, S) PROVE Goal
    <2>1. Group(S) /\ thread' = [thread EXCEPT ![t] = At(RequestFor(S), "ready")]
      BY <1>9 DEF Reserve, Takes
    <2>2. PICK r \in Request : r = RequestFor(S) /\ ~Placed(r)
      BY <2>1, NewRequest
    <2>3. UNCHANGED <<answer, responses>>
      BY <1>9 DEF Reserve, files
    <2>4. /\ thread'[t].request = r /\ thread'[t].at = "ready"
          /\ \A u \in Thread \ {t} : thread'[u] = thread[u]
      BY <2>1, <2>2 DEF TypeOK, At
    <2>5. answer[r] = Nothing
      BY <2>2 DEF RepliesKnown
    <2>6. Known(t)
      BY <2>3, <2>4, <2>5
    <2> QED
      BY <1>2, <1>3, <2>3, <2>4, <2>6
  <1>10. ASSUME NEW t \in Thread, NEW k \in Page, Settle(t, k) PROVE Goal
    <2>1. thread[t].at = "settling" /\ UNCHANGED <<answer, responses>>
      BY <1>10 DEF Settle, MaySettle
    <2>2. /\ \A u \in Thread \ {t} : thread'[u] = thread[u]
          /\ thread'[t].at = "idle" \/
             (thread'[t].request = thread[t].request /\ thread'[t].at = "settling")
      BY <1>10, <2>1 DEF Settle, TypeOK, Idle
    <2>3. Known(t)
      BY <2>1, <2>2 DEF RepliesKnown
    <2> QED
      BY <1>2, <1>3, <2>1, <2>2, <2>3
  <1>11. ASSUME NEW t \in Thread, NEW k \in Page, SettleDies(t, k) PROVE Goal
    BY <1>2, <1>3, <1>11 DEF SettleDies, Gone
  <1> QED
    BY <1>4, <1>5, <1>6, <1>7, <1>8, <1>9, <1>10, <1>11, StepKinds DEF StepKind

\* A saved reply is never replaced, and a response is kept.
LEMMA AnswersStay ==
  ASSUME TypeOK, ThreadsApart, RepliesKnown, [Next]_vars
  PROVE  /\ \A r \in Request : answer[r] # Nothing => answer'[r] = answer[r]
         /\ responses \subseteq responses'
  <1>1. ASSUME NEW t \in Thread, Answer(t)
        PROVE  /\ \A r \in Request : answer[r] # Nothing => answer'[r] = answer[r]
               /\ responses \subseteq responses'
    <2>1. answer[thread[t].request] = Nothing
      BY <1>1 DEF Answer, RepliesKnown
    <2>2. \E v : answer' = [answer EXCEPT ![thread[t].request] = v]
      BY <1>1 DEF Answer
    <2>3. responses' = responses
      BY <1>1 DEF Answer
    <2> QED
      BY <2>1, <2>2, <2>3 DEF TypeOK
  <1> QED
    BY <1>1, StepKinds DEF StepKind, Quiet, Sends, Capture, Reserve, Settle, SettleDies, LeadTakes,
       files

\* What settling a page saves: its draft when the reply is valid, and the
\* receipt of it.
LEMMA SettleSaves ==
  ASSUME TypeOK, BudgetHolds, ThreadsApart, RepliesKnown, ReceiptsTrue, LooseEndsBelong,
         NEW t \in Thread, NEW k \in Page, MaySettle(t, k),
         draft' = NewDraft(thread[t].request, k)
  PROVE  LET r == thread[t].request IN
         /\ \A j \in Page : draft[j] # NoRequest => draft'[j] = draft[j]
         /\ \A j \in Page : draft'[j] # draft[j] =>
              j = k /\ draft'[j] = r /\ answer[r][k] = "valid"
         /\ answer[r][k] = "valid" => draft'[k] = r
  <1>1. PICK r \in Request : r = thread[t].request /\ k \in r.pages /\ answer[r] # Nothing
    BY SettledIsOpen
  <1>2. Receipt(r, k).verdict = answer[r][k]
    BY <1>1, ReceiptSays
  <1>3. NewDraft(r, k) # draft => draft[k] = NoRequest
    BY <1>1 DEF MaySettle
  <1>4. CASE Saved(r, k) = {} /\ answer[r][k] = "valid"
    <2>1. draft' = [draft EXCEPT ![k] = r] /\ NewDraft(r, k) = draft'
      BY <1>1, <1>2, <1>4 DEF NewDraft
    <2>2. draft'[k] = r /\ \A j \in Page \ {k} : draft'[j] = draft[j]
      BY <2>1 DEF TypeOK
    <2>3. draft[k] # NoRequest => draft' = draft
      BY <1>3, <2>1
    <2> QED
      BY <1>1, <1>4, <2>2, <2>3
  <1>5. CASE ~(Saved(r, k) = {} /\ answer[r][k] = "valid")
    <2>1. draft' = draft
      BY <1>1, <1>2, <1>5 DEF NewDraft
    <2>2. answer[r][k] = "valid" => draft[k] = r
      <3>1. SUFFICES ASSUME answer[r][k] = "valid" PROVE draft[k] = r
        OBVIOUS
      <3>2. PICK c \in receipts : c.page = k /\ c.request = r
        BY <1>5, <3>1 DEF Saved
      <3>3. c.verdict = "valid"
        BY <3>1, <3>2 DEF ReceiptsTrue
      <3> QED
        BY <3>2, <3>3 DEF LooseEndsBelong
    <2> QED
      BY <1>1, <2>1, <2>2
  <1> QED
    BY <1>4, <1>5

LEMMA ReceiptsStep ==
  ASSUME TypeOK, BudgetHolds, ThreadsApart, RepliesKnown, ReceiptsTrue, [Next]_vars
  PROVE  ReceiptsTrue'
  <1> DEFINE True(c) == /\ c.page \in c.request.pages /\ answer[c.request] # Nothing
                        /\ answer[c.request][c.page] = c.verdict
  <1>1. SUFFICES \A c \in receipts' : c.request \in Request /\ True(c)
    <2>1. \A r \in Request : answer[r] # Nothing => answer'[r] = answer[r]
      BY AnswersStay
    <2> QED
      BY <1>1, <2>1 DEF ReceiptsTrue
  <1>2. CASE receipts' = receipts
    BY <1>2 DEF ReceiptsTrue, TypeOK
  <1>3. ASSUME NEW t \in Thread, NEW k \in Page, MaySettle(t, k),
               receipts' \subseteq receipts \cup {Receipt(thread[t].request, k)}
        PROVE  \A c \in receipts' : c.request \in Request /\ True(c)
    <2>1. PICK r \in Request : r = thread[t].request /\ k \in r.pages /\ answer[r] # Nothing
      BY <1>3, SettledIsOpen
    <2>2. Receipt(r, k) = [page |-> k, request |-> r, verdict |-> answer[r][k]]
      BY <2>1, ReceiptSays
    <2>3. \A c \in receipts : c.request \in Request /\ True(c)
      BY DEF ReceiptsTrue, TypeOK
    <2> QED
      BY <1>3, <2>1, <2>2, <2>3
  <1>4. ASSUME NEW t \in Thread, NEW k \in Page, Settle(t, k) \/ SettleDies(t, k)
        PROVE  MaySettle(t, k) /\ receipts' \subseteq receipts \cup {Receipt(thread[t].request, k)}
    BY <1>4 DEF Settle, SettleDies
  <1> QED
    BY <1>2, <1>3, <1>4, StepKinds DEF StepKind, Quiet, Sends, Answer, Capture, Reserve, LeadTakes,
       files


\* Index, drafts and receipts go on saying what the replies say: a reserving
\* step meets no draft of its pages, a settling one saves what it marks.
LEMMA TruthStep ==
  ASSUME TypeOK, BudgetHolds, ThreadsApart, RepliesKnown, ReceiptsTrue, SettledTruthfully,
         [Next]_vars
  PROVE  SettledTruthfully'
  <1> DEFINE
        Says(k, a) ==
          /\ a.state # "reserved" => a.request \in responses /\ answer[a.request][k] = a.state
          /\ a.state = "valid" => draft'[k] = a.request
        Fits(k) ==
          draft'[k] # NoRequest =>
            LET r == draft'[k] IN r.ordinal = Len(attempts'[k]) /\ answer[r] # Nothing /\
              attempts'[k][r.ordinal].request = r /\ answer[r][k] = "valid"
        Goal ==
          /\ \A k \in Page : \A n \in DOMAIN attempts'[k] : Says(k, attempts'[k][n])
          /\ \A k \in Page : Fits(k)
          /\ \A c \in receipts' : c.verdict = "valid" => draft'[c.page] = c.request
  <1>1. IndexTruthful /\ LooseEndsBelong
    BY DEF SettledTruthfully
  <1>2. \A k \in Page : \A n \in DOMAIN attempts[k] : attempts[k][n].request \in Request
    BY AttemptsShape DEF Attempt
  <1>3. \A k \in Page : draft[k] # NoRequest => draft[k] \in Request
    BY DEF TypeOK
  <1>4. \A c \in receipts : c.request \in Request /\ c.page \in Page /\ c.request # NoRequest
    BY CallAssumption DEF TypeOK
  <1>5. SUFFICES /\ Goal
                 /\ \A k \in Page : draft'[k] \in Request \cup {NoRequest}
                 /\ \A k \in Page : \A n \in DOMAIN attempts'[k] : attempts'[k][n].request \in Request
    <2>1. /\ \A r \in Request : answer[r] # Nothing => answer'[r] = answer[r]
          /\ responses \subseteq responses'
          /\ \A r \in responses : answer[r] # Nothing
      BY AnswersStay DEF RepliesKnown
    <2>2. IndexTruthful'
      <3> SUFFICES ASSUME NEW k \in Page, NEW n \in DOMAIN attempts'[k]
                   PROVE  LET a == attempts'[k][n] IN
                     /\ a.state # "reserved" =>
                          a.request \in responses' /\ answer'[a.request][k] = a.state
                     /\ a.state = "valid" => draft'[k] = a.request
        BY DEF IndexTruthful
      <3>1. Says(k, attempts'[k][n]) /\ attempts'[k][n].request \in Request
        BY <1>5
      <3> QED
        BY <2>1, <3>1
    <2>3. LooseEndsBelong'
      <3>1. ASSUME NEW k \in Page, draft'[k] # NoRequest
            PROVE  LET r == draft'[k] IN r.ordinal = Len(attempts'[k]) /\ answer'[r] # Nothing /\
                     attempts'[k][r.ordinal].request = r /\ answer'[r][k] = "valid"
        <4>1. Fits(k) /\ draft'[k] \in Request
          BY <1>5, <3>1
        <4> QED
          BY <2>1, <3>1, <4>1
      <3>2. \A k \in Page : \A c \in receipts' :
              c.page = k /\ c.verdict = "valid" => draft'[k] = c.request
        BY <1>5
      <3> QED
        BY <3>1, <3>2 DEF LooseEndsBelong
    <2> QED
      BY <2>2, <2>3 DEF SettledTruthfully
  <1>6. CASE UNCHANGED <<attempts, draft, receipts>>
    BY <1>1, <1>2, <1>4, <1>6 DEF IndexTruthful, LooseEndsBelong, TypeOK
  <1>7. ASSUME NEW t \in Thread, NEW S \in SUBSET Page, Reserve(t, S)
        PROVE  /\ Goal
               /\ \A k \in Page : draft'[k] \in Request \cup {NoRequest}
               /\ \A k \in Page : \A n \in DOMAIN attempts'[k] : attempts'[k][n].request \in Request
    <2>1. Group(S) /\ UNCHANGED <<draft, receipts>>
      BY <1>7 DEF Reserve, Takes, files
    <2>2. PICK r \in Request :
            /\ r = RequestFor(S) /\ r.pages = S
            /\ \A k \in S : r.ordinal = Len(attempts[k]) + 1
            /\ \A k \in S : Len(attempts[k]) = 0 \/
                              (Len(attempts[k]) = 1 /\ attempts[k][1].state = "correctable")
      BY <2>1, NewRequest
    <2>3. /\ \A k \in Page \ S : attempts'[k] = attempts[k]
          /\ \A k \in S :
               /\ DOMAIN attempts'[k] = 1..(Len(attempts[k]) + 1)
               /\ \A n \in DOMAIN attempts[k] : attempts'[k][n] = attempts[k][n]
               /\ attempts'[k][Len(attempts[k]) + 1] = [request |-> r, state |-> "reserved"]
      BY <1>7, <2>2, ReserveIndex
    <2>4. ASSUME NEW k \in Page, NEW n \in DOMAIN attempts'[k]
          PROVE  Says(k, attempts'[k][n]) /\ attempts'[k][n].request \in Request
      <3>1. CASE n \in DOMAIN attempts[k] /\ attempts'[k][n] = attempts[k][n]
        BY <1>1, <1>2, <2>1, <3>1 DEF IndexTruthful
      <3>2. CASE attempts'[k][n] = [request |-> r, state |-> "reserved"]
        BY <3>2
      <3>3. k \in S => n \in DOMAIN attempts[k] \/ n = Len(attempts[k]) + 1
        BY <2>3, AttemptsShape
      <3> QED
        BY <2>3, <3>1, <3>2, <3>3
    <2>5. \A k \in S : draft[k] = NoRequest
      <3> SUFFICES ASSUME NEW k \in S, draft[k] # NoRequest PROVE FALSE
        OBVIOUS
      <3>1. PICK q \in Request : q = draft[k]
        BY <1>3
      <3>2. q.ordinal = Len(attempts[k]) /\ attempts[k][q.ordinal].request = q
            /\ answer[q][k] = "valid"
        BY <1>1, <3>1 DEF LooseEndsBelong
      <3>3. q.ordinal = 1 /\ 1 \in DOMAIN attempts[k] /\ attempts[k][1].state = "correctable"
        <4>1. q.ordinal \in {1, 2}
          BY RequestPages
        <4>2. Len(attempts[k]) = 1 /\ attempts[k][1].state = "correctable"
          BY <2>2, <3>2, <4>1
        <4> QED
          BY <3>2, <4>2, AttemptsShape
      <3>4. answer[q][k] = "correctable"
        BY <1>1, <3>2, <3>3 DEF IndexTruthful
      <3> QED
        BY <3>2, <3>4
    <2>6. \A k \in Page : Fits(k)
      BY <1>1, <2>1, <2>3, <2>5 DEF LooseEndsBelong
    <2> QED
      BY <1>1, <1>4, <2>1, <2>4, <2>6 DEF LooseEndsBelong, TypeOK
  <1>8. ASSUME NEW t \in Thread, NEW k \in Page, MaySettle(t, k),
               draft' = NewDraft(thread[t].request, k),
               receipts' \subseteq receipts \cup {Receipt(thread[t].request, k)},
               attempts' = attempts \/ (Settle(t, k) /\ attempts' # attempts)
        PROVE  /\ Goal
               /\ \A j \in Page : draft'[j] \in Request \cup {NoRequest}
               /\ \A j \in Page : \A n \in DOMAIN attempts'[j] : attempts'[j][n].request \in Request
    <2>1. PICK r \in Request :
            /\ r = thread[t].request /\ k \in r.pages /\ r \in responses /\ answer[r] # Nothing
            /\ r.ordinal = Len(attempts[k]) /\ r.ordinal \in DOMAIN attempts[k]
            /\ attempts[k][r.ordinal] = [request |-> r, state |-> "reserved"]
      BY <1>8, SettledIsOpen
    <2>2. Receipt(r, k) = [page |-> k, request |-> r, verdict |-> answer[r][k]]
      BY <2>1, ReceiptSays
    <2>3. /\ \A j \in Page : draft[j] # NoRequest => draft'[j] = draft[j]
          /\ \A j \in Page : draft'[j] # draft[j] =>
               j = k /\ draft'[j] = r /\ answer[r][k] = "valid"
          /\ answer[r][k] = "valid" => draft'[k] = r
      BY <1>1, <1>8, <2>1, SettleSaves
    <2>4. /\ \A j \in Page : Len(attempts'[j]) = Len(attempts[j])
                             /\ DOMAIN attempts'[j] = DOMAIN attempts[j]
          /\ \A j \in Page : \A n \in DOMAIN attempts[j] :
               \/ attempts'[j][n] = attempts[j][n]
               \/ j = k /\ n = r.ordinal /\
                  attempts'[j][n] = [request |-> r, state |-> answer[r][k]]
      <3>1. CASE attempts' = attempts
        BY <3>1
      <3>2. CASE Settle(t, k)
        <4>1. /\ \A j \in Page \ {k} : attempts'[j] = attempts[j]
              /\ Len(attempts'[k]) = Len(attempts[k]) /\ DOMAIN attempts'[k] = DOMAIN attempts[k]
              /\ \A n \in DOMAIN attempts[k] \ {r.ordinal} : attempts'[k][n] = attempts[k][n]
              /\ attempts'[k][r.ordinal] = [request |-> r, state |-> answer[r][k]]
          BY <2>1, <3>2, SettleIndex
        <4> QED
          BY <4>1
      <3> QED
        BY <1>8, <3>1, <3>2
    <2>5. \A j \in Page : \A n \in DOMAIN attempts[j] :
            attempts'[j][n].request = attempts[j][n].request
      BY <2>1, <2>4
    <2>6. ASSUME NEW j \in Page, NEW n \in DOMAIN attempts'[j]
          PROVE  Says(j, attempts'[j][n])
      <3>1. CASE attempts'[j][n] = attempts[j][n]
        <4>1. n \in DOMAIN attempts[j] /\ attempts[j][n].request # NoRequest
          BY <1>2, <2>4, CallAssumption
        <4> QED
          BY <1>1, <2>3, <3>1, <4>1 DEF IndexTruthful
      <3>2. CASE j = k /\ attempts'[j][n] = [request |-> r, state |-> answer[r][k]]
        BY <2>1, <2>3, <3>2
      <3> QED
        BY <2>4, <3>1, <3>2
    <2>7. ASSUME NEW j \in Page PROVE Fits(j)
      <3>1. CASE draft'[j] = draft[j]
        <4> SUFFICES ASSUME draft[j] # NoRequest
                     PROVE  LET q == draft[j] IN
                              q.ordinal = Len(attempts'[j]) /\ answer[q] # Nothing /\
                              attempts'[j][q.ordinal].request = q /\ answer[q][j] = "valid"
          BY <3>1
        <4>1. PICK q \in Request : q = draft[j]
          BY <1>3
        <4>2. q.ordinal = Len(attempts[j]) /\ answer[q] # Nothing /\
              attempts[j][q.ordinal].request = q /\ answer[q][j] = "valid"
          BY <1>1, <4>1 DEF LooseEndsBelong
        <4>3. q.ordinal \in DOMAIN attempts[j]
          BY <4>2, AttemptsShape, RequestPages
        <4> QED
          BY <2>4, <2>5, <4>1, <4>2, <4>3
      <3>2. CASE draft'[j] # draft[j]
        BY <2>1, <2>3, <2>4, <2>5, <3>2
      <3> QED
        BY <3>1, <3>2
    <2>8. ASSUME NEW c \in receipts', c.verdict = "valid" PROVE draft'[c.page] = c.request
      <3>1. CASE c \in receipts
        BY <1>1, <1>4, <2>3, <2>8, <3>1 DEF LooseEndsBelong
      <3>2. CASE c = Receipt(r, k)
        BY <2>2, <2>3, <2>8, <3>2
      <3> QED
        BY <1>8, <2>1, <3>1, <3>2
    <2>9. \A j \in Page : draft'[j] \in Request \cup {NoRequest}
      BY <2>3 DEF TypeOK
    <2> QED
      BY <1>2, <2>4, <2>5, <2>6, <2>7, <2>8, <2>9
  <1>9. ASSUME NEW t \in Thread, NEW k \in Page, Settle(t, k) \/ SettleDies(t, k)
        PROVE  /\ MaySettle(t, k) /\ draft' = NewDraft(thread[t].request, k)
               /\ receipts' \subseteq receipts \cup {Receipt(thread[t].request, k)}
               /\ attempts' = attempts \/ (Settle(t, k) /\ attempts' # attempts)
    BY <1>9 DEF Settle, SettleDies, index
  <1> QED
    BY <1>6, <1>7, <1>8, <1>9, StepKinds DEF StepKind, Quiet, Sends, Answer, Capture, LeadTakes,
       index

----------------------------------------------------------------------------
(* The sendings.                                                            *)

LEMMA GrantsStep ==
  ASSUME TypeOK, ThreadsApart, GrantsPaid, [Next]_vars
  PROVE  GrantsPaid'
  <1> DEFINE Goal == GrantsPaid'
  <1>1. CASE UNCHANGED <<failed, granted, retried>>
    BY <1>1 DEF GrantsPaid
  <1>2. ASSUME NEW t \in Thread, FailCall(t) PROVE Goal
    <2>1. thread[t].request \in Request
      BY <1>2 DEF FailCall, ThreadsApart, Busy
    <2>2. failed' = [failed EXCEPT ![thread[t].request] = @ \cup {generation}]
          /\ UNCHANGED <<granted, retried>>
      BY <1>2 DEF FailCall, index
    <2>3. \A r \in Request : failed[r] \subseteq failed'[r]
      BY <2>1, <2>2 DEF TypeOK
    <2> QED
      BY <2>2, <2>3 DEF GrantsPaid
  <1>3. CASE Admit
    <2>1. /\ UNCHANGED <<failed, retried>>
          /\ granted' = [r \in Request |-> IF r \in Unknown THEN generation + 1 ELSE granted[r]]
          /\ \A r \in Unknown : generation \in failed[r]
      BY <1>3 DEF Admit, Failed, index
    <2>2. \A r \in Request : granted'[r] > 0 => granted'[r] - 1 \in failed[r]
      <3> SUFFICES ASSUME NEW r \in Request, granted'[r] > 0
                   PROVE  granted'[r] - 1 \in failed[r]
        OBVIOUS
      <3>1. CASE r \in Unknown
        <4>1. granted'[r] = generation + 1 /\ generation \in Nat
          BY <2>1, <3>1, CallAssumption DEF TypeOK
        <4>2. granted'[r] - 1 = generation
          BY <4>1
        <4> QED
          BY <2>1, <3>1, <4>2
      <3>2. CASE r \notin Unknown
        <4>1. granted'[r] = granted[r]
          BY <2>1, <3>2
        <4> QED
          BY <4>1 DEF GrantsPaid
      <3> QED
        BY <3>1, <3>2
    <2> QED
      BY <2>1, <2>2 DEF GrantsPaid
  <1>4. ASSUME NEW r \in Request, ClaimRetry(r) PROVE Goal
    <2>1. UNCHANGED <<failed, granted>> /\ granted[r] > 0
          /\ retried' = [retried EXCEPT ![r] = @ \cup {granted[r]}]
      BY <1>4 DEF ClaimRetry, MayClaim, recovery
    <2>2. \A q \in Request : \A g \in retried'[q] : g \in retried[q] \/ (q = r /\ g = granted[r])
      BY <2>1 DEF TypeOK
    <2>3. \A q \in Request : \A g \in retried'[q] : g - 1 \in failed[q]
      BY <2>1, <2>2 DEF GrantsPaid
    <2> QED
      BY <2>1, <2>3 DEF GrantsPaid
  <1>5. ASSUME NEW t \in Thread, ThreadStep(t) PROVE Goal
    <2>1. FailCall(t) \/ UNCHANGED <<failed, granted, retried>>
      BY <1>5 DEF ThreadStep, Reserve, ReserveRefused, Send, Answer, LoseCall, Capture, Settle,
         SettleRefused, recovery, index
    <2> QED
      BY <1>1, <1>2, <2>1
  <1>6. CASE WorkerStep
    <2>1. (\E r \in Request : ClaimRetry(r)) \/ UNCHANGED <<failed, granted, retried>>
      BY <1>6 DEF WorkerStep, Start, RecoverResponse, RecoverReply, Held, BeginCalls,
         BeginCorrections, End, recovery, index
    <2> QED
      BY <1>1, <1>4, <2>1
  <1>7. CASE Crash \/ (\E t \in Thread, k \in Page : SettleDies(t, k)) \/ Stop \/ StopToRecover \/
             Resume \/ Renew \/ UNCHANGED vars
    BY <1>1, <1>7 DEF Crash, SettleDies, Stop, StopToRecover, Resume, Renew, vars, recovery, index
  <1> QED
    BY <1>3, <1>5, <1>6, <1>7 DEF Next

LEMMA RetriedFinite ==
  ASSUME TypeOK, NEW r \in Request
  PROVE  IsFiniteSet(retried[r]) /\ Cardinality(retried[r]) \in Nat
  <1>1. retried[r] \subseteq 1..MaxAdmissions
    BY DEF TypeOK
  <1>2. IsFiniteSet(1..MaxAdmissions)
    BY FS_Interval, CallAssumption
  <1> QED
    BY <1>1, <1>2, FS_Subset, FS_CardinalityType

LEMMA SendingsStep ==
  ASSUME TypeOK, BudgetHolds, ThreadsApart, LeadAlone, RepliesKnown, ReceiptsTrue,
         SendingsCounted, [Next]_vars
  PROVE  SendingsCounted'
  <1> DEFINE
        Few(r) == sent'[r] <= 1 + Cardinality(retried'[r]) /\ (~Placed(r) => sent'[r] = 0)
        Ready(u) ==
          thread'[u].at = "ready" =>
            sent'[thread'[u].request] <= Cardinality(retried'[thread'[u].request])
        Goal == (\A r \in Request : Few(r)) /\ \A u \in Thread : Ready(u)
  <1>1. SUFFICES Goal
    <2>1. \A r \in Request : Placed(r) => Placed(r)'
      BY IndexStep, PlacedStays
    <2>2. \A r \in Request : /\ sent'[r] <= 1 + Cardinality(retried'[r])
                             /\ ~Placed(r)' => sent'[r] = 0
      BY <1>1, <2>1
    <2> QED
      BY <1>1, <2>2 DEF SendingsCounted
  <1>2. UNCHANGED <<sent, retried>> => \A r \in Request : Few(r)
    BY DEF SendingsCounted
  <1>3. \A u \in Thread :
          UNCHANGED <<sent, retried>> /\ (thread'[u] = thread[u] \/ thread'[u].at # "ready")
            => Ready(u)
    BY DEF SendingsCounted
  <1>4. CASE Quiet
    BY <1>2, <1>3, <1>4 DEF Quiet, Idle
  <1>5. ASSUME NEW t \in Thread, Sends(t) PROVE Goal
    <2>1. thread[t].at = "ready"
      BY <1>5 DEF Sends
    <2>2. PICK r \in Request : r = thread[t].request /\ Placed(r)
      BY <2>1 DEF ThreadsApart, Busy
    <2>3. sent[r] <= Cardinality(retried[r])
      BY <2>1, <2>2 DEF SendingsCounted
    <2>4. sent'[r] = sent[r] + 1 /\ \A q \in Request \ {r} : sent'[q] = sent[q]
      BY <1>5, <2>2 DEF Sends, TypeOK
    <2>5. retried' = retried /\ thread'[t].at = "called"
          /\ \A u \in Thread \ {t} : thread'[u] = thread[u]
      BY <1>5 DEF Sends, TypeOK
    <2>6. Few(r)
      <3>1. sent[r] \in Nat /\ Cardinality(retried[r]) \in Nat
        BY RetriedFinite DEF TypeOK
      <3>2. sent[r] + 1 <= 1 + Cardinality(retried[r])
        BY <2>3, <3>1
      <3> QED
        BY <2>2, <2>4, <2>5, <3>2
    <2>7. \A q \in Request \ {r} : Few(q)
      BY <2>4, <2>5 DEF SendingsCounted
    <2>8. ASSUME NEW u \in Thread \ {t}, thread[u].at = "ready" PROVE Ready(u)
      <3>1. thread[u].request \in Request \ {r}
        BY <2>1, <2>2, <2>8 DEF ThreadsApart, Busy
      <3> QED
        BY <2>4, <2>5, <2>8, <3>1 DEF SendingsCounted
    <2> QED
      BY <2>5, <2>6, <2>7, <2>8
  <1>6. ASSUME NEW t \in Thread, Answer(t) \/ Capture(t) PROVE Goal
    <2>1. UNCHANGED <<sent, retried>>
      BY <1>6 DEF Answer, Capture, index
    <2>2. /\ \A u \in Thread \ {t} : thread'[u] = thread[u]
          /\ thread'[t].at # "ready"
      BY <1>6 DEF Answer, Capture, Raise, Settling, Idle, TypeOK
    <2> QED
      BY <1>2, <1>3, <2>1, <2>2
  <1>7. ASSUME NEW t \in Thread, NEW S \in SUBSET Page, Reserve(t, S) PROVE Goal
    <2>1. Group(S) /\ thread' = [thread EXCEPT ![t] = At(RequestFor(S), "ready")]
      BY <1>7 DEF Reserve, Takes
    <2>2. PICK r \in Request : r = RequestFor(S) /\ ~Placed(r)
      BY <2>1, NewRequest
    <2>3. UNCHANGED <<sent, retried>>
      BY <1>7 DEF Reserve
    <2>4. /\ thread'[t].request = r /\ \A u \in Thread \ {t} : thread'[u] = thread[u]
      BY <2>1, <2>2 DEF TypeOK, At
    <2>5. sent[r] = 0 /\ Cardinality(retried[r]) \in Nat
      BY <2>2, RetriedFinite DEF SendingsCounted
    <2>6. Ready(t)
      BY <2>3, <2>4, <2>5
    <2> QED
      BY <1>2, <1>3, <2>3, <2>4, <2>6
  <1>8. ASSUME NEW t \in Thread, NEW k \in Page, Settle(t, k) PROVE Goal
    <2>1. thread[t].at = "settling" /\ UNCHANGED <<sent, retried>>
      BY <1>8 DEF Settle, MaySettle
    <2>2. /\ \A u \in Thread \ {t} : thread'[u] = thread[u]
          /\ thread'[t].at # "ready"
      BY <1>8, <2>1 DEF Settle, TypeOK, Idle
    <2> QED
      BY <1>2, <1>3, <2>1, <2>2
  <1>9. ASSUME NEW t \in Thread, NEW k \in Page, SettleDies(t, k) PROVE Goal
    <2>1. UNCHANGED <<sent, retried>> /\ \A u \in Thread : thread'[u].at # "ready"
      BY <1>9 DEF SettleDies, Gone, index, Idle
    <2> QED
      BY <1>2, <1>3, <2>1
  <1>10. ASSUME NEW r \in Request, NEW v \in {Settling(r), At(r, "answered"), At(r, "ready")},
                LeadTakes(r, v)
         PROVE  Goal
    <2>1. /\ \A u \in Thread \ {Lead} : thread'[u] = thread[u] /\ thread[u].at = "idle"
          /\ thread'[Lead] = v /\ sent' = sent
      BY <1>10, CallAssumption DEF LeadTakes, IsNext, LeadAlone, Busy, TypeOK
    <2>2. CASE retried' = retried /\ v.at # "ready"
      BY <1>2, <1>3, <2>1, <2>2
    <2>3. CASE v = At(r, "ready") /\ granted[r] \notin retried[r]
               /\ retried' = [retried EXCEPT ![r] = @ \cup {granted[r]}]
      <3>1. /\ retried'[r] = retried[r] \cup {granted[r]}
            /\ \A q \in Request \ {r} : retried'[q] = retried[q]
        BY <2>3 DEF TypeOK
      <3>2. Cardinality(retried'[r]) = Cardinality(retried[r]) + 1
        BY <2>3, <3>1, RetriedFinite, FS_AddElement
      <3>3. /\ sent[r] \in Nat /\ Cardinality(retried[r]) \in Nat
            /\ sent[r] <= 1 + Cardinality(retried[r])
        BY RetriedFinite DEF SendingsCounted, TypeOK
      <3>4. sent[r] <= Cardinality(retried'[r])
        BY <3>2, <3>3
      <3>5. Cardinality(retried'[r]) \in Nat /\ sent[r] <= 1 + Cardinality(retried'[r])
        BY <3>2, <3>3
      <3>6. \A q \in Request : Few(q)
        BY <2>1, <3>1, <3>5 DEF SendingsCounted
      <3>7. thread'[Lead].request = r
        BY <2>1, <2>3 DEF At
      <3> QED
        BY <2>1, <3>4, <3>6, <3>7
    <2>4. Settling(r).at # "ready" /\ At(r, "answered").at # "ready"
      BY DEF Settling, At
    <2> QED
      BY <1>10, <2>2, <2>3, <2>4 DEF LeadTakes
  <1> QED
    BY <1>4, <1>5, <1>6, <1>7, <1>8, <1>9, <1>10, StepKinds DEF StepKind

----------------------------------------------------------------------------
(* Types.                                                                   *)

ThreadType ==
  [at: {"idle", "ready", "called", "answered", "settling"}, request: Request \cup {NoRequest},
   epoch: 0..MaxStops, left: SUBSET Page]

LEMMA AttemptsType ==
  ASSUME TypeOK, BudgetHolds, ThreadsApart, RepliesKnown, ReceiptsTrue, [Next]_vars
  PROVE  attempts' \in [Page -> UNION {[1..n -> Attempt] : n \in 0..2}]
  <1>1. CASE attempts' = attempts
    BY <1>1 DEF TypeOK, Attempt
  <1>2. ASSUME attempts' \in [Page -> Seq(Attempt)],
               \A k \in Page : Len(attempts'[k]) \in 0..2
        PROVE  attempts' \in [Page -> UNION {[1..n -> Attempt] : n \in 0..2}]
    <2>1. ASSUME NEW k \in Page PROVE attempts'[k] \in UNION {[1..n -> Attempt] : n \in 0..2}
      <3>1. attempts'[k] \in [1..Len(attempts'[k]) -> Attempt]
        BY <1>2, LenProperties
      <3> QED
        BY <1>2, <3>1
    <2> QED
      BY <1>2, <2>1
  <1>3. ASSUME NEW t \in Thread, NEW S \in SUBSET Page, Reserve(t, S)
        PROVE  attempts' \in [Page -> UNION {[1..n -> Attempt] : n \in 0..2}]
    <2>1. Group(S)
      BY <1>3 DEF Reserve, Takes
    <2>2. \A k \in S : Len(attempts[k]) \in {0, 1} /\ Len(attempts'[k]) = Len(attempts[k]) + 1
      BY <1>3, <2>1, NewRequest, ReserveIndex
    <2>3. \A k \in Page : Len(attempts'[k]) \in 0..2
      <3>1. ASSUME NEW k \in S PROVE Len(attempts'[k]) \in 0..2
        <4>1. PICK m \in {0, 1} : Len(attempts[k]) = m
          BY <2>2
        <4>2. Len(attempts'[k]) = m + 1
          BY <2>2, <4>1
        <4> QED
          BY <4>2
      <3>2. \A k \in Page \ S : attempts'[k] = attempts[k]
        BY <1>3, ReserveIndex
      <3>3. \A k \in Page \ S : Len(attempts'[k]) \in 0..2
        BY <3>2, AttemptsShape
      <3> QED
        BY <3>1, <3>3
    <2> QED
      BY <1>2, <1>3, <2>3, ReserveIndex
  <1>4. ASSUME NEW t \in Thread, NEW k \in Page, Settle(t, k)
        PROVE  attempts' \in [Page -> UNION {[1..n -> Attempt] : n \in 0..2}]
    <2>1. /\ attempts' \in [Page -> Seq(Attempt)]
          /\ \A j \in Page \ {k} : attempts'[j] = attempts[j]
          /\ Len(attempts'[k]) = Len(attempts[k])
      BY <1>4, SettleIndex
    <2>2. \A j \in Page : Len(attempts'[j]) \in 0..2
      BY <2>1, AttemptsShape
    <2> QED
      BY <1>2, <2>1, <2>2
  <1> QED
    BY <1>1, <1>3, <1>4, StepKinds DEF StepKind, Quiet, Sends, Answer, Capture, SettleDies, LeadTakes,
       index

LEMMA ThreadsType ==
  ASSUME TypeOK, ThreadsApart, [Next]_vars
  PROVE  thread' \in [Thread -> ThreadType]
  <1>1. thread \in [Thread -> ThreadType] /\ epoch \in 0..MaxStops
    BY DEF TypeOK, ThreadType
  <1>2. 0 \in 0..MaxStops
    BY CallAssumption
  <1>3. /\ Idle \in ThreadType
        /\ \A r \in Request : /\ Settling(r) \in ThreadType
                              /\ At(r, "ready") \in ThreadType
                              /\ At(r, "answered") \in ThreadType
    BY <1>1, <1>2, RequestPages DEF Idle, Settling, At, Open, ThreadType
  <1>4. ASSUME NEW t \in Thread, NEW v \in ThreadType, thread' = [thread EXCEPT ![t] = v]
        PROVE  thread' \in [Thread -> ThreadType]
    BY <1>1, <1>4
  <1>5. ASSUME NEW t \in Thread, Raise(t) PROVE thread' \in [Thread -> ThreadType]
    BY <1>3, <1>4, <1>5 DEF Raise
  <1>6. ASSUME thread' = thread \/ Gone \/ \E t \in Thread : Raise(t)
        PROVE  thread' \in [Thread -> ThreadType]
    BY <1>1, <1>3, <1>5, <1>6 DEF Gone
  <1>7. CASE WorkerStep
    <2>1. ASSUME NEW r \in Request, RecoverResponse(r) \/ RecoverReply(r) \/ ClaimRetry(r)
          PROVE  thread' \in [Thread -> ThreadType]
      BY <1>3, <1>4, <1>5, <2>1, CallAssumption DEF RecoverResponse, RecoverReply, ClaimRetry
    <2> QED
      BY <1>6, <1>7, <2>1, CallAssumption DEF WorkerStep, Start, Held, BeginCalls,
         BeginCorrections, End
  <1>8. ASSUME NEW t \in Thread, ThreadStep(t) PROVE thread' \in [Thread -> ThreadType]
    <2>1. ASSUME NEW S \in SUBSET Page, Reserve(t, S) PROVE thread' \in [Thread -> ThreadType]
      <3>1. Group(S) /\ thread' = [thread EXCEPT ![t] = At(RequestFor(S), "ready")]
        BY <2>1 DEF Reserve, Takes
      <3> QED
        BY <1>3, <1>4, <3>1, NewRequest
    <2>2. ASSUME NEW v \in {"called", "answered"}, thread' = [thread EXCEPT ![t].at = v]
          PROVE  thread' \in [Thread -> ThreadType]
      BY <1>1, <2>2 DEF ThreadType
    <2>3. CASE Capture(t)
      <3>1. thread[t].request \in Request
        BY <2>3 DEF Capture, ThreadsApart, Busy
      <3> QED
        BY <1>3, <1>4, <1>5, <2>3, <3>1 DEF Capture
    <2>4. ASSUME NEW k \in Page, Settle(t, k) PROVE thread' \in [Thread -> ThreadType]
      <3>1. [thread[t] EXCEPT !.left = thread[t].left \ {k}] \in ThreadType
        BY <1>1 DEF ThreadType
      <3> QED
        BY <1>3, <1>4, <2>4, <3>1 DEF Settle
    <2> QED
      BY <1>5, <1>6, <1>8, <2>1, <2>2, <2>3, <2>4 DEF ThreadStep, ReserveRefused, Send, Answer,
         FailCall, LoseCall, SettleRefused
  <1> QED
    BY <1>6, <1>7, <1>8 DEF Next, Crash, SettleDies, Stop, StopToRecover, Resume, Admit, Renew,
       vars, worker


LEMMA FilesType ==
  ASSUME TypeOK, BudgetHolds, ThreadsApart, RepliesKnown, ReceiptsTrue, [Next]_vars
  PROVE  /\ DOMAIN answer' = Request
         /\ \A r \in Request : answer'[r] = Nothing \/ answer'[r] \in [r.pages -> Verdict]
         /\ responses' \subseteq Request
         /\ receipts' \subseteq [page: Page, request: Request, verdict: Verdict]
         /\ draft' \in [Page -> Request \cup {NoRequest}]
  <1>1. \A t \in Thread : Busy(t) => thread[t].request \in Request
    BY DEF ThreadsApart
  <1>2. /\ DOMAIN answer' = Request
        /\ \A r \in Request : answer'[r] = Nothing \/ answer'[r] \in [r.pages -> Verdict]
    <2>1. CASE answer' = answer
      BY <2>1 DEF TypeOK
    <2>2. ASSUME NEW t \in Thread, Answer(t)
          PROVE  /\ DOMAIN answer' = Request
                 /\ \A r \in Request : answer'[r] = Nothing \/ answer'[r] \in [r.pages -> Verdict]
      <3>1. PICK r \in Request : r = thread[t].request
        BY <1>1, <2>2 DEF Answer, Busy
      <3>2. PICK v \in [r.pages -> Verdict] : answer' = [answer EXCEPT ![r] = v]
        BY <2>2, <3>1 DEF Answer
      <3> QED
        BY <3>2 DEF TypeOK
    <2> QED
      BY <2>1, <2>2, StepKinds DEF StepKind, Quiet, Sends, Capture, Reserve, Settle, SettleDies,
         LeadTakes, files
  <1>3. responses' \subseteq Request
    <2>1. ASSUME NEW t \in Thread, Capture(t) PROVE responses' \subseteq Request
      BY <1>1, <2>1 DEF Capture, Busy, TypeOK
    <2>2. CASE responses' = responses
      BY <2>2 DEF TypeOK
    <2> QED
      BY <2>1, <2>2, StepKinds DEF StepKind, Quiet, Sends, Answer, Reserve, Settle, SettleDies,
         LeadTakes, files
  <1>4. /\ receipts' \subseteq [page: Page, request: Request, verdict: Verdict]
        /\ draft' \in [Page -> Request \cup {NoRequest}]
    <2>1. CASE UNCHANGED <<receipts, draft>>
      BY <2>1 DEF TypeOK
    <2>2. ASSUME NEW t \in Thread, NEW k \in Page, MaySettle(t, k),
                 draft' = NewDraft(thread[t].request, k),
                 receipts' \subseteq receipts \cup {Receipt(thread[t].request, k)}
          PROVE  /\ receipts' \subseteq [page: Page, request: Request, verdict: Verdict]
                 /\ draft' \in [Page -> Request \cup {NoRequest}]
      <3>1. PICK r \in Request : r = thread[t].request /\ k \in r.pages /\ answer[r] # Nothing
        BY <2>2, SettledIsOpen
      <3>2. Receipt(r, k) \in [page: Page, request: Request, verdict: Verdict]
        BY <3>1, ReceiptSays
      <3>3. draft' \in {draft, [draft EXCEPT ![k] = r]}
        BY <2>2, <3>1 DEF NewDraft
      <3> QED
        BY <2>2, <3>1, <3>2, <3>3 DEF TypeOK
    <2>3. ASSUME NEW t \in Thread, NEW k \in Page, Settle(t, k) \/ SettleDies(t, k)
          PROVE  /\ MaySettle(t, k) /\ draft' = NewDraft(thread[t].request, k)
                 /\ receipts' \subseteq receipts \cup {Receipt(thread[t].request, k)}
      BY <2>3 DEF Settle, SettleDies
    <2> QED
      BY <2>1, <2>2, <2>3, StepKinds DEF StepKind, Quiet, Sends, Answer, Capture, Reserve,
         LeadTakes, files
  <1> QED
    BY <1>2, <1>3, <1>4


LEMMA RecoveryType ==
  ASSUME TypeOK, ThreadsApart, [Next]_vars
  PROVE  /\ retried' \in [Request -> SUBSET (1..MaxAdmissions)]
         /\ failed' \in [Request -> SUBSET (0..MaxAdmissions)]
         /\ granted' \in [Request -> 0..MaxAdmissions] /\ generation' \in 0..MaxAdmissions
         /\ stopped' \in BOOLEAN /\ epoch' \in 0..MaxStops
         /\ sent' \in [Request -> Nat] /\ crashes' \in 0..MaxCrashes
  <1> USE DEF TypeOK
  <1> DEFINE Goal ==
         /\ retried' \in [Request -> SUBSET (1..MaxAdmissions)]
         /\ failed' \in [Request -> SUBSET (0..MaxAdmissions)]
         /\ granted' \in [Request -> 0..MaxAdmissions] /\ generation' \in 0..MaxAdmissions
         /\ stopped' \in BOOLEAN /\ epoch' \in 0..MaxStops
         /\ sent' \in [Request -> Nat] /\ crashes' \in 0..MaxCrashes
  <1>1. ASSUME UNCHANGED <<retried, failed, granted, generation, stopped, epoch, sent>>,
               crashes' = crashes \/ Gone
        PROVE  Goal
    BY <1>1, CallAssumption DEF Gone
  <1>2. ASSUME NEW t \in Thread, ThreadStep(t) PROVE Goal
    <2>1. CASE Send(t) /\ sent' # sent
      <3>1. sent' = [sent EXCEPT ![thread[t].request] = @ + 1] /\ thread[t].request \in Request
        BY <2>1 DEF Send, ThreadsApart, Busy
      <3>2. sent' \in [Request -> Nat]
        BY <3>1
      <3> QED
        BY <2>1, <3>2 DEF Send, index, recovery, control
    <2>2. CASE FailCall(t)
      <3>1. failed' = [failed EXCEPT ![thread[t].request] = @ \cup {generation}]
        BY <2>2 DEF FailCall
      <3>2. failed' \in [Request -> SUBSET (0..MaxAdmissions)]
        BY <3>1
      <3> QED
        BY <2>2, <3>2 DEF FailCall, index, control
    <2>3. (Send(t) /\ sent' # sent) \/ FailCall(t) \/
          UNCHANGED <<retried, failed, granted, generation, stopped, epoch, sent, crashes>>
      BY <1>2 DEF ThreadStep, Reserve, ReserveRefused, Send, Answer, LoseCall, Capture, Settle,
         SettleRefused, recovery, index, control
    <2> QED
      BY <1>1, <2>1, <2>2, <2>3
  <1>3. CASE WorkerStep
    <2>1. ASSUME NEW r \in Request, ClaimRetry(r) PROVE Goal
      <3>1. granted[r] \in 1..MaxAdmissions /\ retried' = [retried EXCEPT ![r] = @ \cup {granted[r]}]
        BY <2>1, CallAssumption DEF ClaimRetry, MayClaim
      <3>2. retried' \in [Request -> SUBSET (1..MaxAdmissions)]
        BY <3>1
      <3> QED
        BY <2>1, <3>2 DEF ClaimRetry, recovery, control
    <2>2. (\E r \in Request : ClaimRetry(r)) \/
          UNCHANGED <<retried, failed, granted, generation, stopped, epoch, sent, crashes>>
      BY <1>3 DEF WorkerStep, Start, RecoverResponse, RecoverReply, Held, BeginCalls,
         BeginCorrections, End, recovery, index, control
    <2> QED
      BY <1>1, <2>1, <2>2
  <1>4. CASE Stop
    <2>1. epoch + 1 \in 0..MaxStops
      BY <1>4, CallAssumption DEF Stop
    <2> QED
      BY <1>4, <2>1 DEF Stop, recovery, index
  <1>5. CASE StopToRecover \/ Resume
    BY <1>5 DEF StopToRecover, Resume, recovery, index
  <1>6. CASE Admit \/ Renew
    <2>1. generation' = generation + 1 /\ generation + 1 \in 0..MaxAdmissions
      BY <1>6, CallAssumption DEF Admit, Renew
    <2>2. granted' \in [Request -> 0..MaxAdmissions]
      BY <1>6, <2>1 DEF Admit, Renew
    <2> QED
      BY <1>6, <2>1, <2>2 DEF Admit, Renew, control, index
  <1>7. CASE Crash \/ (\E t \in Thread, k \in Page : SettleDies(t, k)) \/ UNCHANGED vars
    BY <1>1, <1>7 DEF Crash, SettleDies, vars, recovery, index, control
  <1> QED
    BY <1>2, <1>3, <1>4, <1>5, <1>6, <1>7 DEF Next

LEMMA WorkersType ==
  ASSUME TypeOK, ThreadsApart, [Next]_vars
  PROVE  /\ run' \in {"off", "recovering", "calling", "failing", "correcting"}
         /\ todo' \subseteq Request /\ agenda' \subseteq Page
  <1> DEFINE Goal ==
         /\ run' \in {"off", "recovering", "calling", "failing", "correcting"}
         /\ todo' \subseteq Request /\ agenda' \subseteq Page
  <1> USE DEF TypeOK
  <1>1. ASSUME run' \in {run, "off", "calling", "failing", "recovering", "correcting"},
               todo' \subseteq todo \/ todo' \subseteq Unsettled,
               agenda' \subseteq agenda \/ agenda' \subseteq {k \in Page : Reservable(k)}
        PROVE  Goal
    BY <1>1 DEF Unsettled
  <1>2. ASSUME NEW t \in Thread, Raise(t) PROVE Goal
    BY <1>1, <1>2 DEF Raise, RunAfterError
  <1>3. ASSUME NEW t \in Thread, ThreadStep(t) PROVE Goal
    <2>1. ASSUME NEW S \in SUBSET Page, Reserve(t, S) \/ ReserveRefused(t, S) PROVE Goal
      BY <1>1, <2>1 DEF Reserve, ReserveRefused, Takes, RunAfterError
    <2>2. CASE Send(t) \/ Capture(t)
      BY <1>1, <1>2, <2>2 DEF Send, Capture
    <2>3. CASE Answer(t)
      BY <1>1, <2>3 DEF Answer
    <2>4. ASSUME NEW k \in Page, Settle(t, k) PROVE Goal
      BY <1>1, <2>4 DEF Settle
    <2> QED
      BY <1>2, <1>3, <2>1, <2>2, <2>3, <2>4 DEF ThreadStep, FailCall, LoseCall, SettleRefused
  <1>4. CASE WorkerStep
    <2>1. CASE Start
      BY <1>1, <2>1 DEF Start
    <2>2. CASE BeginCalls
      BY <1>1, <2>2 DEF BeginCalls
    <2>3. CASE BeginCorrections
      <3>1. agenda' \subseteq {k \in Page : Reservable(k)}
        BY <2>3 DEF BeginCorrections
      <3> QED
        BY <1>1, <2>3, <3>1 DEF BeginCorrections
    <2>4. CASE End
      BY <1>1, <2>4 DEF End
    <2>5. ASSUME NEW r \in Request,
                 RecoverResponse(r) \/ RecoverReply(r) \/ ClaimRetry(r) \/ Held(r)
          PROVE  Goal
      BY <1>1, <1>2, <2>5, CallAssumption DEF RecoverResponse, RecoverReply, ClaimRetry, Held
    <2> QED
      BY <1>4, <2>1, <2>2, <2>3, <2>4, <2>5 DEF WorkerStep
  <1>5. CASE Gone
    BY <1>1, <1>5 DEF Gone
  <1>6. CASE Stop \/ StopToRecover \/ Resume \/ Admit \/ Renew \/ UNCHANGED vars
    BY <1>1, <1>6 DEF Stop, StopToRecover, Resume, Admit, Renew, vars, worker
  <1> QED
    BY <1>3, <1>4, <1>5, <1>6 DEF Next, Crash, SettleDies


LEMMA TypeStep ==
  ASSUME TypeOK, BudgetHolds, ThreadsApart, RepliesKnown, ReceiptsTrue, [Next]_vars
  PROVE  TypeOK'
  <1>1. attempts' \in [Page -> UNION {[1..n -> [request: Request, state: {"reserved"} \cup Verdict]] :
                                        n \in 0..2}]
    BY AttemptsType DEF Attempt
  <1>2. thread' \in [Thread -> [at: {"idle", "ready", "called", "answered", "settling"},
                                request: Request \cup {NoRequest}, epoch: 0..MaxStops,
                                left: SUBSET Page]]
    BY ThreadsType DEF ThreadType
  <1> QED
    BY <1>1, <1>2, FilesType, RecoveryType, WorkersType DEF TypeOK

----------------------------------------------------------------------------
(* The invariant.                                                           *)

LEMMA InitInv == Init => IInv
  <1> SUFFICES ASSUME Init PROVE IInv
    OBVIOUS
  <1>1. /\ \A k \in Page : attempts[k] = <<>> /\ DOMAIN attempts[k] = {} /\ Len(attempts[k]) = 0
        /\ \A t \in Thread : thread[t] = Idle
        /\ \A r \in Request : answer[r] = Nothing
    BY EmptySeq DEF Init, Nothing
  <1>2. \A r \in Request : ~Placed(r)
    <2> SUFFICES ASSUME NEW r \in Request, Placed(r) PROVE FALSE
      OBVIOUS
    <2>1. PICK k \in r.pages : k \in Page
      BY RequestPages
    <2> QED
      BY <1>1, <2>1 DEF Placed
  <1>3. TypeOK
    <2>1. <<>> \in [1..0 -> [request: Request, state: {"reserved"} \cup Verdict]]
      <3> DEFINE A == [request: Request, state: {"reserved"} \cup Verdict]
      <3>1. <<>> \in Seq(A) /\ Len(<<>>) = 0
        BY EmptySeq
      <3>2. <<>> \in [1..Len(<<>>) -> A]
        BY <3>1, LenProperties
      <3> QED
        BY <3>1, <3>2
    <2>2. attempts \in [Page -> UNION {[1..n -> [request: Request, state: {"reserved"} \cup Verdict]] :
                                         n \in 0..2}]
      <3> DEFINE A == [request: Request, state: {"reserved"} \cup Verdict]
      <3>1. <<>> \in UNION {[1..n -> A] : n \in 0..2}
        BY <2>1
      <3> HIDE DEF A
      <3>2. attempts \in [Page -> UNION {[1..n -> A] : n \in 0..2}]
        BY <3>1 DEF Init
      <3> QED
        BY <3>2 DEF A
    <2>3. Idle \in [at: {"idle", "ready", "called", "answered", "settling"},
                    request: Request \cup {NoRequest}, epoch: 0..MaxStops, left: SUBSET Page]
      BY CallAssumption DEF Idle
    <2> QED
      <3>1. thread \in [Thread -> [at: {"idle", "ready", "called", "answered", "settling"},
                                   request: Request \cup {NoRequest}, epoch: 0..MaxStops,
                                   left: SUBSET Page]]
        BY <2>3 DEF Init
      <3>2. /\ retried \in [Request -> SUBSET (1..MaxAdmissions)]
            /\ failed \in [Request -> SUBSET (0..MaxAdmissions)]
            /\ granted \in [Request -> 0..MaxAdmissions] /\ generation \in 0..MaxAdmissions
        BY CallAssumption DEF Init
      <3>3. stopped \in BOOLEAN
        BY Zenon DEF Init
      <3>4. epoch \in 0..MaxStops /\ crashes \in 0..MaxCrashes
        BY CallAssumption DEF Init
      <3>5. sent \in [Request -> Nat]
        BY DEF Init
      <3>6. responses = {} /\ receipts = {} /\ todo = {} /\ agenda = {} /\ run = "off"
        BY DEF Init
      <3>7. DOMAIN answer = Request
        BY DEF Init
      <3>8. draft \in [Page -> Request \cup {NoRequest}]
        BY DEF Init
      <3> QED
        BY <1>1, <2>2, <3>1, <3>2, <3>3, <3>4, <3>5, <3>6, <3>7, <3>8 DEF TypeOK
  <1>4. BudgetHolds
    BY <1>1 DEF BudgetHolds
  <1>5. ThreadsApart /\ LeadAlone
    BY <1>1 DEF ThreadsApart, LeadAlone, Busy, Idle, Init
  <1>6. RepliesKnown /\ ReceiptsTrue
    BY <1>1 DEF RepliesKnown, ReceiptsTrue, Idle, Init
  <1>7. SettledTruthfully
    BY <1>1 DEF SettledTruthfully, IndexTruthful, LooseEndsBelong, Init
  <1>8. GrantsPaid
    BY DEF GrantsPaid, Init
  <1>9. SendingsCounted
    <2>1. Cardinality({}) = 0
      BY FS_EmptySet
    <2> QED
      BY <1>1, <2>1 DEF SendingsCounted, Idle, Init
  <1> QED
    BY <1>3, <1>4, <1>5, <1>6, <1>7, <1>8, <1>9 DEF IInv

LEMMA Invariance == Spec => []IInv
  <1>1. Init => IInv
    BY InitInv
  <1>2. IInv /\ [Next]_vars => IInv'
    BY TypeStep, BudgetStep, ApartStep, LeadStep, RepliesStep, ReceiptsStep, TruthStep, GrantsStep,
       SendingsStep DEF IInv
  <1> QED
    BY <1>1, <1>2, PTL DEF Spec

\* As many sendings as were granted, and the first: no more than failed.
LEMMA SendingsPaid == IInv => SentAgainOnlyAfterFailure
  <1> SUFFICES ASSUME IInv, NEW r \in Request
               PROVE  sent[r] <= 1 + Cardinality(failed[r])
    BY DEF SentAgainOnlyAfterFailure
  <1> DEFINE f == [g \in retried[r] |-> g - 1]
  <1>1. /\ retried[r] \subseteq 1..MaxAdmissions /\ failed[r] \subseteq 0..MaxAdmissions
        /\ sent[r] \in Nat /\ sent[r] <= 1 + Cardinality(retried[r])
        /\ \A g \in retried[r] : g - 1 \in failed[r]
        /\ IsFiniteSet(retried[r]) /\ Cardinality(retried[r]) \in Nat
    BY RetriedFinite DEF IInv, TypeOK, SendingsCounted, GrantsPaid
  <1>2. IsFiniteSet(failed[r])
    <2>1. IsFiniteSet(0..MaxAdmissions)
      BY CallAssumption, FS_Interval
    <2> QED
      BY <1>1, <2>1, FS_Subset
  <1>3. f \in [retried[r] -> failed[r]]
    BY <1>1
  <1>4. \A g, h \in retried[r] : f[g] = f[h] => g = h
    <2> SUFFICES ASSUME NEW g \in retried[r], NEW h \in retried[r], g - 1 = h - 1 PROVE g = h
      OBVIOUS
    <2>1. g \in Nat /\ h \in Nat
      BY <1>1, CallAssumption
    <2> QED
      BY <2>1
  <1> HIDE DEF f
  <1>5. f \in Injection(retried[r], failed[r])
    BY <1>3, <1>4 DEF Injection, IsInjective
  <1>6. Cardinality(retried[r]) <= Cardinality(failed[r])
    BY <1>2, <1>5, FS_Injection
  <1>7. Cardinality(failed[r]) \in Nat
    BY <1>2, FS_CardinalityType
  <1> QED
    BY <1>1, <1>6, <1>7

----------------------------------------------------------------------------
(* Theorems.                                                                *)

\* The index, the files and the threads keep their shape, and no page has
\* more than two attempts.
THEOREM TypeCorrect == Spec => []TypeOK
  <1>1. IInv => TypeOK
    BY DEF IInv
  <1> QED
    BY <1>1, Invariance, PTL

\* No page is asked for beyond its budget, and a pair of pages is reserved
\* wholly or not at all.
THEOREM BudgetAlways == Spec => []BudgetHolds
  <1>1. IInv => BudgetHolds
    BY DEF IInv
  <1> QED
    BY <1>1, Invariance, PTL

\* No two sendings of a request are paid for unless the earlier ones are
\* recorded as failed, whoever crashed, stopped, admitted or renewed.
THEOREM NeverPaidTwice == Spec => []SentAgainOnlyAfterFailure
  BY SendingsPaid, Invariance, PTL

\* The index, the drafts and the receipts say what the saved replies say, at
\* every point where a worker may die.
THEOREM AlwaysSettledTruthfully == Spec => []SettledTruthfully
  <1>1. IInv => SettledTruthfully
    BY DEF IInv
  <1> QED
    BY <1>1, Invariance, PTL
=============================================================================
