------------------------------ MODULE PageCalls ------------------------------
(***************************************************************************)
(* The model calls that write the pages of a Reduce (split_page_calls.py,  *)
(* driven by native_page_pairs.py) and the recovery of calls whose outcome *)
(* is unknown (page_transport_recovery.py).                                *)
(*                                                                         *)
(* A call is paid for, so it must not be made twice: before it is sent, a  *)
(* request for one or two pages is reserved in an index; what is returned  *)
(* is saved, and settled page by page into drafts and receipts.  One       *)
(* worker process runs at a time.  It first goes through the requests it   *)
(* finds, one after the other, then makes new calls on several threads.    *)
(* It may die anywhere; a page settles in three writes.                    *)
(*                                                                         *)
(* An operator's stop starts a new epoch, an automatic one does not.  A    *)
(* call that failed without any output can be granted one more sending;    *)
(* each grant goes with a new task of the worker, a new generation.        *)
(*                                                                         *)
(* Reserving and settling hold the workflow's lock, which a stop needs.    *)
(* The index names a response after its file was written; readers find the *)
(* file anyhow, so the name is left out.  Left out too: whether two pages  *)
(* fit one request, their sizes, texts and images; the retries of one      *)
(* connection, which belong to one sending; which of several errors a      *)
(* worker reports.  What Hermes and the model do is external.              *)
(*                                                                         *)
(* An operator named X_Y is X with the mistake Y: no definition uses it;   *)
(* it shows what the properties would catch.                               *)
(***************************************************************************)
EXTENDS Naturals, Sequences, FiniteSets

CONSTANTS
  Page,           \* the pages of the Reduce
  Thread,         \* the threads that make calls
  Lead,           \* the thread that goes through the requests found
  NoRequest,      \* no request
  MaxStops,       \* bound: stops by an operator
  MaxAdmissions,  \* bound: new tasks for the worker
  MaxCrashes      \* bound: deaths of the worker

Request ==
  [pages: {S \in SUBSET Page : Cardinality(S) \in {1, 2}}, ordinal: {1, 2}]

ASSUME CallAssumption ==
  /\ IsFiniteSet(Page) /\ Lead \in Thread /\ NoRequest \notin Request
  /\ MaxStops \in Nat /\ MaxAdmissions \in Nat /\ MaxCrashes \in Nat

\* What validation makes of the slot of one page; the draft of a "correctable"
\* one may be asked for once more.
Verdict == {"valid", "correctable", "refused"}

VARIABLES
  attempts,    \* index: the attempts of every page, each a request and a state
  retried,     \* index: the generations in which a request was sent again
  answer,      \* the saved native reply of a request, its verdicts; or nothing
  responses,   \* the requests whose response is saved
  receipts,    \* the receipts saved, in the index or not yet
  draft,       \* the request a page's draft comes from
  failed,      \* the generations in which a call is recorded as failed
  granted,     \* the generation a request was last granted another sending for
  generation,  \* the worker's task, 0 for the first
  stopped,     \* whether the workflow is stopped
  epoch,       \* stops by an operator so far
  run,         \* the worker: "off", "recovering", "calling", "failing", "correcting"
  todo,        \* the requests found that are still to be gone through
  agenda,      \* the pages still to be asked for in this round
  thread,      \* what every thread is at
  sent,        \* how often a request was sent
  crashes      \* bounded count of crashes

index == <<attempts, retried>>
files == <<answer, responses, receipts, draft>>
recovery == <<failed, granted, generation>>
control == <<stopped, epoch>>
worker == <<run, todo, agenda, thread>>
vars == <<index, files, recovery, control, worker, sent, crashes>>

Nothing == <<>>
Idle == [at |-> "idle", request |-> NoRequest, epoch |-> 0, left |-> {}]
At(r, place) == [at |-> place, request |-> r, epoch |-> 0, left |-> {}]

Init ==
  /\ attempts = [k \in Page |-> <<>>] /\ retried = [r \in Request |-> {}]
  /\ answer = [r \in Request |-> Nothing] /\ responses = {} /\ receipts = {}
  /\ draft = [k \in Page |-> NoRequest]
  /\ failed = [r \in Request |-> {}] /\ granted = [r \in Request |-> 0] /\ generation = 0
  /\ stopped = FALSE /\ epoch = 0
  /\ run = "off" /\ todo = {} /\ agenda = {} /\ thread = [t \in Thread |-> Idle]
  /\ sent = [r \in Request |-> 0] /\ crashes = 0

\* The pages of r that are not settled, and the requests that have some.
Open(r) == {k \in r.pages : \E n \in DOMAIN attempts[k] :
                              attempts[k][n] = [request |-> r, state |-> "reserved"]}
Unsettled == {r \in Request : Open(r) # {}}

\* Requests without a saved response.
Unknown == Unsettled \ responses

(***************************************************************************)
(* The worker's threads.                                                   *)
(***************************************************************************)
\* An error ends a worker that is still recovering.  One that makes calls
\* goes on with its round, and reports the error after it.
RunAfterError == IF run = "recovering" THEN "off" ELSE "failing"

Raise(t) ==
  /\ thread' = [thread EXCEPT ![t] = Idle]
  /\ run' = RunAfterError
  /\ todo' = {}
  /\ UNCHANGED agenda

Reservable_Endless(k) ==
  attempts[k] # <<>> => attempts[k][Len(attempts[k])].state = "correctable"

\* The page was not asked for yet, or once and its draft can be corrected.
Reservable(k) ==
  attempts[k] # <<>> => Len(attempts[k]) < 2 /\ attempts[k][1].state = "correctable"

Group_Mixed(S) == (\A k \in S : Reservable(k)) /\ Cardinality(S) \in {1, 2}

\* Two pages go together only when neither was asked for before.
Group(S) ==
  /\ \A k \in S : Reservable(k)
  /\ Cardinality(S) = 1 \/ (Cardinality(S) = 2 /\ \A k \in S : attempts[k] = <<>>)

\* The request for the pages S, at their next ordinal.
RequestFor(S) ==
  [pages |-> S, ordinal |-> IF \A k \in S : attempts[k] = <<>> THEN 1 ELSE 2]

\* A thread takes one or two pages of the round.
Takes(t, S) ==
  /\ run \in {"calling", "failing", "correcting"} /\ thread[t].at = "idle"
  /\ S \subseteq agenda /\ Group(S)
  /\ agenda' = agenda \ S

Reserve(t, S) ==
  /\ Takes(t, S) /\ ~stopped
  /\ attempts' = [k \in Page |->
       IF k \in S THEN Append(attempts[k], [request |-> RequestFor(S), state |-> "reserved"])
                  ELSE attempts[k]]
  /\ thread' = [thread EXCEPT ![t] = At(RequestFor(S), "ready")]
  /\ UNCHANGED <<retried, files, recovery, control, run, todo, sent, crashes>>

ReserveRefused(t, S) ==
  /\ Takes(t, S) /\ stopped
  /\ run' = RunAfterError
  /\ UNCHANGED <<index, files, recovery, control, todo, thread, sent, crashes>>

\* The authority to call is checked once more; without it the request stays.
Send(t) ==
  LET r == thread[t].request IN
  /\ thread[t].at = "ready"
  /\ \/ /\ ~stopped
        /\ sent' = [sent EXCEPT ![r] = @ + 1]
        /\ thread' = [thread EXCEPT ![t].at = "called"]
        /\ UNCHANGED <<run, todo, agenda>>
     \/ stopped /\ Raise(t) /\ UNCHANGED sent
  /\ UNCHANGED <<index, files, recovery, control, crashes>>

\* The reply is saved with its native proof ...
Answer(t) ==
  LET r == thread[t].request IN
  /\ thread[t].at = "called"
  /\ \E verdicts \in [r.pages -> Verdict] : answer' = [answer EXCEPT ![r] = verdicts]
  /\ thread' = [thread EXCEPT ![t].at = "answered"]
  /\ UNCHANGED <<index, responses, receipts, draft, recovery, control, run, todo, agenda, sent, crashes>>

\* ... or the connection fails without any output, which is recorded ...
FailCall(t) ==
  LET r == thread[t].request IN
  /\ thread[t].at = "called"
  /\ failed' = [failed EXCEPT ![r] = @ \cup {generation}]
  /\ Raise(t)
  /\ UNCHANGED <<index, files, granted, generation, control, sent, crashes>>

\* ... or nobody knows how the call ended.
LoseCall(t) ==
  /\ thread[t].at = "called"
  /\ Raise(t)
  /\ UNCHANGED <<index, files, recovery, control, sent, crashes>>

\* Settling begins in the epoch it will insist on.
Settling(r) == [at |-> "settling", request |-> r, epoch |-> epoch, left |-> Open(r)]

\* The response is kept even when the workflow was stopped meanwhile.
Capture(t) ==
  LET r == thread[t].request IN
  /\ thread[t].at = "answered"
  /\ responses' = responses \cup {r}
  /\ \/ ~stopped /\ thread' = [thread EXCEPT ![t] = Settling(r)] /\ UNCHANGED <<run, todo, agenda>>
     \/ stopped /\ Raise(t)
  /\ UNCHANGED <<index, answer, receipts, draft, recovery, control, sent, crashes>>

SlotVerdict_Peer(r, k) == answer[r][CHOOSE j \in r.pages : j # k \/ r.pages = {k}]

SlotVerdict(r, k) == answer[r][k]

Saved(r, k) == {c \in receipts : c.page = k /\ c.request = r}

\* A receipt that an earlier settlement saved is taken as it is.
Receipt(r, k) ==
  IF Saved(r, k) # {} THEN CHOOSE c \in Saved(r, k) : TRUE
  ELSE [page |-> k, request |-> r, verdict |-> SlotVerdict(r, k)]

NewDraft_Unchecked(r, k) == IF Saved(r, k) = {} THEN [draft EXCEPT ![k] = r] ELSE draft

\* A draft is written before its receipt, and never over another.
NewDraft(r, k) ==
  IF Saved(r, k) = {} /\ Receipt(r, k).verdict = "valid" THEN [draft EXCEPT ![k] = r] ELSE draft

MaySettle(t, k) ==
  LET r == thread[t].request IN
  /\ thread[t].at = "settling" /\ k \in thread[t].left
  /\ ~stopped /\ thread[t].epoch = epoch
  /\ NewDraft(r, k) # draft => draft[k] = NoRequest

SettledAttempts(r, k) ==
  [attempts EXCEPT ![k][r.ordinal].state = Receipt(r, k).verdict]

Settle(t, k) ==
  LET r == thread[t].request
      rest == thread[t].left \ {k}
  IN  /\ MaySettle(t, k)
      /\ draft' = NewDraft(r, k)
      /\ receipts' = receipts \cup {Receipt(r, k)}
      /\ attempts' = SettledAttempts(r, k)
      /\ thread' = [thread EXCEPT ![t] = IF rest = {} THEN Idle ELSE [@ EXCEPT !.left = rest]]
      /\ todo' = IF rest = {} THEN todo \ {r} ELSE todo
      /\ UNCHANGED <<retried, answer, responses, recovery, control, run, agenda, sent, crashes>>

\* A stop, even one that is over, ends the settlement it met.
SettleRefused(t) ==
  /\ thread[t].at = "settling" /\ (stopped \/ thread[t].epoch # epoch)
  /\ Raise(t)
  /\ UNCHANGED <<index, files, recovery, control, sent, crashes>>

(***************************************************************************)
(* The worker goes through what it finds.                                  *)
(***************************************************************************)
Start ==
  /\ run = "off" /\ ~stopped
  /\ run' = "recovering" /\ todo' = Unsettled
  /\ UNCHANGED <<index, files, recovery, control, agenda, thread, sent, crashes>>

\* Request r is the next one; what the lead thread does about it.
IsNext(r) == run = "recovering" /\ thread[Lead].at = "idle" /\ r \in todo

RecoverResponse(r) ==
  /\ IsNext(r) /\ r \in responses
  /\ \/ ~stopped /\ thread' = [thread EXCEPT ![Lead] = Settling(r)] /\ UNCHANGED <<run, todo, agenda>>
     \/ stopped /\ Raise(Lead)
  /\ UNCHANGED <<index, files, recovery, control, sent, crashes>>

FindsReply_Never(r) == FALSE

FindsReply(r) == answer[r] # Nothing

RecoverReply(r) ==
  /\ IsNext(r) /\ r \notin responses /\ FindsReply(r)
  /\ thread' = [thread EXCEPT ![Lead] = At(r, "answered")]
  /\ UNCHANGED <<index, files, recovery, control, run, todo, agenda, sent, crashes>>

MayClaim_Again(r) == granted[r] > 0

\* A grant sends a request once.
MayClaim(r) == granted[r] > 0 /\ granted[r] \notin retried[r]

ClaimRetry(r) ==
  /\ IsNext(r) /\ r \notin responses /\ ~FindsReply(r) /\ MayClaim(r) /\ ~stopped
  /\ retried' = [retried EXCEPT ![r] = @ \cup {granted[r]}]
  /\ thread' = [thread EXCEPT ![Lead] = At(r, "ready")]
  /\ UNCHANGED <<attempts, files, recovery, control, run, todo, agenda, sent, crashes>>

\* The outcome is unknown and nothing allows another sending.
Held(r) ==
  /\ IsNext(r) /\ r \notin responses /\ ~FindsReply(r) /\ (~MayClaim(r) \/ stopped)
  /\ Raise(Lead)
  /\ UNCHANGED <<index, files, recovery, control, sent, crashes>>

\* The round of the pages that may be asked for; some may not fit a request.
BeginCalls ==
  /\ run = "recovering" /\ todo = {} /\ thread[Lead].at = "idle"
  /\ run' = "calling"
  /\ agenda' \in SUBSET {k \in Page : Reservable(k)}
  /\ UNCHANGED <<index, files, recovery, control, todo, thread, sent, crashes>>

RoundOver == agenda = {} /\ \A t \in Thread : thread[t].at = "idle"

\* A round without errors is followed by one for the corrections it calls for.
BeginCorrections ==
  /\ run = "calling" /\ RoundOver
  /\ run' = "correcting"
  /\ agenda' \in SUBSET {k \in Page : attempts[k] # <<>> /\ Reservable(k)}
  /\ UNCHANGED <<index, files, recovery, control, todo, thread, sent, crashes>>

End ==
  /\ run \in {"correcting", "failing"} /\ RoundOver
  /\ run' = "off"
  /\ UNCHANGED <<index, files, recovery, control, todo, agenda, thread, sent, crashes>>

Gone ==
  /\ run # "off" /\ crashes < MaxCrashes
  /\ run' = "off" /\ todo' = {} /\ agenda' = {} /\ thread' = [t \in Thread |-> Idle]
  /\ crashes' = crashes + 1

Crash ==
  /\ Gone
  /\ UNCHANGED <<index, files, recovery, control, sent>>

\* It dies after the draft, or after the receipt, before the index.
SettleDies(t, k) ==
  LET r == thread[t].request IN
  /\ MaySettle(t, k) /\ Gone
  /\ draft' = NewDraft(r, k)
  /\ receipts' \in {receipts, receipts \cup {Receipt(r, k)}}
  /\ UNCHANGED <<index, answer, responses, recovery, control, sent>>

(***************************************************************************)
(* Stops, and the admission of another sending.                            *)
(***************************************************************************)
Stop ==
  /\ epoch < MaxStops
  /\ stopped' = TRUE /\ epoch' = epoch + 1
  /\ UNCHANGED <<index, files, recovery, worker, sent, crashes>>

\* The recovery controller stops an ended worker's workflow to recover it.
StopToRecover ==
  /\ ~stopped /\ run = "off"
  /\ \E r \in Unknown : generation \in failed[r]
  /\ stopped' = TRUE
  /\ UNCHANGED <<index, files, recovery, epoch, worker, sent, crashes>>

Resume ==
  /\ stopped /\ stopped' = FALSE
  /\ UNCHANGED <<index, files, recovery, epoch, worker, sent, crashes>>

\* The call failed without output in the worker's current task.
Failed(r) == generation \in failed[r] /\ answer[r] = Nothing

\* Every unknown request must have failed so; all of them are granted.
Admit ==
  /\ stopped /\ run = "off" /\ generation < MaxAdmissions
  /\ Unknown # {} /\ \A r \in Unknown : Failed(r)
  /\ generation' = generation + 1
  /\ granted' = [r \in Request |-> IF r \in Unknown THEN generation + 1 ELSE granted[r]]
  /\ UNCHANGED <<index, files, failed, control, worker, sent, crashes>>

\* A worker that was stopped is replaced by a new task, which grants nothing.
Renew ==
  /\ stopped /\ run = "off" /\ generation < MaxAdmissions
  /\ generation' = generation + 1
  /\ UNCHANGED <<index, files, failed, granted, control, worker, sent, crashes>>

\* What a thread of the pool, and what the worker itself does.
ThreadStep(t) ==
  \/ \E S \in SUBSET Page : Reserve(t, S) \/ ReserveRefused(t, S)
  \/ Send(t)
  \/ Answer(t) \/ FailCall(t) \/ LoseCall(t)
  \/ Capture(t)
  \/ \E k \in Page : Settle(t, k)
  \/ SettleRefused(t)

WorkerStep ==
  \/ Start
  \/ \E r \in Request : RecoverResponse(r) \/ RecoverReply(r) \/ ClaimRetry(r) \/ Held(r)
  \/ BeginCalls
  \/ BeginCorrections
  \/ End

Next ==
  \/ WorkerStep
  \/ \E t \in Thread : ThreadStep(t)
  \/ Crash
  \/ \E t \in Thread, k \in Page : SettleDies(t, k)
  \/ Stop
  \/ StopToRecover
  \/ Resume
  \/ Admit
  \/ Renew

Spec == Init /\ [][Next]_vars

\* The worker is started again (by Hermes, or by an operator after an error)
\* and goes on: a call ends one way or another, and the pool of threads takes
\* every page of a round.  Nobody need stop, resume or admit anything.
FairSpec ==
  /\ Spec
  /\ WF_vars(WorkerStep)
  /\ \A t \in Thread : WF_vars(ThreadStep(t))
----------------------------------------------------------------------------
(* Properties.                                                              *)

TypeOK ==
  /\ attempts \in [Page -> UNION {[1..n -> [request: Request, state: {"reserved"} \cup Verdict]] :
                                    n \in 0..2}]
  /\ retried \in [Request -> SUBSET (1..MaxAdmissions)]
  /\ DOMAIN answer = Request
  /\ \A r \in Request : answer[r] = Nothing \/ answer[r] \in [r.pages -> Verdict]
  /\ responses \subseteq Request
  /\ receipts \subseteq [page: Page, request: Request, verdict: Verdict]
  /\ draft \in [Page -> Request \cup {NoRequest}]
  /\ failed \in [Request -> SUBSET (0..MaxAdmissions)]
  /\ granted \in [Request -> 0..MaxAdmissions] /\ generation \in 0..MaxAdmissions
  /\ stopped \in BOOLEAN /\ epoch \in 0..MaxStops
  /\ run \in {"off", "recovering", "calling", "failing", "correcting"}
  /\ todo \subseteq Request /\ agenda \subseteq Page
  /\ thread \in [Thread -> [at: {"idle", "ready", "called", "answered", "settling"},
                            request: Request \cup {NoRequest}, epoch: 0..MaxStops,
                            left: SUBSET Page]]
  /\ sent \in [Request -> Nat] /\ crashes \in 0..MaxCrashes

\* A call is made again only after every earlier sending of it is recorded as
\* failed without output: crashes, stops, restarts and grants that are used
\* late or twice never pay for a page a second time.
SentAgainOnlyAfterFailure ==
  \A r \in Request : sent[r] <= 1 + Cardinality(failed[r])

\* The budget of a page: two attempts, the second only for a draft that can
\* be corrected, and a request stands at the same ordinal of each of its
\* pages, so that a pair is reserved wholly or not at all.
BudgetHolds ==
  \A k \in Page :
    /\ Len(attempts[k]) = 2 => attempts[k][1].state = "correctable"
    /\ \A n \in DOMAIN attempts[k] :
         LET r == attempts[k][n].request IN
         /\ k \in r.pages /\ r.ordinal = n
         /\ \A j \in r.pages : n \in DOMAIN attempts[j] /\ attempts[j][n].request = r

\* What the index says of a page is what its own slot of its own request's
\* reply was found to be, and a valid page has its draft from that reply.
IndexTruthful ==
  \A k \in Page : \A n \in DOMAIN attempts[k] :
    LET a == attempts[k][n] IN
    /\ a.state # "reserved" => a.request \in responses /\ answer[a.request][k] = a.state
    /\ a.state = "valid" => draft[k] = a.request

\* A draft or a receipt that is on disk before the index knows of it belongs
\* to the attempt that is open, so it is never in the way.
LooseEndsBelong ==
  \A k \in Page :
    /\ draft[k] # NoRequest =>
         LET r == draft[k] IN r.ordinal = Len(attempts[k]) /\ answer[r] # Nothing /\
           attempts[k][r.ordinal].request = r /\ answer[r][k] = "valid"
    /\ \A c \in receipts : c.page = k /\ c.verdict = "valid" => draft[k] = c.request

\* Index, drafts and receipts agree with the replies that were saved.
SettledTruthfully == IndexTruthful /\ LooseEndsBelong

\* Replies that were saved are settled in the end, although workers die and
\* operators stop them, unless a request of unknown outcome is in the way or
\* the workflow stays stopped.
SavedSettle ==
  <>[](~stopped /\ Unknown = {r \in Unknown : answer[r] # Nothing}) => <>[](Unsettled = {})
=============================================================================
