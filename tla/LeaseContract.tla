--------------------------- MODULE LeaseContract ---------------------------
(***************************************************************************)
(* What the slice ledger promises its workers: a slice has at most one     *)
(* owner, only the owner finishes it, it is finished once and for all, and *)
(* no more slices are owned than the limit in force when they were handed  *)
(* out.  The limit moves only while nothing is owned.  How a lease ends    *)
(* otherwise (expiry, failure, cancellation) is of no concern here.        *)
(***************************************************************************)
EXTENDS Naturals, FiniteSets

CONSTANTS Slice, Worker, None

VARIABLES
  owner,   \* owner[s]: the worker slice s is leased to, or None
  done,    \* the finished slices
  limit    \* how many slices may be owned at once

contractVars == <<owner, done, limit>>

Owned == {s \in Slice : owner[s] # None}

Init ==
  /\ owner = [s \in Slice |-> None]
  /\ done = {}
  /\ limit \in Nat \ {0}

HandOut(w, s) ==
  /\ owner[s] = None /\ s \notin done
  /\ Cardinality(Owned) < limit
  /\ owner' = [owner EXCEPT ![s] = w]
  /\ UNCHANGED <<done, limit>>

Finish(s) ==
  /\ owner[s] # None
  /\ owner' = [owner EXCEPT ![s] = None]
  /\ done' = done \cup {s}
  /\ UNCHANGED limit

Withdraw ==
  /\ \E S \in SUBSET Owned : owner' = [s \in Slice |-> IF s \in S THEN None ELSE owner[s]]
  /\ UNCHANGED <<done, limit>>

Resize ==
  /\ Owned = {}
  /\ limit' \in Nat \ {0}
  /\ UNCHANGED <<owner, done>>

Next ==
  \/ \E s \in Slice : Finish(s) \/ \E w \in Worker : HandOut(w, s)
  \/ Withdraw
  \/ Resize

Spec == Init /\ [][Next]_contractVars
=============================================================================
