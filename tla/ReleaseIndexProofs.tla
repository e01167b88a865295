------------------------ MODULE ReleaseIndexProofs ------------------------
(***************************************************************************)
(* What ReleaseIndex promises, for any number of callers, recalls,         *)
(* windows, releases, rebuilds and breakdowns.                             *)
(***************************************************************************)
EXTENDS ReleaseIndex, FiniteSetTheorems, WellFoundedInduction, TLAPS

StoreRecord ==
  [vectors : SUBSET (1..Windows), saved : SUBSET (1..Windows),
   bm25 : {"none", "torn", "whole"}, listed : BOOLEAN]

\* The places of a sync in a directory it fills, and with the lock.
Filling == {"embedding", "saving", "bm25", "verifying", "listing", "selecting"}
Locked == Filling \cup {"reading", "reusing", "selected"}
Places == Locked \cup {"none", "asked"}

SyncRecord ==
  [at : Places, sent : 0..MaxRelease, rebuild : 0..MaxRebuild,
   to : Generation \cup {NoGeneration}]

CallerRecord ==
  [at : {"idle", "identified", "waiting", "answered", "confirmed", "written"},
   saw : 0..MaxRelease, last : 0..MaxCall, status : Status, got : 0..MaxRelease]

VaultRecord == [status : Status, of : 0..MaxRelease, last : 0..MaxCall]

RecallRecord ==
  [at : {"idle", "comparing", "opening"}, has : Generation \cup {NoGeneration}]

(***************************************************************************)
(* The parts of the inductive invariant.                                   *)
(***************************************************************************)
\* Who is at work in the store holds the lock, and nobody asks twice.
LockHeld ==
  \A c \in Caller :
    /\ sync[c].at \in Locked => lock = c
    /\ caller[c].at = "identified" => sync[c].at = "none"

\* The callers that may still write a success down.
Asking ==
  {c \in Caller : caller[c].at \in {"identified", "waiting", "answered", "confirmed"}}

CallsCounted == successes + Cardinality(Asking) <= calls

\* A window is recorded after its vectors are there.
SavedAfterVectors == \A g \in Generation : store[g].saved \subseteq store[g].vectors

\* Selections follow the releases and never go back.
Forward ==
  /\ selected[1] <= release
  /\ \A r \in Recall : recall[r].has[1] <= selected[1]
  /\ \A c \in Caller :
       /\ sync[c].at \in Filling => selected[1] <= sync[c].sent /\ sync[c].sent <= release
       /\ sync[c].at \in {"reusing", "selected"} => selected[1] = sync[c].sent

\* The directory of a rebuild is its own until it is selected.
OwnDirectories ==
  /\ \A c \in Caller : sync[c].rebuild <= rebuilds
  /\ \A c, d \in Caller : c # d /\ sync[c].rebuild # 0 => sync[c].rebuild # sync[d].rebuild
  /\ \A g \in Serving : g[2] <= rebuilds
  /\ \A c \in Caller : sync[c].rebuild # 0 /\ sync[c].at # "selected" =>
       \A g \in Serving : g[2] # sync[c].rebuild

\* How far a directory t is when the sync that fills it is at a place.
Remaining(t) == 1..Windows \ (t.saved \cap t.vectors)
First(t) == CHOOSE w \in Remaining(t) : \A v \in Remaining(t) : w <= v
Progress(at, t) ==
  /\ at = "saving" => Remaining(t) # {} /\ First(t) \in t.vectors
  /\ at \in {"bm25", "verifying", "listing", "selecting"} => t.saved = 1..Windows
  /\ at \in {"verifying", "listing", "selecting"} => t.bm25 = "whole"
  /\ at = "selecting" => t.listed

\* What is filled is not in service.
FillingApart ==
  \A c \in Caller : sync[c].at \in Filling =>
    /\ sync[c].to = <<sync[c].sent, sync[c].rebuild>>
    /\ sync[c].to \in Generation \ Serving
    /\ Progress(sync[c].at, store[sync[c].to])

\* A ready answer, wherever it is on its way, is of a release that was selected.
Claims ==
  /\ \A c \in Caller : caller[c].status = "ready" => caller[c].got <= selected[1]
  /\ scratch # <<>> /\ scratch[1].status = "ready" => scratch[1].of <= selected[1]
  /\ manifest.status = "ready" => manifest.of <= selected[1]

Store == SavedAfterVectors /\ ServedWhole /\ FillingApart
IInv ==
  /\ IndexTypeOK /\ LockHeld /\ CallsCounted
  /\ Store /\ Forward /\ OwnDirectories /\ Claims

(***************************************************************************)
(* Facts about the operators.                                              *)
(***************************************************************************)
LEMMA Types ==
  ASSUME IndexTypeOK
  PROVE  /\ release \in Release /\ store \in [Generation -> StoreRecord]
         /\ selected \in Generation \cup {NoGeneration} /\ lock \in Caller \cup {Nobody}
         /\ sync \in [Caller -> SyncRecord] /\ caller \in [Caller -> CallerRecord]
         /\ manifest \in VaultRecord /\ (scratch = <<>> \/ scratch[1] \in VaultRecord)
         /\ recall \in [Recall -> RecallRecord]
         /\ calls \in 0..MaxCall /\ rebuilds \in 0..MaxRebuild
         /\ breaks \in 0..MaxBreak /\ successes \in 0..MaxCall
  BY DEF IndexTypeOK, StoreRecord, SyncRecord, CallerRecord, VaultRecord, RecallRecord,
         Places, Locked, Filling

LEMMA TypesNext ==
  ASSUME release' \in Release, store' \in [Generation -> StoreRecord],
         selected' \in Generation \cup {NoGeneration}, lock' \in Caller \cup {Nobody},
         sync' \in [Caller -> SyncRecord], caller' \in [Caller -> CallerRecord],
         manifest' \in VaultRecord, scratch' = <<>> \/ scratch'[1] \in VaultRecord,
         recall' \in [Recall -> RecallRecord],
         calls' \in 0..MaxCall, rebuilds' \in 0..MaxRebuild,
         breaks' \in 0..MaxBreak, successes' \in 0..MaxCall
  PROVE  IndexTypeOK'
  BY DEF IndexTypeOK, StoreRecord, SyncRecord, CallerRecord, VaultRecord, RecallRecord,
         Places, Locked, Filling

\* A generation is of a release; no generation is of none.
LEMMA Generations ==
  /\ \A g \in Generation : g[1] \in Release /\ g[2] \in 0..MaxRebuild /\ g = <<g[1], g[2]>>
  /\ NoGeneration[1] = 0 /\ NoGeneration[2] = 0 /\ NoGeneration \notin Generation
  /\ Release \subseteq 1..MaxRelease /\ Release \subseteq Nat
  /\ \A n \in Release : \A k \in 0..MaxRebuild : <<n, k>> \in Generation
  /\ \A n, k : <<n, k>>[1] = n /\ <<n, k>>[2] = k
  BY BoundAssumption DEF Generation, NoGeneration, Release

\* The first window that remains is one of those that remain.
LEMMA FirstRemains ==
  ASSUME NEW t, Remaining(t) # {}
  PROVE  First(t) \in Remaining(t)
  <1> DEFINE R == OpToRel(<, Nat)
  <1>1. Remaining(t) \subseteq Nat
    BY DEF Remaining
  <1>2. \A x, y \in Nat : <<x, y>> \in R <=> x < y
    BY DEF OpToRel
  <1>3. IsWellFoundedOn(R, Nat)
    BY NatLessThanWellFounded
  <1> HIDE DEF R
  <1>4. PICK w \in Remaining(t) : \A v \in Remaining(t) : ~ <<v, w>> \in R
    BY <1>1, <1>3, WFMin
  <1>5. w \in Nat /\ \A v \in Remaining(t) : v \in Nat /\ w <= v
    <2>1. \A v \in Remaining(t) : v \in Nat
      BY <1>1
    <2>2. \A v \in Remaining(t) : ~(v < w)
      BY <1>2, <1>4, <2>1
    <2> QED
      BY <2>1, <2>2
  <1> QED
    BY <1>5 DEF First

LEMMA NextRemains ==
  \A g : Missing(g) = Remaining(store[g]) /\ NextWindow(g) = First(store[g])
  BY DEF Missing, Verified, NextWindow, Remaining, First

LEMMA AskingFinite ==
  IsFiniteSet(Asking) /\ Cardinality(Asking) \in Nat
  <1>1. Asking \subseteq Caller
    BY DEF Asking
  <1>2. IsFiniteSet(Asking)
    BY <1>1, CallerAssumption, FS_Subset
  <1> QED
    BY <1>2, FS_CardinalityType

\* Only one is at work in the store.
LEMMA OneAtWork ==
  ASSUME LockHeld, NEW c \in Caller, NEW d \in Caller,
         sync[c].at \in Locked, sync[d].at \in Locked
  PROVE  c = d
  BY DEF LockHeld

(***************************************************************************)
(* What a step leaves alone stays true.                                    *)
(***************************************************************************)
LEMMA StoreSame == Store /\ UNCHANGED <<index, recall>> => Store'
  BY DEF Store, SavedAfterVectors, ServedWhole, FillingApart, Serving, Whole, index

LEMMA OwnSame ==
  OwnDirectories /\ UNCHANGED <<index, recall, rebuilds>> => OwnDirectories'
  BY DEF OwnDirectories, Serving, index

LEMMA ForwardSame ==
  ASSUME IndexTypeOK, Forward, UNCHANGED <<index, recall>>,
         release' \in Release, release <= release'
  PROVE  Forward'
  <1>1. \A c \in Caller : sync[c].sent \in Nat
    BY Types, BoundAssumption DEF SyncRecord
  <1>2. selected[1] \in Nat /\ release \in Nat /\ release' \in Nat
    BY Types, Generations DEF Release
  <1> QED
    BY <1>1, <1>2 DEF Forward, index

\* Fewer callers are asking.
LEMMA CountSame ==
  ASSUME CallsCounted, Asking' \subseteq Asking, UNCHANGED <<calls, successes>>,
         calls \in Nat, successes \in Nat
  PROVE  CallsCounted'
  <1>1. /\ IsFiniteSet(Asking) /\ Cardinality(Asking) \in Nat
        /\ Cardinality(Asking') <= Cardinality(Asking) /\ IsFiniteSet(Asking')
    BY AskingFinite, FS_Subset
  <1>2. Cardinality(Asking') \in Nat
    BY <1>1, FS_CardinalityType
  <1> QED
    BY <1>1, <1>2 DEF CallsCounted

LEMMA LockSame ==
  ASSUME LockHeld, UNCHANGED <<lock, sync>>,
         \A c \in Caller : caller'[c].at = "identified" =>
           caller[c].at = "identified" \/ sync[c].at = "none"
  PROVE  LockHeld'
  BY DEF LockHeld

\* A caller is put in another state.
LEMMA CallerSet ==
  ASSUME IndexTypeOK, NEW c \in Caller, NEW s \in CallerRecord,
         caller' = [caller EXCEPT ![c] = s]
  PROVE  /\ caller' \in [Caller -> CallerRecord] /\ caller'[c] = s
         /\ \A d \in Caller : d # c => caller'[d] = caller[d]
         /\ Asking' = IF s.at \in {"identified", "waiting", "answered", "confirmed"}
                      THEN Asking \cup {c} ELSE Asking \ {c}
  <1>1. /\ caller' \in [Caller -> CallerRecord] /\ caller'[c] = s
        /\ \A d \in Caller : d # c => caller'[d] = caller[d]
    BY Types
  <1> QED
    BY <1>1 DEF Asking

LEMMA IdleRecord ==
  Idle \in CallerRecord /\ Idle.at = "idle" /\ Idle.status = "none"
  BY BoundAssumption DEF Idle, CallerRecord, Status

(***************************************************************************)
(* The Vault and the callers.                                              *)
(***************************************************************************)
LEMMA ApplyReleaseKeeps == IInv /\ ApplyRelease => IInv'
  <1> SUFFICES ASSUME IInv, ApplyRelease PROVE IInv'
    OBVIOUS
  <1>1. /\ release < MaxRelease /\ release' = release + 1
        /\ UNCHANGED <<index, manifest, scratch, caller, recall, counts>>
    BY DEF ApplyRelease
  <1>2. IndexTypeOK
    BY DEF IInv
  <1>3. release' \in Release /\ release <= release'
    BY <1>1, <1>2, BoundAssumption DEF IndexTypeOK, Release
  <1>4. IndexTypeOK'
    BY <1>1, <1>2, <1>3 DEF IndexTypeOK, index, counts
  <1>5. Store' /\ OwnDirectories' /\ Forward'
    BY <1>1, <1>2, <1>3, StoreSame, OwnSame, ForwardSame DEF IInv, counts
  <1>6. LockHeld' /\ CallsCounted' /\ Claims'
    BY <1>1 DEF IInv, LockHeld, CallsCounted, Asking, Claims, index, counts
  <1> QED
    BY <1>4, <1>5, <1>6 DEF IInv

\* A step of one caller, to a state s, that does not touch the index.
LEMMA CallerMoves ==
  ASSUME IInv, NEW c \in Caller, NEW s \in CallerRecord,
         caller' = [caller EXCEPT ![c] = s],
         s.at = "identified" => caller[c].at = "identified" \/ sync[c].at = "none",
         s.status = "ready" => s.got <= selected[1],
         UNCHANGED <<index, release, recall, rebuilds>>,
         manifest' \in VaultRecord, scratch' = <<>> \/ scratch'[1] \in VaultRecord,
         calls' \in 0..MaxCall, breaks' \in 0..MaxBreak, successes' \in 0..MaxCall,
         scratch' # <<>> /\ scratch'[1].status = "ready" => scratch'[1].of <= selected[1],
         manifest'.status = "ready" => manifest'.of <= selected[1],
         CallsCounted'
  PROVE  IInv'
  <1>1. IndexTypeOK
    BY DEF IInv
  <1>2. /\ caller' \in [Caller -> CallerRecord] /\ caller'[c] = s
        /\ \A d \in Caller : d # c => caller'[d] = caller[d]
    BY <1>1, CallerSet
  <1>3. IndexTypeOK'
    <2>1. UNCHANGED <<store, selected, lock, sync, release, recall, rebuilds>>
      BY DEF index
    <2> QED
      BY <1>1, <1>2, <2>1, Types, TypesNext
  <1>4. release \in Nat
    BY <1>1 DEF IndexTypeOK, Release
  <1>5. Store' /\ OwnDirectories' /\ Forward'
    BY <1>1, <1>3, <1>4, StoreSame, OwnSame, ForwardSame, Types DEF IInv
  <1>6. LockHeld'
    BY <1>2, LockSame DEF IInv, index
  <1>7. Claims'
    BY <1>2 DEF IInv, Claims, index
  <1> QED
    BY <1>3, <1>5, <1>6, <1>7 DEF IInv

LEMMA IdentifiedRecord ==
  ASSUME NEW x, NEW n
  PROVE  [Idle EXCEPT !.at = "identified", !.saw = x, !.last = n] =
         [at |-> "identified", saw |-> x, last |-> n, status |-> "none", got |-> 0]
  <1>1. [Idle EXCEPT !.at = "identified"] =
        [at |-> "identified", saw |-> 0, last |-> 0, status |-> "none", got |-> 0]
    BY DEF Idle
  <1>2. [[at |-> "identified", saw |-> 0, last |-> 0, status |-> "none", got |-> 0]
           EXCEPT !.saw = x] =
        [at |-> "identified", saw |-> x, last |-> 0, status |-> "none", got |-> 0]
    OBVIOUS
  <1>3. [[at |-> "identified", saw |-> x, last |-> 0, status |-> "none", got |-> 0]
           EXCEPT !.last = n] =
        [at |-> "identified", saw |-> x, last |-> n, status |-> "none", got |-> 0]
    OBVIOUS
  <1> QED
    BY <1>1, <1>2, <1>3

LEMMA IdentifyKeeps == ASSUME IInv, NEW c \in Caller, Identify(c) PROVE IInv'
  <1> DEFINE s == [Idle EXCEPT !.at = "identified", !.saw = release,
                   !.last = IF c \in Script THEN manifest.last ELSE 0]
  <1>1. /\ caller[c].at = "idle" /\ sync[c].at = "none" /\ calls < MaxCall
        /\ calls' = calls + 1 /\ caller' = [caller EXCEPT ![c] = s]
        /\ UNCHANGED <<index, vault, recall, rebuilds, breaks, successes>>
    BY DEF Identify
  <1>2. IndexTypeOK
    BY DEF IInv
  <1>3. s \in CallerRecord /\ s.at = "identified" /\ s.status = "none"
    <2>1. s = [at |-> "identified", saw |-> release,
               last |-> IF c \in Script THEN manifest.last ELSE 0, status |-> "none", got |-> 0]
      BY IdentifiedRecord
    <2>2. release \in 0..MaxRelease /\ manifest.last \in 0..MaxCall /\ 0 \in 0..MaxCall
          /\ 0 \in 0..MaxRelease
      BY <1>2, BoundAssumption DEF IndexTypeOK, Release
    <2> HIDE DEF s
    <2> QED
      BY <2>1, <2>2 DEF CallerRecord, Status
  <1> HIDE DEF s
  <1>4. calls \in Nat /\ successes \in Nat /\ calls' \in 0..MaxCall
    BY <1>1, <1>2, BoundAssumption DEF IndexTypeOK
  <1>5. CallsCounted'
    <2>1. Asking' = Asking \cup {c} /\ c \notin Asking
      BY <1>1, <1>2, <1>3, CallerSet DEF Asking
    <2>2. Cardinality(Asking') = Cardinality(Asking) + 1 /\ Cardinality(Asking) \in Nat
      BY <2>1, AskingFinite, FS_AddElement
    <2> QED
      BY <1>1, <1>4, <2>2 DEF IInv, CallsCounted
  <1> QED
    BY <1>1, <1>2, <1>3, <1>4, <1>5, CallerMoves, Types DEF IInv, Claims, vault

\* A caller that is no longer asking, or asks on, is counted.
LEMMA StillCounted ==
  ASSUME IInv, NEW c \in Caller, NEW s \in CallerRecord,
         caller' = [caller EXCEPT ![c] = s],
         c \in Asking \/ s.at \notin {"identified", "waiting", "answered", "confirmed"},
         UNCHANGED <<calls, successes>>
  PROVE  CallsCounted'
  <1>1. IndexTypeOK
    BY DEF IInv
  <1>2. Asking' \subseteq Asking
    <2>1. Asking' = IF s.at \in {"identified", "waiting", "answered", "confirmed"}
                    THEN Asking \cup {c} ELSE Asking \ {c}
      BY <1>1, CallerSet
    <2> QED
      BY <2>1
  <1>3. calls \in Nat /\ successes \in Nat
    BY <1>1, BoundAssumption DEF IndexTypeOK
  <1> QED
    BY <1>2, <1>3, CountSame DEF IInv

LEMMA ConfirmKeeps == ASSUME IInv, NEW c \in Caller, Confirm(c) PROVE IInv'
  <1> DEFINE s == IF release = caller[c].saw
                  THEN [caller[c] EXCEPT !.at = "confirmed", !.last = manifest.last] ELSE Idle
  <1>1. /\ caller[c].at = "answered" /\ caller' = [caller EXCEPT ![c] = s]
        /\ UNCHANGED <<index, vault, recall, counts>>
    BY DEF Confirm
  <1>2. IndexTypeOK /\ caller[c] \in CallerRecord /\ manifest \in VaultRecord
    BY Types DEF IInv
  <1>3. /\ s \in CallerRecord /\ s.at # "identified"
        /\ s.status = "ready" => s.status = caller[c].status /\ s.got = caller[c].got
    BY <1>2, IdleRecord DEF CallerRecord, VaultRecord
  <1> HIDE DEF s
  <1>4. CallsCounted'
    BY <1>1, <1>3, StillCounted DEF Asking, counts
  <1> QED
    BY <1>1, <1>2, <1>3, <1>4, CallerMoves, Types DEF IInv, Claims, vault, counts

LEMMA CallerDiesKeeps == ASSUME IInv, NEW c \in Caller, CallerDies(c) PROVE IInv'
  <1>1. /\ caller' = [caller EXCEPT ![c] = Idle] /\ breaks < MaxBreak /\ breaks' = breaks + 1
        /\ UNCHANGED <<index, vault, recall, calls, rebuilds, successes>>
    BY DEF CallerDies, Broken
  <1>2. IndexTypeOK
    BY DEF IInv
  <1>3. breaks' \in 0..MaxBreak
    BY <1>1, <1>2, BoundAssumption DEF IndexTypeOK
  <1>4. CallsCounted'
    BY <1>1, IdleRecord, StillCounted
  <1> QED
    BY <1>1, <1>2, <1>3, <1>4, IdleRecord, CallerMoves, Types DEF IInv, Claims, vault

LEMMA WriteScratchKeeps == ASSUME IInv, NEW c \in Caller, WriteScratch(c) PROVE IInv'
  <1> DEFINE s == [caller[c] EXCEPT !.at = "written"]
  <1>1. /\ caller[c].at \in {"confirmed", "answered"}
        /\ scratch' = <<Portable(c)>>
        /\ successes' = IF caller[c].status = "ready" THEN successes + 1 ELSE successes
        /\ caller' = [caller EXCEPT ![c] = s]
        /\ UNCHANGED <<index, release, manifest, recall, calls, rebuilds, breaks>>
    BY DEF WriteScratch
  <1>2. IndexTypeOK /\ caller[c] \in CallerRecord
    BY Types DEF IInv
  <1>3. /\ s \in CallerRecord /\ s.at = "written" /\ s.status = caller[c].status
        /\ s.got = caller[c].got
    BY <1>2 DEF CallerRecord
  <1> HIDE DEF s
  <1>4. calls \in Nat /\ successes \in Nat /\ calls <= MaxCall /\ MaxCall \in Nat
    BY <1>2, BoundAssumption DEF IndexTypeOK
  <1>5. /\ Cardinality(Asking') = Cardinality(Asking) - 1
        /\ Cardinality(Asking') \in Nat /\ Cardinality(Asking) \in Nat
    <2>1. Asking' = Asking \ {c} /\ c \in Asking
      BY <1>1, <1>2, <1>3, CallerSet DEF Asking
    <2> QED
      BY <2>1, AskingFinite, FS_RemoveElement, FS_CardinalityType
  <1>6. successes + 1 <= MaxCall /\ CallsCounted'
    BY <1>1, <1>4, <1>5 DEF IInv, CallsCounted
  <1>7. /\ Portable(c) \in VaultRecord /\ Portable(c).status = caller[c].status
        /\ Portable(c).of = caller[c].got
    BY <1>2, <1>4, <1>6 DEF Portable, VaultRecord, CallerRecord
  <1>8. scratch'[1] = Portable(c)
    BY <1>1
  <1>9. successes' \in 0..MaxCall
    BY <1>1, <1>2, <1>4, <1>6
  <1> QED
    BY <1>1, <1>2, <1>3, <1>4, <1>6, <1>7, <1>8, <1>9, CallerMoves, Types DEF IInv, Claims

LEMMA RenameKeeps == ASSUME IInv, NEW c \in Caller, Rename(c) PROVE IInv'
  <1>1. /\ manifest' = IF scratch = <<>> THEN manifest ELSE scratch[1]
        /\ scratch' = <<>> /\ caller' = [caller EXCEPT ![c] = Idle]
        /\ UNCHANGED <<index, release, recall, counts>>
    BY DEF Rename
  <1>2. IndexTypeOK
    BY DEF IInv
  <1>3. CallsCounted'
    BY <1>1, IdleRecord, StillCounted DEF counts
  <1> QED
    BY <1>1, <1>2, <1>3, IdleRecord, CallerMoves, Types DEF IInv, Claims, counts

(***************************************************************************)
(* The Provider: the end of a sync, and the steps of one that has the      *)
(* lock.                                                                   *)
(***************************************************************************)
LEMMA NoSyncRecord ==
  NoSync \in SyncRecord /\ NoSync.at = "none" /\ NoSync.rebuild = 0
  BY BoundAssumption DEF NoSync, SyncRecord, Places

\* What the answer makes of the caller.
LEMMA AnsweredCaller ==
  ASSUME IndexTypeOK, NEW c \in Caller, NEW status \in Status, NEW of \in 0..MaxRelease,
         NEW to, to = Answered(c, status, of)
  PROVE  /\ to \in [Caller -> CallerRecord]
         /\ \A d \in Caller : d # c => to[d] = caller[d]
         /\ to[c] = caller[c] \/ to[c] = Idle
              \/ /\ caller[c].at = "waiting" /\ to[c].at = "answered"
                 /\ to[c].status = status /\ to[c].got = of
  <1> DEFINE one == [caller EXCEPT ![c].at = "answered"]
             two == [one EXCEPT ![c].status = status]
             three == [two EXCEPT ![c].got = of]
  <1>1. caller \in [Caller -> CallerRecord]
    BY Types
  <1>2. CASE to = caller
    BY <1>1, <1>2
  <1>3. CASE to = [caller EXCEPT ![c] = Idle]
    BY <1>1, <1>3, IdleRecord
  <1>4. CASE caller[c].at = "waiting" /\ to = three
    <2>1. /\ one \in [Caller -> CallerRecord] /\ one[c].at = "answered"
          /\ \A d \in Caller : d # c => one[d] = caller[d]
      BY <1>1 DEF CallerRecord
    <2> HIDE DEF one
    <2>2. /\ two \in [Caller -> CallerRecord] /\ two[c].at = "answered"
          /\ two[c].status = status /\ \A d \in Caller : d # c => two[d] = one[d]
      BY <2>1 DEF CallerRecord
    <2> HIDE DEF two
    <2>3. /\ three \in [Caller -> CallerRecord] /\ three[c].at = "answered"
          /\ three[c].status = status /\ three[c].got = of
          /\ \A d \in Caller : d # c => three[d] = two[d]
      BY <2>2 DEF CallerRecord
    <2> HIDE DEF three
    <2> QED
      BY <1>4, <2>1, <2>2, <2>3
  <1>5. to = caller \/ to = [caller EXCEPT ![c] = Idle] \/ (caller[c].at = "waiting" /\ to = three)
    BY DEF Answered
  <1> QED
    BY <1>2, <1>3, <1>4, <1>5

\* A sync that ends leaves the rest of the index alone.
LEMMA SyncEnds ==
  ASSUME IInv, NEW c \in Caller, sync' = [sync EXCEPT ![c] = NoSync],
         lock' = IF lock = c THEN Nobody ELSE lock,
         UNCHANGED <<store, selected, release, recall, rebuilds>>
  PROVE  Store' /\ Forward' /\ OwnDirectories'
  <1>1. sync \in [Caller -> SyncRecord]
    BY Types DEF IInv
  <1>2. sync'[c] = NoSync /\ \A d \in Caller : d # c => sync'[d] = sync[d]
    BY <1>1
  <1>3. Serving' = Serving
    BY DEF Serving
  <1>6. SavedAfterVectors' /\ ServedWhole'
    BY <1>3 DEF IInv, Store, SavedAfterVectors, ServedWhole, Whole
  <1>7. FillingApart'
    BY <1>2, <1>3, NoSyncRecord DEF IInv, Store, FillingApart, Filling
  <1>8. Forward'
    BY <1>2, NoSyncRecord DEF IInv, Forward, Filling
  <1>9. OwnDirectories'
    <2>1. rebuilds \in Nat
      BY BoundAssumption, Types DEF IInv
    <2> QED
      BY <1>2, <1>3, <2>1, NoSyncRecord DEF IInv, OwnDirectories
  <1> QED
    BY <1>6, <1>7, <1>8, <1>9 DEF Store

LEMMA EndKeeps ==
  ASSUME IInv, NEW c \in Caller, NEW status \in Status, NEW of \in 0..MaxRelease,
         End(c, status, of), status = "ready" => of <= selected[1],
         UNCHANGED <<store, selected, vault, recall, calls, rebuilds, successes>>,
         breaks' \in 0..MaxBreak
  PROVE  IInv'
  <1>1. /\ sync' = [sync EXCEPT ![c] = NoSync]
        /\ lock' = IF lock = c THEN Nobody ELSE lock
        /\ caller' = Answered(c, status, of)
    BY DEF End
  <1>2. IndexTypeOK /\ sync \in [Caller -> SyncRecord] /\ caller \in [Caller -> CallerRecord]
    BY Types DEF IInv
  <1>3. UNCHANGED <<release, manifest, scratch>>
    BY DEF vault
  <1>4. Store' /\ Forward' /\ OwnDirectories'
    BY <1>1, <1>3, SyncEnds
  <1>5. sync' \in [Caller -> SyncRecord]
        /\ sync'[c].at = "none" /\ \A d \in Caller : d # c => sync'[d] = sync[d]
    BY <1>1, <1>2, NoSyncRecord
  <1>6. /\ caller' \in [Caller -> CallerRecord]
        /\ Asking' \subseteq Asking
        /\ \A d \in Caller : caller'[d].at = "identified" => caller[d].at = "identified"
        /\ \A d \in Caller : caller'[d].status = "ready" => caller'[d].got <= selected[1]
    <2>1. /\ caller' \in [Caller -> CallerRecord]
          /\ \A d \in Caller : d # c => caller'[d] = caller[d]
          /\ caller'[c] = caller[c] \/ caller'[c] = Idle
              \/ /\ caller[c].at = "waiting" /\ caller'[c].at = "answered"
                 /\ caller'[c].status = status /\ caller'[c].got = of
      BY <1>1, <1>2, AnsweredCaller
    <2>2. Asking' \subseteq Asking
      BY <2>1, IdleRecord DEF Asking
    <2> QED
      BY <2>1, <2>2, IdleRecord DEF IInv, Claims
  <1>7. IndexTypeOK'
    <2>1. lock' \in Caller \cup {Nobody}
      BY <1>1, <1>2, Types
    <2> QED
      BY <1>2, <1>3, <1>5, <1>6, <2>1, Types, TypesNext
  <1>8. LockHeld'
    BY <1>1, <1>5, <1>6 DEF IInv, LockHeld, Locked, Filling
  <1>9. CallsCounted'
    <2>1. calls \in Nat /\ successes \in Nat
      BY <1>2, Types
    <2> QED
      BY <1>6, <2>1, CountSame DEF IInv
  <1>10. Claims'
    BY <1>3, <1>6 DEF IInv, Claims
  <1> QED
    BY <1>4, <1>7, <1>8, <1>9, <1>10 DEF IInv

LEMMA FailKeeps ==
  ASSUME IInv, NEW c \in Caller, Fail(c),
         UNCHANGED <<store, selected, vault, recall, calls, rebuilds, successes>>,
         breaks' \in 0..MaxBreak
  PROVE  IInv'
  BY EndKeeps, BoundAssumption DEF Fail, Status

LEMMA BreaksCounted ==
  ASSUME IInv, Broken \/ UNCHANGED breaks
  PROVE  breaks' \in 0..MaxBreak
  BY BoundAssumption, Types DEF IInv, Broken

LEMMA ProviderDiesKeeps == ASSUME IInv, NEW c \in Caller, ProviderDies(c) PROVE IInv'
  BY FailKeeps, BreaksCounted DEF ProviderDies

LEMMA AnswerKeeps == ASSUME IInv, NEW c \in Caller, Answer(c) PROVE IInv'
  <1>1. /\ sync[c].at = "selected" /\ End(c, "ready", sync[c].sent)
        /\ UNCHANGED <<store, selected, vault, recall, counts>>
    BY DEF Answer, At, ProviderKeeps
  <1>2. sync[c].sent \in 0..MaxRelease /\ sync[c].sent \in Nat
    BY Types DEF IInv, SyncRecord
  <1>3. sync[c].sent <= selected[1]
    BY <1>1, <1>2 DEF IInv, Forward
  <1>4. UNCHANGED <<calls, rebuilds, breaks, successes>>
    BY <1>1 DEF counts
  <1> QED
    BY <1>1, <1>2, <1>3, <1>4, EndKeeps, BreaksCounted DEF Status

\* A service that works on answers nobody.
LEMMA CallerTimesOutKeeps == ASSUME IInv, NEW c \in Caller, CallerTimesOut(c) PROVE IInv'
  <1>1. /\ breaks' \in 0..MaxBreak
        /\ UNCHANGED <<store, selected, vault, recall, calls, rebuilds, successes>>
    BY BreaksCounted DEF CallerTimesOut
  <1>2. CASE c \notin Http
    BY <1>1, <1>2, FailKeeps DEF CallerTimesOut
  <1>3. CASE c \in Http
    <2>1. caller' = Answered(c, "failed", 0) /\ UNCHANGED <<lock, sync>> /\ caller[c].at = "waiting"
      BY <1>3 DEF CallerTimesOut
    <2>2. IndexTypeOK /\ "failed" \in Status /\ 0 \in 0..MaxRelease
      BY BoundAssumption DEF IInv, Status
    <2>3. /\ caller' \in [Caller -> CallerRecord]
          /\ \A d \in Caller : d # c => caller'[d] = caller[d]
          /\ caller'[c] = caller[c] \/ caller'[c] = Idle
              \/ (caller'[c].at = "answered" /\ caller'[c].status = "failed")
      BY <2>1, <2>2, AnsweredCaller
    <2>4. Asking' \subseteq Asking
      BY <2>1, <2>3, IdleRecord DEF Asking
    <2>5. UNCHANGED <<index, release, manifest, scratch, recall>>
      BY <1>1, <2>1 DEF index, vault
    <2>6. IndexTypeOK'
      BY <1>1, <2>2, <2>3, <2>5, Types, TypesNext DEF index
    <2>7. Store' /\ OwnDirectories' /\ Forward'
      <3>1. release \in Nat /\ release' \in Release
        BY <2>2, <2>5, Types, Generations
      <3> QED
        BY <1>1, <2>2, <2>5, <3>1, StoreSame, OwnSame, ForwardSame DEF IInv
    <2>8. LockHeld'
      BY <2>1, <2>3, IdleRecord, LockSame DEF IInv
    <2>9. CallsCounted'
      BY <1>1, <2>2, <2>4, CountSame, Types DEF IInv
    <2>10. Claims'
      BY <2>3, <2>5, IdleRecord DEF IInv, Claims, index
    <2> QED
      BY <2>6, <2>7, <2>8, <2>9, <2>10 DEF IInv
  <1> QED
    BY <1>2, <1>3

(***************************************************************************)
(* A sync that has, or takes, the lock and moves to the record s, writing  *)
(* into no directory that is in service.                                   *)
(***************************************************************************)
LEMMA SyncMoves ==
  ASSUME IInv, NEW c \in Caller, NEW s \in SyncRecord,
         sync[c].at \notin {"none", "selected"}, s.at \in Locked,
         sync' = [sync EXCEPT ![c] = s], lock' = c,
         \A d \in Caller : d # c => sync[d].at \notin Locked,
         s.sent = sync[c].sent, s.rebuild = sync[c].rebuild,
         UNCHANGED <<selected, caller, vault, recall, counts>>,
         store' \in [Generation -> StoreRecord],
         \A g \in Serving : store'[g] = store[g],
         \A g \in Generation : store'[g].saved \subseteq store'[g].vectors,
         s.at \in Filling =>
           /\ selected[1] <= s.sent /\ s.sent <= release
           /\ s.to = <<s.sent, s.rebuild>> /\ s.to \in Generation \ Serving
           /\ Progress(s.at, store'[s.to]),
         s.at \in {"reusing", "selected"} => selected[1] = s.sent
  PROVE  IInv'
  <1>1. IndexTypeOK /\ sync \in [Caller -> SyncRecord]
    BY Types DEF IInv
  <1>2. /\ sync' \in [Caller -> SyncRecord] /\ sync'[c] = s
        /\ \A d \in Caller : d # c => sync'[d] = sync[d] /\ sync'[d].at \notin Locked
    BY <1>1
  <1>3. UNCHANGED <<release, manifest, scratch, calls, rebuilds, breaks, successes>>
    BY DEF vault, counts
  <1>4. Serving' = Serving
    BY DEF Serving
  <1>5. IndexTypeOK'
    BY <1>1, <1>2, <1>3, Types, TypesNext
  <1>6. LockHeld'
    BY <1>2 DEF IInv, LockHeld
  <1>7. CallsCounted' /\ Claims'
    BY <1>3 DEF IInv, CallsCounted, Asking, Claims
  <1>8. SavedAfterVectors'
    BY DEF SavedAfterVectors
  <1>9. ServedWhole'
    BY <1>4 DEF IInv, Store, ServedWhole, Whole
  <1>10. FillingApart'
    BY <1>2, <1>4 DEF FillingApart, Locked
  <1>11. Forward'
    BY <1>2, <1>3 DEF IInv, Forward, Locked
  <1>12. OwnDirectories'
    BY <1>2, <1>3, <1>4 DEF IInv, OwnDirectories
  <1> QED
    BY <1>5, <1>6, <1>7, <1>8, <1>9, <1>10, <1>11, <1>12 DEF IInv, Store

\* The same, for a sync that goes to another place and writes nothing.
LEMMA SyncGoes ==
  ASSUME IInv, NEW c \in Caller, NEW place \in Locked,
         sync[c].at \in Locked \ {"selected"}, Go(c, place),
         UNCHANGED <<store, selected, lock, caller, vault, recall, counts>>,
         place \in Filling => sync[c].at \in Filling /\ Progress(place, store[sync[c].to]),
         place \in {"reusing", "selected"} => selected[1] = sync[c].sent
  PROVE  IInv'
  <1> DEFINE s == [sync[c] EXCEPT !.at = place]
  <1>1. sync[c] \in SyncRecord /\ sync \in [Caller -> SyncRecord] /\ IndexTypeOK
    BY Types DEF IInv
  <1>2. /\ s \in SyncRecord /\ s.at = place /\ s.sent = sync[c].sent
        /\ s.rebuild = sync[c].rebuild /\ s.to = sync[c].to
    BY <1>1 DEF SyncRecord, Places
  <1>3. sync' = [sync EXCEPT ![c] = s]
    BY DEF Go
  <1> HIDE DEF s
  <1>4. lock' = c /\ \A d \in Caller : d # c => sync[d].at \notin Locked
    BY DEF IInv, LockHeld
  <1>5. sync[c].at \notin {"none", "selected"}
    BY DEF Locked, Filling
  <1>6. s.at \in Filling =>
          /\ selected[1] <= s.sent /\ s.sent <= release
          /\ s.to = <<s.sent, s.rebuild>> /\ s.to \in Generation \ Serving
          /\ Progress(s.at, store'[s.to])
    BY <1>2 DEF IInv, Store, Forward, FillingApart
  <1>7. store' \in [Generation -> StoreRecord]
        /\ \A g \in Generation : store'[g].saved \subseteq store'[g].vectors
    BY <1>1, Types DEF IInv, Store, SavedAfterVectors
  <1> QED
    BY <1>2, <1>3, <1>4, <1>5, <1>6, <1>7, SyncMoves

\* The same, for a sync that writes the record t into its directory.
LEMMA SyncWrites ==
  ASSUME IInv, NEW c \in Caller, NEW place \in Filling, NEW t \in StoreRecord,
         sync[c].at \in Filling, Go(c, place),
         store' = [store EXCEPT ![sync[c].to] = t],
         UNCHANGED <<selected, lock, caller, vault, recall, counts>>,
         t.saved \subseteq t.vectors, Progress(place, t)
  PROVE  IInv' /\ \A g \in Serving : store'[g] = store[g]
  <1> DEFINE s == [sync[c] EXCEPT !.at = place]
  <1>1. sync[c] \in SyncRecord /\ sync \in [Caller -> SyncRecord] /\ IndexTypeOK
        /\ store \in [Generation -> StoreRecord]
    BY Types DEF IInv
  <1>2. /\ s \in SyncRecord /\ s.at = place /\ s.sent = sync[c].sent
        /\ s.rebuild = sync[c].rebuild /\ s.to = sync[c].to
    BY <1>1 DEF SyncRecord, Places, Locked
  <1>3. sync' = [sync EXCEPT ![c] = s]
    BY DEF Go
  <1> HIDE DEF s
  <1>4. lock' = c /\ \A d \in Caller : d # c => sync[d].at \notin Locked
    BY DEF IInv, LockHeld, Locked
  <1>5. sync[c].at \notin {"none", "selected"} /\ s.at \in Locked
        /\ s.at \notin {"reusing", "selected"}
    BY <1>2 DEF Locked, Filling
  <1>6. /\ selected[1] <= s.sent /\ s.sent <= release
        /\ s.to = <<s.sent, s.rebuild>> /\ s.to \in Generation \ Serving
    BY <1>2 DEF IInv, Store, Forward, FillingApart
  <1>7. store' \in [Generation -> StoreRecord] /\ store'[s.to] = t
        /\ \A g \in Generation : g # s.to => store'[g] = store[g]
    BY <1>1, <1>2, <1>6
  <1>8. \A g \in Generation : store'[g].saved \subseteq store'[g].vectors
    BY <1>7 DEF IInv, Store, SavedAfterVectors
  <1>9. \A g \in Serving : g \in Generation /\ g # s.to
    BY <1>1, <1>6, Types DEF Serving, RecallRecord
  <1>10. \A g \in Serving : store'[g] = store[g]
    BY <1>7, <1>9
  <1>11. Progress(s.at, store'[s.to])
    BY <1>2, <1>7
  <1> QED
    BY <1>2, <1>3, <1>4, <1>5, <1>6, <1>7, <1>8, <1>10, <1>11, SyncMoves

LEMMA LockKeeps == ASSUME IInv, NEW c \in Caller, Lock(c) PROVE IInv'
  <1>1. /\ sync[c].at = "asked" /\ UNCHANGED <<store, selected, vault, recall, counts>>
    BY DEF Lock, At, ProviderKeeps
  <1>2. CASE lock # Nobody
    <2>1. Fail(c) /\ UNCHANGED <<calls, rebuilds, breaks, successes>>
      BY <1>1, <1>2 DEF Lock, counts
    <2> QED
      BY <1>1, <2>1, FailKeeps, BreaksCounted
  <1>3. CASE lock = Nobody
    <2> DEFINE s == [sync[c] EXCEPT !.at = "reading"]
    <2>1. lock' = c /\ sync' = [sync EXCEPT ![c] = s] /\ UNCHANGED caller
      BY <1>3 DEF Lock, Go
    <2>2. sync[c] \in SyncRecord /\ store \in [Generation -> StoreRecord]
      BY Types DEF IInv
    <2>3. /\ s \in SyncRecord /\ s.at = "reading" /\ s.sent = sync[c].sent
          /\ s.rebuild = sync[c].rebuild
      BY <2>2 DEF SyncRecord, Places, Locked
    <2> HIDE DEF s
    <2>4. \A d \in Caller : sync[d].at \notin Locked
      BY <1>3, CallerAssumption DEF IInv, LockHeld, Nobody
    <2>5. s.at \in Locked /\ s.at \notin Filling \cup {"reusing", "selected"}
      BY <2>3 DEF Locked, Filling
    <2>6. \A g \in Generation : store'[g].saved \subseteq store'[g].vectors
      BY <1>1 DEF IInv, Store, SavedAfterVectors
    <2> QED
      BY <1>1, <2>1, <2>2, <2>3, <2>4, <2>5, <2>6, SyncMoves
  <1> QED
    BY <1>2, <1>3

\* Where a sync of the current release builds, nothing is in service.
LEMMA TargetApart ==
  ASSUME IInv, NEW c \in Caller, sync[c].at = "reading", release = sync[c].sent,
         ~ Reusable(c), Target(c) # selected
  PROVE  Target(c) \in Generation \ Serving
  <1>1. /\ sync[c] \in SyncRecord /\ release \in Release
        /\ selected \in Generation \cup {NoGeneration} /\ recall \in [Recall -> RecallRecord]
    BY Types DEF IInv
  <1>2. Target(c) = <<release, sync[c].rebuild>> /\ Target(c) \in Generation
    BY <1>1, Generations DEF Target, SyncRecord
  <1>3. Target(c)[1] = release /\ Target(c)[2] = sync[c].rebuild
    BY <1>2, Generations
  <1>4. CASE sync[c].rebuild # 0
    BY <1>2, <1>3, <1>4 DEF IInv, OwnDirectories
  <1>5. CASE sync[c].rebuild = 0
    <2>1. selected[1] # release /\ selected[1] <= release
      BY <1>5 DEF Reusable, IInv, Forward
    <2>2. selected[1] \in Nat /\ release \in Nat
      BY <1>1, Generations
    <2>3. ASSUME NEW r \in Recall, recall[r].has = Target(c) PROVE FALSE
      <3>1. recall[r].has[1] <= selected[1] /\ recall[r].has[1] = release
        BY <1>3, <2>3 DEF IInv, Forward
      <3> QED
        BY <2>1, <2>2, <3>1
    <2> QED
      BY <1>2, <2>3 DEF Serving
  <1> QED
    BY <1>4, <1>5

LEMMA ReadKeeps == ASSUME IInv, NEW c \in Caller, Read(c) PROVE IInv'
  <1>1. /\ sync[c].at = "reading" /\ UNCHANGED <<store, selected, vault, recall, counts>>
    BY DEF Read, At, ProviderKeeps
  <1>2. CASE Fail(c)
    BY <1>1, <1>2, FailKeeps, BreaksCounted DEF counts
  <1>3. /\ sync[c] \in SyncRecord /\ store \in [Generation -> StoreRecord]
        /\ selected \in Generation \cup {NoGeneration} /\ IndexTypeOK
    BY Types DEF IInv
  <1>4. lock = c /\ \A d \in Caller : d # c => sync[d].at \notin Locked
    BY <1>1 DEF IInv, LockHeld, Locked
  <1>5. \A g \in Generation : store'[g].saved \subseteq store'[g].vectors
    BY <1>1 DEF IInv, Store, SavedAfterVectors
  <1>6. CASE Reusable(c) /\ ~ Fail(c)
    <2> DEFINE s == [sync[c] EXCEPT !.at = "reusing", !.to = selected]
    <2>1. sync' = [sync EXCEPT ![c] = s] /\ UNCHANGED <<lock, caller>>
      <3>1. sync' = [sync EXCEPT ![c].at = "reusing", ![c].to = selected]
            /\ UNCHANGED <<lock, caller>>
        BY <1>6 DEF Read
      <3> QED
        BY <3>1, <1>3, Types
    <2>2. /\ s \in SyncRecord /\ s.at = "reusing" /\ s.sent = sync[c].sent
          /\ s.rebuild = sync[c].rebuild
      BY <1>3 DEF SyncRecord, Places, Locked
    <2> HIDE DEF s
    <2>3. s.at \in Locked /\ s.at \notin Filling
      BY <2>2 DEF Locked, Filling
    <2>4. selected[1] = s.sent
      BY <1>6, <2>2 DEF Reusable
    <2> QED
      BY <1>1, <1>3, <1>4, <1>5, <2>1, <2>2, <2>3, <2>4, SyncMoves
  <1>7. CASE ~ Reusable(c) /\ ~ Fail(c)
    <2> DEFINE s == [sync[c] EXCEPT !.at = "embedding", !.to = Target(c)]
    <2>1. /\ release = sync[c].sent /\ Target(c) # selected
          /\ sync' = [sync EXCEPT ![c].at = "embedding", ![c].to = Target(c)]
          /\ UNCHANGED <<lock, caller>>
      BY <1>7 DEF Read
    <2>2. sync' = [sync EXCEPT ![c] = s]
      BY <1>3, <2>1, Types
    <2>3. Target(c) \in Generation \ Serving
      BY <1>1, <1>7, <2>1, TargetApart
    <2>4. /\ s \in SyncRecord /\ s.at = "embedding" /\ s.sent = sync[c].sent
          /\ s.rebuild = sync[c].rebuild /\ s.to = Target(c)
      BY <1>3, <2>3 DEF SyncRecord, Places, Locked, Filling
    <2> HIDE DEF s
    <2>5. s.at \in Locked /\ s.at \notin {"reusing", "selected"}
      BY <2>4 DEF Locked, Filling
    <2>6. s.to = <<s.sent, s.rebuild>>
      BY <2>4 DEF Target
    <2>7. selected[1] <= s.sent /\ s.sent <= release
      <3>1. release \in Nat
        BY <1>3, Types, Generations
      <3> QED
        BY <2>1, <2>4, <3>1 DEF IInv, Forward
    <2>8. Progress(s.at, store'[s.to])
      BY <2>4 DEF Progress
    <2> QED
      BY <1>1, <1>3, <1>4, <1>5, <2>1, <2>2, <2>3, <2>4, <2>5, <2>6, <2>7, <2>8, SyncMoves
  <1> QED
    BY <1>2, <1>6, <1>7

LEMMA ReuseKeeps == ASSUME IInv, NEW c \in Caller, Reuse(c) PROVE IInv'
  <1>1. /\ sync[c].at = "reusing" /\ UNCHANGED <<store, selected, vault, recall, counts>>
    BY DEF Reuse, At, ProviderKeeps
  <1>2. CASE Fail(c)
    BY <1>1, <1>2, FailKeeps, BreaksCounted DEF counts
  <1>3. CASE Go(c, "selected") /\ UNCHANGED <<lock, caller>>
    <2>1. selected[1] = sync[c].sent
      BY <1>1 DEF IInv, Forward
    <2>2. "selected" \in Locked /\ "selected" \notin Filling
          /\ sync[c].at \in Locked \ {"selected"}
      BY <1>1 DEF Locked, Filling
    <2> QED
      BY <1>1, <1>3, <2>1, <2>2, SyncGoes
  <1> QED
    BY <1>2, <1>3 DEF Reuse

LEMMA VerifyKeeps == ASSUME IInv, NEW c \in Caller, Verify(c) PROVE IInv'
  <1>1. /\ sync[c].at = "verifying" /\ UNCHANGED <<store, selected, vault, recall, counts>>
    BY DEF Verify, At, ProviderKeeps
  <1>2. CASE Fail(c)
    BY <1>1, <1>2, FailKeeps, BreaksCounted DEF counts
  <1>3. CASE Go(c, "listing") /\ UNCHANGED <<lock, caller>>
    <2>1. "listing" \in Locked /\ "listing" \notin {"reusing", "selected"}
          /\ sync[c].at \in Locked \ {"selected"} /\ sync[c].at \in Filling
      BY <1>1 DEF Locked, Filling
    <2>2. Progress("listing", store[sync[c].to])
      BY <1>1, <2>1 DEF IInv, Store, FillingApart, Progress
    <2> QED
      BY <1>1, <1>3, <2>1, <2>2, SyncGoes
  <1> QED
    BY <1>2, <1>3 DEF Verify

(***************************************************************************)
(* The steps that fill a directory.                                        *)
(***************************************************************************)
\* What is known of a directory that is being filled.
LEMMA Filled ==
  ASSUME IInv, NEW c \in Caller, sync[c].at \in Filling
  PROVE  /\ sync[c].to \in Generation \ Serving
         /\ store \in [Generation -> StoreRecord] /\ store[sync[c].to] \in StoreRecord
         /\ store[sync[c].to].saved \subseteq store[sync[c].to].vectors
         /\ Progress(sync[c].at, store[sync[c].to])
         /\ Missing(sync[c].to) = Remaining(store[sync[c].to])
         /\ NextWindow(sync[c].to) = First(store[sync[c].to])
  BY Types, NextRemains DEF IInv, Store, SavedAfterVectors, FillingApart

LEMMA EmbedKeeps ==
  ASSUME IInv, NEW c \in Caller, Embed(c)
  PROVE  IInv' /\ \A g \in Serving : store'[g] = store[g]
  <1> DEFINE g == sync[c].to
             t == [store[g] EXCEPT !.vectors = @ \cup {NextWindow(g)}]
  <1>1. /\ sync[c].at = "embedding" /\ sync[c].at \in Filling /\ "saving" \in Filling
        /\ Missing(g) # {} /\ store' = [store EXCEPT ![g] = t] /\ Go(c, "saving")
        /\ UNCHANGED <<selected, lock, caller, vault, recall, counts>>
    BY DEF Embed, At, ProviderKeeps, Filling
  <1>2. /\ store[g] \in StoreRecord /\ store[g].saved \subseteq store[g].vectors
        /\ Missing(g) = Remaining(store[g]) /\ NextWindow(g) = First(store[g])
    BY <1>1, Filled
  <1>3. NextWindow(g) \in 1..Windows /\ NextWindow(g) \in Missing(g)
    BY <1>1, <1>2, FirstRemains DEF Missing
  <1>4. /\ t \in StoreRecord /\ t.saved = store[g].saved
        /\ t.vectors = store[g].vectors \cup {NextWindow(g)}
    BY <1>2, <1>3 DEF StoreRecord
  <1> HIDE DEF t
  <1>5. Remaining(t) = Remaining(store[g])
    BY <1>2, <1>4 DEF Remaining
  <1>6. First(t) = NextWindow(g) /\ Remaining(t) # {}
    BY <1>1, <1>2, <1>5 DEF First
  <1>7. Progress("saving", t)
    BY <1>4, <1>6 DEF Progress
  <1>8. t.saved \subseteq t.vectors
    BY <1>2, <1>4
  <1> QED
    BY <1>1, <1>4, <1>7, <1>8, SyncWrites

LEMMA SaveKeeps ==
  ASSUME IInv, NEW c \in Caller, Save(c)
  PROVE  IInv' /\ \A g \in Serving : store'[g] = store[g]
  <1> DEFINE g == sync[c].to
             t == [store[g] EXCEPT !.saved = @ \cup {NextWindow(g)}]
  <1>1. /\ sync[c].at = "saving" /\ sync[c].at \in Filling /\ "embedding" \in Filling
        /\ store' = [store EXCEPT ![g] = t] /\ Go(c, "embedding")
        /\ UNCHANGED <<selected, lock, caller, vault, recall, counts>>
    BY DEF Save, At, ProviderKeeps, Filling
  <1>2. /\ store[g] \in StoreRecord /\ store[g].saved \subseteq store[g].vectors
        /\ NextWindow(g) \in store[g].vectors
    BY <1>1, Filled DEF Progress
  <1>3. /\ t \in StoreRecord /\ t.vectors = store[g].vectors
        /\ t.saved = store[g].saved \cup {NextWindow(g)}
    BY <1>2 DEF StoreRecord
  <1> HIDE DEF t
  <1>4. t.saved \subseteq t.vectors /\ Progress("embedding", t)
    BY <1>2, <1>3 DEF Progress
  <1> QED
    BY <1>1, <1>3, <1>4, SyncWrites

LEMMA OpenBM25Keeps ==
  ASSUME IInv, NEW c \in Caller, OpenBM25(c)
  PROVE  IInv' /\ \A g \in Serving : store'[g] = store[g]
  <1> DEFINE g == sync[c].to
             t == [store[g] EXCEPT !.bm25 = "torn"]
  <1>1. /\ sync[c].at = "embedding" /\ sync[c].at \in Filling /\ "bm25" \in Filling
        /\ Missing(g) = {} /\ store' = [store EXCEPT ![g] = t] /\ Go(c, "bm25")
        /\ UNCHANGED <<selected, lock, caller, vault, recall, counts>>
    BY DEF OpenBM25, At, ProviderKeeps, Filling
  <1>2. /\ store[g] \in StoreRecord /\ store[g].saved \subseteq store[g].vectors
        /\ Remaining(store[g]) = {}
    BY <1>1, Filled
  <1>3. store[g].saved = 1..Windows
    BY <1>2 DEF Remaining, StoreRecord
  <1>4. /\ t \in StoreRecord /\ t.vectors = store[g].vectors /\ t.saved = store[g].saved
    BY <1>2 DEF StoreRecord
  <1> HIDE DEF t
  <1>5. t.saved \subseteq t.vectors /\ Progress("bm25", t)
    BY <1>2, <1>3, <1>4 DEF Progress
  <1> QED
    BY <1>1, <1>4, <1>5, SyncWrites

LEMMA WriteBM25Keeps ==
  ASSUME IInv, NEW c \in Caller, WriteBM25(c)
  PROVE  IInv' /\ \A g \in Serving : store'[g] = store[g]
  <1> DEFINE g == sync[c].to
             t == [store[g] EXCEPT !.bm25 = "whole"]
  <1>1. /\ sync[c].at = "bm25" /\ sync[c].at \in Filling /\ "verifying" \in Filling
        /\ store' = [store EXCEPT ![g] = t] /\ Go(c, "verifying")
        /\ UNCHANGED <<selected, lock, caller, vault, recall, counts>>
    BY DEF WriteBM25, At, ProviderKeeps, Filling
  <1>2. /\ store[g] \in StoreRecord /\ store[g].saved \subseteq store[g].vectors
        /\ store[g].saved = 1..Windows
    BY <1>1, Filled DEF Progress
  <1>3. /\ t \in StoreRecord /\ t.vectors = store[g].vectors /\ t.saved = store[g].saved
        /\ t.bm25 = "whole"
    BY <1>2 DEF StoreRecord
  <1> HIDE DEF t
  <1>4. t.saved \subseteq t.vectors /\ Progress("verifying", t)
    BY <1>2, <1>3 DEF Progress
  <1> QED
    BY <1>1, <1>3, <1>4, SyncWrites

LEMMA ListKeeps ==
  ASSUME IInv, NEW c \in Caller, List(c)
  PROVE  IInv' /\ \A g \in Serving : store'[g] = store[g]
  <1> DEFINE g == sync[c].to
             t == [store[g] EXCEPT !.listed = TRUE]
  <1>1. /\ sync[c].at = "listing" /\ sync[c].at \in Filling /\ "selecting" \in Filling
        /\ store' = [store EXCEPT ![g] = t] /\ Go(c, "selecting")
        /\ UNCHANGED <<selected, lock, caller, vault, recall, counts>>
    BY DEF List, At, ProviderKeeps, Filling
  <1>2. /\ store[g] \in StoreRecord /\ store[g].saved \subseteq store[g].vectors
        /\ store[g].saved = 1..Windows /\ store[g].bm25 = "whole"
    BY <1>1, Filled DEF Progress
  <1>3. /\ t \in StoreRecord /\ t.vectors = store[g].vectors /\ t.saved = store[g].saved
        /\ t.bm25 = store[g].bm25 /\ t.listed
    BY <1>2 DEF StoreRecord
  <1> HIDE DEF t
  <1>4. t.saved \subseteq t.vectors /\ Progress("selecting", t)
    BY <1>2, <1>3 DEF Progress
  <1> QED
    BY <1>1, <1>3, <1>4, SyncWrites

\* What is selected is whole, and of no earlier release than what was selected.
LEMMA SelectKeeps == ASSUME IInv, NEW c \in Caller, Select(c) PROVE IInv'
  <1> DEFINE g == sync[c].to
             s == [sync[c] EXCEPT !.at = "selected"]
  <1>1. /\ sync[c].at = "selecting" /\ sync[c].at \in Filling /\ selected' = g
        /\ sync' = [sync EXCEPT ![c] = s]
        /\ UNCHANGED <<store, lock, caller, vault, recall, counts>>
    BY DEF Select, At, Go, ProviderKeeps, Filling
  <1>2. IndexTypeOK /\ sync[c] \in SyncRecord /\ sync \in [Caller -> SyncRecord]
        /\ selected \in Generation \cup {NoGeneration} /\ release \in Release
    BY Types DEF IInv
  <1>3. /\ s \in SyncRecord /\ s.at = "selected" /\ s.sent = sync[c].sent
        /\ s.rebuild = sync[c].rebuild
    BY <1>2 DEF SyncRecord, Places, Locked
  <1> HIDE DEF s
  <1>4. /\ sync' \in [Caller -> SyncRecord] /\ sync'[c] = s
        /\ \A d \in Caller : d # c => sync'[d] = sync[d] /\ sync'[d].at \notin Locked
    <2>1. \A d \in Caller : d # c => sync[d].at \notin Locked
      BY <1>1 DEF IInv, LockHeld, Locked
    <2> QED
      BY <1>1, <1>2, <1>3, <2>1
  <1>5. UNCHANGED <<release, manifest, scratch, calls, rebuilds, breaks, successes>>
    BY <1>1 DEF vault, counts
  <1>6. /\ g \in Generation \ Serving /\ store[g] \in StoreRecord
        /\ g = <<sync[c].sent, sync[c].rebuild>> /\ g[1] = sync[c].sent /\ g[2] = sync[c].rebuild
        /\ Whole(g)
    <2>1. /\ g \in Generation \ Serving /\ store[g] \in StoreRecord
          /\ store[g].saved \subseteq store[g].vectors /\ Progress("selecting", store[g])
      BY <1>1, Filled
    <2>2. store[g].vectors = 1..Windows /\ store[g].bm25 = "whole" /\ store[g].listed
      BY <2>1 DEF Progress, StoreRecord
    <2>3. g = <<sync[c].sent, sync[c].rebuild>>
      BY <1>1 DEF IInv, Store, FillingApart
    <2> QED
      BY <2>1, <2>2, <2>3, Generations DEF Whole
  <1>7. /\ selected'[1] = sync[c].sent /\ selected[1] <= selected'[1] /\ selected'[1] <= release
        /\ selected[1] \in Nat /\ selected'[1] \in Nat
    BY <1>1, <1>2, <1>6, Generations DEF IInv, Forward
  <1>8. Serving' \subseteq Serving \cup {g}
    BY <1>1 DEF Serving
  <1>9. IndexTypeOK'
    BY <1>1, <1>2, <1>4, <1>5, <1>6, Types, TypesNext
  <1>10. LockHeld' /\ CallsCounted'
    BY <1>1, <1>3, <1>4, <1>5 DEF IInv, LockHeld, CallsCounted, Asking, Locked, Filling
  <1>11. SavedAfterVectors' /\ ServedWhole'
    BY <1>1, <1>6, <1>8 DEF IInv, Store, SavedAfterVectors, ServedWhole, Whole
  <1>12. FillingApart'
    BY <1>3, <1>4 DEF FillingApart, Locked, Filling
  <1>13. Forward'
    <2>1. \A r \in Recall : recall'[r].has[1] <= selected'[1]
      <3>1. \A r \in Recall : recall[r].has[1] \in Nat /\ recall[r].has[1] <= selected[1]
        BY <1>2, Types, Generations DEF RecallRecord, IInv, Forward
      <3> QED
        BY <1>1, <1>7, <3>1
    <2>2. selected'[1] <= release'
      BY <1>5, <1>7
    <2> QED
      BY <1>3, <1>4, <1>7, <2>1, <2>2 DEF Forward, Locked, Filling
  <1>14. OwnDirectories'
    BY <1>3, <1>4, <1>5, <1>6, <1>8 DEF IInv, OwnDirectories
  <1>15. Claims'
    <2>1. /\ \A d \in Caller : caller[d].got \in Nat
          /\ scratch # <<>> => scratch[1].of \in Nat
          /\ manifest.of \in Nat
      BY <1>2, Types DEF CallerRecord, VaultRecord
    <2> QED
      BY <1>1, <1>5, <1>7, <2>1 DEF IInv, Claims
  <1> QED
    BY <1>9, <1>10, <1>11, <1>12, <1>13, <1>14, <1>15 DEF IInv, Store

(***************************************************************************)
(* The call that starts a sync, and the recalls.                           *)
(***************************************************************************)
LEMMA AskedRecord ==
  ASSUME NEW x, NEW n
  PROVE  [NoSync EXCEPT !.at = "asked", !.sent = x, !.rebuild = n] =
         [at |-> "asked", sent |-> x, rebuild |-> n, to |-> NoGeneration]
  <1>1. [NoSync EXCEPT !.at = "asked"] =
        [at |-> "asked", sent |-> 0, rebuild |-> 0, to |-> NoGeneration]
    BY DEF NoSync
  <1>2. [[at |-> "asked", sent |-> 0, rebuild |-> 0, to |-> NoGeneration] EXCEPT !.sent = x] =
        [at |-> "asked", sent |-> x, rebuild |-> 0, to |-> NoGeneration]
    OBVIOUS
  <1>3. [[at |-> "asked", sent |-> x, rebuild |-> 0, to |-> NoGeneration] EXCEPT !.rebuild = n] =
        [at |-> "asked", sent |-> x, rebuild |-> n, to |-> NoGeneration]
    OBVIOUS
  <1> QED
    BY <1>1, <1>2, <1>3

LEMMA CallKeeps == ASSUME IInv, NEW c \in Caller, Call(c) PROVE IInv'
  <1>1. PICK rebuild \in BOOLEAN :
          /\ rebuild => c \in Script /\ rebuilds < MaxRebuild
          /\ rebuilds' = rebuilds + (IF rebuild THEN 1 ELSE 0)
          /\ sync' = [sync EXCEPT ![c] = [NoSync EXCEPT !.at = "asked",
                          !.sent = caller[c].saw, !.rebuild = IF rebuild THEN rebuilds' ELSE 0]]
    BY DEF Call
  <1> DEFINE n == IF rebuild THEN rebuilds' ELSE 0
             s == [NoSync EXCEPT !.at = "asked", !.sent = caller[c].saw, !.rebuild = n]
             p == [caller[c] EXCEPT !.at = "waiting"]
  <1>2. /\ caller[c].at = "identified" /\ caller' = [caller EXCEPT ![c] = p]
        /\ sync' = [sync EXCEPT ![c] = s]
        /\ UNCHANGED <<store, selected, lock, vault, recall, calls, breaks, successes>>
    BY <1>1 DEF Call
  <1>3. /\ IndexTypeOK /\ sync \in [Caller -> SyncRecord] /\ caller[c] \in CallerRecord
        /\ rebuilds \in 0..MaxRebuild /\ rebuilds \in Nat
        /\ selected \in Generation \cup {NoGeneration} /\ recall \in [Recall -> RecallRecord]
    BY BoundAssumption, Types DEF IInv
  <1>4. /\ rebuilds' \in 0..MaxRebuild /\ rebuilds <= rebuilds' /\ rebuilds' \in Nat
        /\ n \in 0..MaxRebuild /\ (n # 0 => n = rebuilds + 1 /\ n = rebuilds')
    BY <1>1, <1>3, BoundAssumption
  <1> HIDE DEF n
  <1>5. s \in SyncRecord /\ s.at = "asked" /\ s.rebuild = n
    <2>1. s = [at |-> "asked", sent |-> caller[c].saw, rebuild |-> n, to |-> NoGeneration]
      BY AskedRecord
    <2> HIDE DEF s
    <2> QED
      BY <1>3, <1>4, <2>1 DEF SyncRecord, CallerRecord, Places
  <1>6. /\ p \in CallerRecord /\ p.at = "waiting" /\ p.status = caller[c].status
        /\ p.got = caller[c].got
    BY <1>3 DEF CallerRecord
  <1> HIDE DEF s, p
  <1>7. /\ sync' \in [Caller -> SyncRecord] /\ sync'[c] = s
        /\ \A d \in Caller : d # c => sync'[d] = sync[d]
    BY <1>2, <1>3, <1>5
  <1>8. /\ caller' \in [Caller -> CallerRecord] /\ caller'[c] = p
        /\ \A d \in Caller : d # c => caller'[d] = caller[d]
    BY <1>2, <1>3, <1>6, CallerSet
  <1>9. UNCHANGED <<release, manifest, scratch, store, selected, lock, recall, calls, breaks,
                    successes>> /\ Serving' = Serving
    BY <1>2 DEF vault, Serving
  <1>10. IndexTypeOK'
    BY <1>3, <1>4, <1>7, <1>8, <1>9, Types, TypesNext
  <1>11. LockHeld'
    BY <1>2, <1>5, <1>6, <1>7, <1>8, <1>9 DEF IInv, LockHeld, Locked, Filling
  <1>12. CallsCounted'
    <2>1. Asking' \subseteq Asking
      BY <1>2, <1>8 DEF Asking
    <2>2. calls \in Nat /\ successes \in Nat
      BY <1>3, Types
    <2> QED
      BY <1>9, <2>1, <2>2, CountSame DEF IInv
  <1>13. Store'
    BY <1>5, <1>7, <1>9
       DEF IInv, Store, SavedAfterVectors, ServedWhole, Whole, FillingApart, Filling
  <1>14. Forward'
    BY <1>5, <1>7, <1>9 DEF IInv, Forward, Filling
  <1>15. OwnDirectories'
    <2>1. \A d \in Caller : sync[d].rebuild \in Nat /\ sync[d].rebuild <= rebuilds
      BY <1>3 DEF SyncRecord, IInv, OwnDirectories
    <2>2. \A g \in Serving : g[2] \in Nat /\ g[2] <= rebuilds
      BY <1>3, Generations DEF Serving, RecallRecord, IInv, OwnDirectories
    <2>3. /\ \A d \in Caller : sync'[d].rebuild <= rebuilds'
          /\ \A g \in Serving' : g[2] <= rebuilds'
      BY <1>3, <1>4, <1>5, <1>7, <1>9, <2>1, <2>2
    <2>4. \A d, e \in Caller : d # e /\ sync'[d].rebuild # 0 => sync'[d].rebuild # sync'[e].rebuild
      BY <1>3, <1>4, <1>5, <1>7, <2>1 DEF IInv, OwnDirectories
    <2>5. \A d \in Caller : sync'[d].rebuild # 0 /\ sync'[d].at # "selected" =>
            \A g \in Serving' : g[2] # sync'[d].rebuild
      BY <1>3, <1>4, <1>5, <1>7, <1>9, <2>2 DEF IInv, OwnDirectories
    <2> QED
      BY <2>3, <2>4, <2>5 DEF OwnDirectories
  <1>16. Claims'
    BY <1>6, <1>8, <1>9 DEF IInv, Claims
  <1> QED
    BY <1>10, <1>11, <1>12, <1>13, <1>14, <1>15, <1>16 DEF IInv

\* A recall goes on with what is in service already, or with nothing.
LEMMA RecallMoves ==
  ASSUME IInv, NEW r \in Recall, NEW t \in RecallRecord, recall' = [recall EXCEPT ![r] = t],
         t.has \in {recall[r].has, selected, NoGeneration},
         UNCHANGED <<index, vault, caller, counts>>
  PROVE  IInv'
  <1>1. /\ IndexTypeOK /\ recall \in [Recall -> RecallRecord]
        /\ selected \in Generation \cup {NoGeneration}
    BY Types DEF IInv
  <1>2. /\ recall' \in [Recall -> RecallRecord] /\ recall'[r] = t
        /\ \A q \in Recall : q # r => recall'[q] = recall[q]
    BY <1>1
  <1>3. UNCHANGED <<release, store, selected, lock, sync, manifest, scratch, calls, rebuilds,
                    breaks, successes>>
    BY DEF index, vault, counts
  <1>4. Serving' \subseteq Serving
    <2>1. \A q \in Recall : recall'[q].has \in Serving \cup {NoGeneration}
      BY <1>2 DEF Serving
    <2> QED
      BY <1>3, <2>1 DEF Serving
  <1>5. IndexTypeOK'
    BY <1>1, <1>2, <1>3, Types, TypesNext
  <1>6. LockHeld' /\ CallsCounted' /\ Claims'
    BY <1>3 DEF IInv, LockHeld, CallsCounted, Asking, Claims
  <1>7. Store'
    BY <1>3, <1>4 DEF IInv, Store, SavedAfterVectors, ServedWhole, Whole, FillingApart
  <1>8. Forward'
    <2>1. selected[1] \in Nat /\ NoGeneration[1] = 0
      BY <1>1, Generations
    <2>2. t.has[1] <= selected[1]
      BY <2>1 DEF IInv, Forward
    <2> QED
      BY <1>2, <1>3, <2>2 DEF IInv, Forward
  <1>9. OwnDirectories'
    BY <1>3, <1>4 DEF IInv, OwnDirectories
  <1> QED
    BY <1>5, <1>6, <1>7, <1>8, <1>9 DEF IInv

LEMMA RecallStepKeeps == ASSUME IInv, NEW r \in Recall, RecallStep(r) PROVE IInv'
  <1>1. /\ recall[r] \in RecallRecord /\ selected \in Generation \cup {NoGeneration}
        /\ UNCHANGED <<index, vault, caller, counts>>
    BY Types DEF IInv, RecallStep, ReadSelection, Compare, OpenGeneration, RecallKeeps
  <1>2. [at |-> "idle", has |-> NoGeneration] \in RecallRecord
        /\ [at |-> "comparing", has |-> selected] \in RecallRecord
    BY <1>1 DEF RecallRecord
  <1>3. CASE ReadSelection(r)
    <2>1. recall' = [recall EXCEPT ![r] = [at |-> "comparing", has |-> selected]]
      BY <1>3 DEF ReadSelection
    <2> QED
      BY <1>1, <1>2, <2>1, RecallMoves
  <1>4. CASE recall' = [recall EXCEPT ![r] = [at |-> "idle", has |-> NoGeneration]]
    BY <1>1, <1>2, <1>4, RecallMoves
  <1>5. CASE Compare(r)
    <2> DEFINE t == [recall[r] EXCEPT !.at = "opening"]
    <2>1. t \in RecallRecord /\ t.has = recall[r].has
      BY <1>1 DEF RecallRecord
    <2>2. recall' = [recall EXCEPT ![r] = IF release = recall[r].has[1]
                      THEN t ELSE [at |-> "idle", has |-> NoGeneration]]
      BY <1>5 DEF Compare
    <2> HIDE DEF t
    <2>3. CASE release = recall[r].has[1]
      <3>1. recall' = [recall EXCEPT ![r] = t]
        BY <2>2, <2>3
      <3> QED
        BY <1>1, <2>1, <3>1, RecallMoves
    <2>4. CASE release # recall[r].has[1]
      BY <1>4, <2>2, <2>4
    <2> QED
      BY <2>3, <2>4
  <1> QED
    BY <1>3, <1>4, <1>5 DEF RecallStep, OpenGeneration

(***************************************************************************)
(* The invariant.                                                          *)
(***************************************************************************)
LEMMA InitKeeps == Init => IInv
  <1> SUFFICES ASSUME Init PROVE IInv
    OBVIOUS
  <1>1. Serving = {}
    BY DEF Init, Serving
  <1>2. \A c \in Caller : sync[c] = NoSync /\ caller[c] = Idle
    BY DEF Init
  <1>3. NoGeneration[1] = 0 /\ NoGeneration[2] = 0
    BY Generations
  <1>4. IndexTypeOK
    <2>1. store \in [Generation -> [vectors : SUBSET (1..Windows), saved : SUBSET (1..Windows),
                                    bm25 : {"none", "torn", "whole"}, listed : BOOLEAN]]
      BY DEF Init, Nothing
    <2>2. sync \in [Caller -> SyncRecord] /\ caller \in [Caller -> CallerRecord]
      BY NoSyncRecord, IdleRecord DEF Init
    <2>3. recall \in [Recall -> RecallRecord]
      BY DEF Init, RecallRecord
    <2>4. manifest \in VaultRecord
      BY BoundAssumption DEF Init, VaultRecord, Status
    <2> QED
      BY <2>1, <2>2, <2>3, <2>4, BoundAssumption
         DEF Init, IndexTypeOK, SyncRecord, Places, Locked, Filling, CallerRecord, RecallRecord,
             VaultRecord, Release
  <1>5. LockHeld
    BY <1>2 DEF LockHeld, NoSync, Idle, Locked, Filling
  <1>6. CallsCounted
    <2>1. Asking = {}
      BY <1>2 DEF Asking, Idle
    <2> QED
      BY <2>1, FS_EmptySet DEF Init, CallsCounted
  <1>7. Store
    BY <1>1, <1>2
       DEF Init, Store, SavedAfterVectors, ServedWhole, FillingApart, NoSync, Nothing, Filling
  <1>8. Forward
    BY <1>2, <1>3 DEF Init, Forward, NoSync, Filling
  <1>9. OwnDirectories
    BY <1>1, <1>2 DEF Init, OwnDirectories, NoSync
  <1>10. Claims
    BY <1>2 DEF Init, Claims, Idle
  <1> QED
    BY <1>4, <1>5, <1>6, <1>7, <1>8, <1>9, <1>10 DEF IInv

LEMMA StutterKeeps == IInv /\ UNCHANGED vars => IInv'
  <1> SUFFICES ASSUME IInv, UNCHANGED vars PROVE IInv'
    OBVIOUS
  <1>1. UNCHANGED <<index, release, manifest, scratch, caller, recall, calls, rebuilds, breaks,
                    successes>>
    BY DEF vars, vault, counts
  <1>2. IndexTypeOK /\ release \in Release /\ release \in Nat
    BY Types, Generations DEF IInv
  <1>3. IndexTypeOK'
    BY <1>1, <1>2 DEF IndexTypeOK, index
  <1>4. Store' /\ OwnDirectories' /\ Forward'
    BY <1>1, <1>2, StoreSame, OwnSame, ForwardSame DEF IInv
  <1>5. LockHeld' /\ CallsCounted' /\ Claims'
    BY <1>1 DEF IInv, LockHeld, CallsCounted, Asking, Claims, index
  <1> QED
    BY <1>3, <1>4, <1>5 DEF IInv

LEMMA StepKeeps == IInv /\ [Next]_vars => IInv'
  <1> SUFFICES ASSUME IInv, [Next]_vars PROVE IInv'
    OBVIOUS
  <1>1. CASE UNCHANGED vars
    BY <1>1, StutterKeeps
  <1>2. CASE ApplyRelease
    BY <1>2, ApplyReleaseKeeps
  <1>3. ASSUME NEW c \in Caller, CallerStep(c) PROVE IInv'
    BY <1>3, IdentifyKeeps, CallKeeps, ConfirmKeeps, WriteScratchKeeps, RenameKeeps
       DEF CallerStep
  <1>4. ASSUME NEW c \in Caller, ProviderStep(c) PROVE IInv'
    BY <1>4, LockKeeps, ReadKeeps, ReuseKeeps, EmbedKeeps, SaveKeeps, OpenBM25Keeps,
       WriteBM25Keeps, VerifyKeeps, ListKeeps, SelectKeeps, AnswerKeeps DEF ProviderStep
  <1>5. ASSUME NEW c \in Caller, ProviderDies(c) \/ CallerDies(c) \/ CallerTimesOut(c)
        PROVE IInv'
    BY <1>5, ProviderDiesKeeps, CallerDiesKeeps, CallerTimesOutKeeps
  <1>6. ASSUME NEW r \in Recall, RecallStep(r) PROVE IInv'
    BY <1>6, RecallStepKeeps
  <1> QED
    BY <1>1, <1>2, <1>3, <1>4, <1>5, <1>6 DEF Next

(***************************************************************************)
(* The theorems.                                                           *)
(***************************************************************************)
\* Every reachable state satisfies the inductive invariant: one sync at work
\* in the store at a time, in a directory that serves nothing, never for a
\* release that selections have passed.
THEOREM Inductive == Spec => []IInv
  BY InitKeeps, StepKeeps, PTL DEF Spec

\* The index keeps its shape, and every generation that answers queries is
\* complete: all its windows have vectors, its bm25.json is whole and its
\* projection manifest is there, whatever died, was resumed or was rebuilt.
THEOREM IndexAlwaysHolds == Spec => []IndexHolds
  <1>1. IInv => IndexHolds
    BY DEF IInv, Store, IndexHolds
  <1> QED
    BY <1>1, Inductive, PTL

\* Whenever the Vault's retrieval manifest says query ready for the current
\* release, the Provider has selected an index of that release, although the
\* answer is recorded long after the sync has ended and through a temporary
\* file that all writers share.
THEOREM QueryReadyAlwaysTrue == Spec => []QueryReadyIsTrue
  <1>1. IInv => QueryReadyIsTrue
    <2> SUFFICES ASSUME IInv, manifest.status = "ready", manifest.of = release
        PROVE  selected[1] = release
      BY DEF QueryReadyIsTrue
    <2>1. release <= selected[1] /\ selected[1] <= release
      BY DEF IInv, Claims, Forward
    <2>2. release \in Nat /\ selected[1] \in Nat
      BY Types, Generations DEF IInv
    <2> QED
      BY <2>1, <2>2
  <1> QED
    BY <1>1, Inductive, PTL

\* No step of any sync, caller or recall writes into the directory of a
\* generation that is selected or that a recall has chosen.
THEOREM ServedNeverTouched == Spec => ServedUntouched
  <1>1. IInv /\ [Next]_vars => [\A g \in Serving : store'[g] = store[g]]_vars
    <2> SUFFICES ASSUME IInv, Next
        PROVE  \A g \in Serving : store'[g] = store[g]
      OBVIOUS
    <2>1. CASE UNCHANGED store
      BY <2>1
    <2>2. ASSUME NEW c \in Caller, ProviderStep(c)
          PROVE  \A g \in Serving : store'[g] = store[g]
      <3>1. CASE Embed(c) \/ Save(c) \/ OpenBM25(c) \/ WriteBM25(c) \/ List(c)
        BY <3>1, EmbedKeeps, SaveKeeps, OpenBM25Keeps, WriteBM25Keeps, ListKeeps
      <3>2. CASE Lock(c) \/ Read(c) \/ Reuse(c) \/ Verify(c) \/ Select(c) \/ Answer(c)
        BY <3>2, <2>1 DEF Lock, Read, Reuse, Verify, Select, Answer
      <3> QED
        BY <2>2, <3>1, <3>2 DEF ProviderStep
    <2>3. CASE ApplyRelease
      BY <2>1, <2>3 DEF ApplyRelease, index
    <2>4. ASSUME NEW c \in Caller,
                 \/ CallerStep(c) \/ ProviderDies(c)
                 \/ CallerDies(c) \/ CallerTimesOut(c)
          PROVE  UNCHANGED store
      BY <2>4 DEF CallerStep, Identify, Call, Confirm, WriteScratch, Rename, ProviderDies,
                  CallerDies, CallerTimesOut, index
    <2>5. ASSUME NEW r \in Recall, RecallStep(r) PROVE UNCHANGED store
      BY <2>5 DEF RecallStep, ReadSelection, Compare, OpenGeneration, RecallKeeps, index
    <2> QED
      BY <2>1, <2>2, <2>3, <2>4, <2>5 DEF Next
  <1> QED
    BY <1>1, Inductive, PTL DEF Spec, ServedUntouched
===========================================================================
