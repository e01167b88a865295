---------------------------- MODULE ReleaseIndex ----------------------------
(***************************************************************************)
(* How a knowledge release becomes searchable.  Callers (the maintenance   *)
(* script sync_release_index.py and the provider-sync worker of a workflow)*)
(* read the identity of the current release and ask the Provider for a     *)
(* sync; the Provider builds a generation directory window by window under *)
(* a nonblocking lock and selects it by replacing index-state.json; the    *)
(* caller then records the answer in the Vault's retrieval manifest, which *)
(* is what makes a Vault query ready.  Recalls read the selection, compare *)
(* it with the current release and open the generation, at any time.       *)
(*                                                                         *)
(* Releases are numbered in the order Vault Finalize applies them (that    *)
(* component is VaultRelease; here applying one is a single step).  The    *)
(* indexing configuration does not change.                                 *)
(***************************************************************************)
EXTENDS Integers, FiniteSets

CONSTANTS Script,      \* callers that run sync_release_index.py
          Worker,      \* callers that are provider-sync workers
          Http,        \* those of the callers whose transport is HTTP
          Recall,      \* recalls
          Windows,     \* number of vector windows of a corpus
          MaxRelease,  \* bound: releases applied
          MaxCall,     \* bound: syncs asked for
          MaxRebuild,  \* bound: of them with --rebuild
          MaxBreak     \* bound: processes killed, calls that raise

Caller == Script \cup Worker

ASSUME CallerAssumption == /\ Script \cap Worker = {}
                           /\ Http \subseteq Caller
                           /\ IsFiniteSet(Caller)
                           /\ "nobody" \notin Caller
ASSUME BoundAssumption == /\ Windows \in Nat \ {0}
                          /\ MaxRelease \in Nat \ {0}
                          /\ MaxCall \in Nat
                          /\ MaxRebuild \in Nat
                          /\ MaxBreak \in Nat

VARIABLES release,    \* the current release of the Vault
          store,      \* generation directories: windows, bm25, projection manifest
          selected,   \* index-state.json: the selected generation, or NoGeneration
          lock,       \* the process that holds sync.lock, or Nobody
          sync,       \* per caller: the Provider process or request that serves it
          caller,     \* per caller: where it is, and what it has read
          manifest,   \* retrieval-index-manifest.json
          scratch,    \* its temporary file, whose name every writer shares
          recall,     \* per recall: where it is, and the selection it has read
          calls, rebuilds, breaks, successes
index  == <<store, selected, lock, sync>>
vault  == <<release, manifest, scratch>>
counts == <<calls, rebuilds, breaks, successes>>
vars   == <<index, vault, caller, recall, counts>>

Nobody == "nobody"
Release == 1..MaxRelease
\* A plain sync of a release always works on the same directory, 0; each
\* rebuild on one of its own.
Generation == Release \X (0..MaxRebuild)
NoGeneration == <<0, 0>>
Nothing == [vectors |-> {}, saved |-> {}, bm25 |-> "none", listed |-> FALSE]
NoSync == [at |-> "none", sent |-> 0, rebuild |-> 0, to |-> NoGeneration]
Idle == [at |-> "idle", saw |-> 0, last |-> 0, status |-> "none", got |-> 0]

Whole(g) == /\ store[g].vectors = 1..Windows
            /\ store[g].bm25 = "whole"
            /\ store[g].listed

Init ==
    /\ release = 1
    /\ store = [g \in Generation |-> Nothing]
    /\ selected = NoGeneration
    /\ lock = Nobody
    /\ sync = [c \in Caller |-> NoSync]
    /\ caller = [c \in Caller |-> Idle]
    /\ manifest = [status |-> "none", of |-> 0, last |-> 0]
    /\ scratch = <<>>
    /\ recall = [r \in Recall |-> [at |-> "idle", has |-> NoGeneration]]
    /\ calls = 0 /\ rebuilds = 0 /\ breaks = 0 /\ successes = 0

(***************************************************************************)
(* The Vault: Vault Finalize applies the next release.  The guard a worker *)
(* holds while it records its manifest is its own workflow's, and stops    *)
(* neither another workflow nor a person from applying one.                *)
(***************************************************************************)
ApplyRelease ==
    /\ release < MaxRelease
    /\ release' = release + 1
    /\ UNCHANGED <<index, manifest, scratch, caller, recall, counts>>

(***************************************************************************)
(* Callers.                                                                *)
(***************************************************************************)

\* Both read the release; the script has read the previous manifest before.
Identify(c) ==
    /\ caller[c].at = "idle"
    /\ sync[c].at = "none"
    /\ calls < MaxCall
    /\ calls' = calls + 1
    /\ caller' = [caller EXCEPT ![c] = [Idle EXCEPT !.at = "identified", !.saw = release,
                      !.last = IF c \in Script THEN manifest.last ELSE 0]]
    /\ UNCHANGED <<index, vault, recall, rebuilds, breaks, successes>>

\* Only the script can be told to rebuild.
Call(c) ==
    /\ caller[c].at = "identified"
    /\ \E rebuild \in BOOLEAN :
          /\ rebuild => c \in Script /\ rebuilds < MaxRebuild
          /\ rebuilds' = rebuilds + (IF rebuild THEN 1 ELSE 0)
          /\ sync' = [sync EXCEPT ![c] = [NoSync EXCEPT !.at = "asked",
                          !.sent = caller[c].saw, !.rebuild = IF rebuild THEN rebuilds' ELSE 0]]
    /\ caller' = [caller EXCEPT ![c].at = "waiting"]
    /\ UNCHANGED <<store, selected, lock, vault, recall, calls, breaks, successes>>

\* The answer arrives: the script turns whatever came into a manifest; the
\* worker accepts only the exact ready release, and otherwise ends.
Answered(c, status, of) ==
    IF caller[c].at # "waiting" THEN caller
    ELSE IF c \in Worker /\ (status # "ready" \/ of # caller[c].saw)
         THEN [caller EXCEPT ![c] = Idle]
         ELSE [caller EXCEPT ![c].at = "answered", ![c].status = status, ![c].got = of]

\* The worker takes its guard and reads the release and the manifest again.
Confirm(c) ==
    /\ c \in Worker
    /\ caller[c].at = "answered"
    /\ caller' = [caller EXCEPT ![c] = IF release = caller[c].saw
                      THEN [@ EXCEPT !.at = "confirmed", !.last = manifest.last] ELSE Idle]
    /\ UNCHANGED <<index, vault, recall, counts>>

\* portable_manifest: a ready answer is a success now; any other keeps the
\* last success of the manifest read before.
Portable(c) ==
    [status |-> caller[c].status, of |-> caller[c].got,
     last |-> IF caller[c].status = "ready" THEN successes + 1 ELSE caller[c].last]

WriteScratch(c) ==
    /\ caller[c].at = IF c \in Worker THEN "confirmed" ELSE "answered"
    /\ scratch' = <<Portable(c)>>
    /\ successes' = IF caller[c].status = "ready" THEN successes + 1 ELSE successes
    /\ caller' = [caller EXCEPT ![c].at = "written"]
    /\ UNCHANGED <<index, release, manifest, recall, calls, rebuilds, breaks>>

\* A rename without its file raises, and the caller ends without a record.
Rename(c) ==
    /\ caller[c].at = "written"
    /\ manifest' = IF scratch = <<>> THEN manifest ELSE scratch[1]
    /\ scratch' = <<>>
    /\ caller' = [caller EXCEPT ![c] = Idle]
    /\ UNCHANGED <<index, release, recall, counts>>

(***************************************************************************)
(* The Provider: one sync.                                                 *)
(***************************************************************************)
At(c, place) == sync[c].at = place
Go(c, place) == sync' = [sync EXCEPT ![c].at = place]

\* The sync ends, with or without having held the lock.
End(c, status, of) ==
    /\ sync' = [sync EXCEPT ![c] = NoSync]
    /\ lock' = IF lock = c THEN Nobody ELSE lock
    /\ caller' = Answered(c, status, of)
Fail(c) == End(c, "failed", 0)

ProviderKeeps == UNCHANGED <<vault, recall, counts>>

\* The lock is not waited for.
Lock(c) ==
    /\ At(c, "asked")
    /\ IF lock = Nobody
       THEN lock' = c /\ Go(c, "reading") /\ UNCHANGED caller
       ELSE Fail(c)
    /\ UNCHANGED <<store, selected>> /\ ProviderKeeps

\* Mutant: any selection is taken for one of the release asked for.
ReusesAny(c) == sync[c].rebuild = 0 /\ selected # NoGeneration

\* A plain sync of the release that is selected rebuilds nothing.
Reusable(c) == sync[c].rebuild = 0 /\ selected[1] = sync[c].sent

\* Where the sync builds: the release's own directory, or one never used.
Target(c) == <<sync[c].sent, sync[c].rebuild>>

\* Mutant: a rebuild resets the directory of the release.
RebuildsInPlace(c) ==
    /\ At(c, "reading")
    /\ UNCHANGED selected /\ ProviderKeeps
    /\ IF release # sync[c].sent THEN Fail(c) /\ UNCHANGED store
       ELSE IF Reusable(c)
       THEN /\ sync' = [sync EXCEPT ![c].at = "reusing", ![c].to = selected]
            /\ UNCHANGED <<lock, caller, store>>
       ELSE /\ sync' = [sync EXCEPT ![c].at = "embedding", ![c].to = <<release, 0>>]
            /\ store' = [store EXCEPT ![<<release, 0>>] = Nothing]
            /\ UNCHANGED <<lock, caller>>

\* Mutant: a directory that an interrupted sync has left is refused.
RefusesExisting(c) ==
    /\ At(c, "reading")
    /\ UNCHANGED <<store, selected>> /\ ProviderKeeps
    /\ IF release # sync[c].sent THEN Fail(c)
       ELSE IF Reusable(c)
       THEN /\ sync' = [sync EXCEPT ![c].at = "reusing", ![c].to = selected]
            /\ UNCHANGED <<lock, caller>>
       ELSE IF store[Target(c)] # Nothing THEN Fail(c)
       ELSE /\ sync' = [sync EXCEPT ![c].at = "embedding", ![c].to = Target(c)]
            /\ UNCHANGED <<lock, caller>>

\* The current release is read and must be the one asked for; then the
\* selection decides what is to be done.  A selected directory is refused.
Read(c) ==
    /\ At(c, "reading")
    /\ UNCHANGED <<store, selected>> /\ ProviderKeeps
    /\ IF release # sync[c].sent THEN Fail(c)
       ELSE IF Reusable(c)
       THEN /\ sync' = [sync EXCEPT ![c].at = "reusing", ![c].to = selected]
            /\ UNCHANGED <<lock, caller>>
       ELSE IF Target(c) = selected THEN Fail(c)
       ELSE /\ sync' = [sync EXCEPT ![c].at = "embedding", ![c].to = Target(c)]
            /\ UNCHANGED <<lock, caller>>

\* Reuse looks at the directory and at the release once more.
Reuse(c) ==
    /\ At(c, "reusing")
    /\ IF /\ store[selected].listed
          /\ store[selected].bm25 # "none"
          /\ release = sync[c].sent
       THEN Go(c, "selected") /\ UNCHANGED <<lock, caller>>
       ELSE Fail(c)
    /\ UNCHANGED <<store, selected>> /\ ProviderKeeps

\* A window whose completion record and vectors agree is not embedded again.
Verified(g) == store[g].saved \cap store[g].vectors
Missing(g) == 1..Windows \ Verified(g)
NextWindow(g) == CHOOSE w \in Missing(g) : \A v \in Missing(g) : w <= v

\* Embed one window, write its vectors ...
Embed(c) ==
    /\ At(c, "embedding")
    /\ Missing(sync[c].to) # {}
    /\ store' = [store EXCEPT ![sync[c].to].vectors = @ \cup {NextWindow(sync[c].to)}]
    /\ Go(c, "saving")
    /\ UNCHANGED <<selected, lock, caller>> /\ ProviderKeeps

\* ... read them back and save the record of the window.
Save(c) ==
    /\ At(c, "saving")
    /\ store' = [store EXCEPT ![sync[c].to].saved = @ \cup {NextWindow(sync[c].to)}]
    /\ Go(c, "embedding")
    /\ UNCHANGED <<selected, lock, caller>> /\ ProviderKeeps

\* The windows are complete (their count is compared); bm25.json is then written in place.
OpenBM25(c) ==
    /\ At(c, "embedding")
    /\ Missing(sync[c].to) = {}
    /\ store' = [store EXCEPT ![sync[c].to].bm25 = "torn"]
    /\ Go(c, "bm25")
    /\ UNCHANGED <<selected, lock, caller>> /\ ProviderKeeps

WriteBM25(c) ==
    /\ At(c, "bm25")
    /\ store' = [store EXCEPT ![sync[c].to].bm25 = "whole"]
    /\ Go(c, "verifying")
    /\ UNCHANGED <<selected, lock, caller>> /\ ProviderKeeps

\* Mutant: the projection manifest is not written.
SkipsList(c) ==
    /\ At(c, "verifying")
    /\ IF release = sync[c].sent THEN Go(c, "selecting") /\ UNCHANGED <<lock, caller>>
       ELSE Fail(c)
    /\ UNCHANGED <<store, selected>> /\ ProviderKeeps

\* The corpus is read again after the long build.
Verify(c) ==
    /\ At(c, "verifying")
    /\ IF release = sync[c].sent THEN Go(c, "listing") /\ UNCHANGED <<lock, caller>>
       ELSE Fail(c)
    /\ UNCHANGED <<store, selected>> /\ ProviderKeeps

\* projection-manifest.json, then index-state.json, each replaced as a whole.
List(c) ==
    /\ At(c, "listing")
    /\ store' = [store EXCEPT ![sync[c].to].listed = TRUE]
    /\ Go(c, "selecting")
    /\ UNCHANGED <<selected, lock, caller>> /\ ProviderKeeps

Select(c) ==
    /\ At(c, "selecting")
    /\ selected' = sync[c].to
    /\ Go(c, "selected")
    /\ UNCHANGED <<store, lock, caller>> /\ ProviderKeeps

Answer(c) ==
    /\ At(c, "selected")
    /\ End(c, "ready", sync[c].sent)
    /\ UNCHANGED <<store, selected>> /\ ProviderKeeps

ProviderStep(c) ==
    \/ Lock(c) \/ Read(c) \/ Reuse(c) \/ Embed(c) \/ Save(c) \/ OpenBM25(c)
    \/ WriteBM25(c) \/ Verify(c) \/ List(c) \/ Select(c) \/ Answer(c)

(***************************************************************************)
(* What goes wrong: a Provider process dies or its sync raises anywhere    *)
(* (the operating system frees the lock, and the caller hears of a         *)
(* failure); a caller dies, and the sync it asked for goes on; a caller    *)
(* waits no longer.  Giving up kills a Provider command, but an HTTP       *)
(* service works on.                                                       *)
(***************************************************************************)
Broken == breaks < MaxBreak /\ breaks' = breaks + 1

ProviderDies(c) ==
    /\ sync[c].at # "none"
    /\ Broken
    /\ Fail(c)
    /\ UNCHANGED <<store, selected, vault, recall, calls, rebuilds, successes>>

CallerDies(c) ==
    /\ caller[c].at # "idle"
    /\ Broken
    /\ caller' = [caller EXCEPT ![c] = Idle]
    /\ UNCHANGED <<index, vault, recall, calls, rebuilds, successes>>

CallerTimesOut(c) ==
    /\ caller[c].at = "waiting"
    /\ Broken
    /\ IF c \in Http
       THEN caller' = Answered(c, "failed", 0) /\ UNCHANGED <<lock, sync>>
       ELSE Fail(c)
    /\ UNCHANGED <<store, selected, vault, recall, calls, rebuilds, successes>>

(***************************************************************************)
(* A recall reads the selection, then the current release, and answers     *)
(* nothing when they differ; otherwise it opens the generation it has      *)
(* read, whatever is selected by then.                                     *)
(***************************************************************************)
RecallKeeps == UNCHANGED <<index, vault, caller, counts>>

ReadSelection(r) ==
    /\ recall[r].at = "idle"
    /\ selected # NoGeneration
    /\ recall' = [recall EXCEPT ![r] = [at |-> "comparing", has |-> selected]]
    /\ RecallKeeps

Compare(r) ==
    /\ recall[r].at = "comparing"
    /\ recall' = [recall EXCEPT ![r] = IF release = recall[r].has[1]
                      THEN [@ EXCEPT !.at = "opening"] ELSE [at |-> "idle", has |-> NoGeneration]]
    /\ RecallKeeps

OpenGeneration(r) ==
    /\ recall[r].at = "opening"
    /\ recall' = [recall EXCEPT ![r] = [at |-> "idle", has |-> NoGeneration]]
    /\ RecallKeeps

RecallStep(r) == ReadSelection(r) \/ Compare(r) \/ OpenGeneration(r)

CallerStep(c) == Identify(c) \/ Call(c) \/ Confirm(c) \/ WriteScratch(c) \/ Rename(c)

Next ==
    \/ ApplyRelease
    \/ \E c \in Caller : \/ CallerStep(c)
                         \/ ProviderStep(c)
                         \/ ProviderDies(c)
                         \/ CallerDies(c)
                         \/ CallerTimesOut(c)
    \/ \E r \in Recall : RecallStep(r)

Spec == Init /\ [][Next]_vars

\* A Provider process that runs keeps running.  Nobody has to ask for a sync.
FairSpec == Spec /\ \A c \in Caller : WF_vars(ProviderStep(c))

(***************************************************************************)
(* Properties.                                                             *)
(***************************************************************************)
Status == {"none", "ready", "failed"}

\* Type of every variable.
IndexTypeOK ==
    /\ release \in Release
    /\ store \in [Generation -> [vectors : SUBSET (1..Windows), saved : SUBSET (1..Windows),
                                 bm25 : {"none", "torn", "whole"}, listed : BOOLEAN]]
    /\ selected \in Generation \cup {NoGeneration}
    /\ lock \in Caller \cup {Nobody}
    /\ sync \in [Caller -> [at : {"none", "asked", "reading", "reusing", "embedding", "saving",
                                  "bm25", "verifying", "listing", "selecting", "selected"},
                            sent : 0..MaxRelease, rebuild : 0..MaxRebuild,
                            to : Generation \cup {NoGeneration}]]
    /\ caller \in [Caller -> [at : {"idle", "identified", "waiting", "answered", "confirmed",
                                    "written"},
                              saw : 0..MaxRelease, last : 0..MaxCall,
                              status : Status, got : 0..MaxRelease]]
    /\ manifest \in [status : Status, of : 0..MaxRelease, last : 0..MaxCall]
    /\ scratch = <<>> \/ scratch[1] \in [status : Status, of : 0..MaxRelease, last : 0..MaxCall]
    /\ recall \in [Recall -> [at : {"idle", "comparing", "opening"},
                              has : Generation \cup {NoGeneration}]]
    /\ calls \in 0..MaxCall /\ rebuilds \in 0..MaxRebuild
    /\ breaks \in 0..MaxBreak /\ successes \in 0..MaxCall

\* The generations a query can be served from: the selected one, and those
\* that recalls under way have chosen.
Serving == ({selected} \cup {recall[r].has : r \in Recall}) \ {NoGeneration}

\* "No partially built candidate becomes query-ready": every generation in
\* service is complete, whatever died, was resumed or was rebuilt meanwhile.
ServedWhole == \A g \in Serving : Whole(g)

\* The index keeps its shape, and what is served of it is whole.
IndexHolds == IndexTypeOK /\ ServedWhole

\* "Retrieval selects an immutable ready generation": no step of any sync
\* writes into the directory of a generation in service.
ServedUntouched == [][\A g \in Serving : store'[g] = store[g]]_vars

\* When the Vault says query ready (vault_config.py: the manifest is ready
\* for the current release), the index the Provider has selected is of that
\* release, however late the answer was recorded.
QueryReadyIsTrue ==
    manifest.status = "ready" /\ manifest.of = release => selected[1] = release

\* A sync that holds the lock for the current release selects an index of it
\* unless a release is applied or something breaks: nothing that an earlier
\* sync left behind stands in its way.
SyncSelects ==
    \A c \in Caller, n \in Release, k \in 0..MaxBreak :
        (lock = c /\ sync[c].sent = n /\ release = n /\ breaks = k)
            ~> (selected[1] = n \/ release # n \/ breaks # k)

(* What does not hold: README, section 6.                                  *)

\* "Preserve the prior last_success when a new attempt fails": the time of
\* the last success never goes back.
LastSuccessKept == [][manifest'.last >= manifest.last]_vars
=============================================================================
