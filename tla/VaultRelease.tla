---------------------------- MODULE VaultRelease ----------------------------
(***************************************************************************)
(* Publishing knowledge releases (vault_finalize.py) while builds commit   *)
(* pages (knowledge_build.py).                                             *)
(*                                                                         *)
(* A build run revises one page: Reduce drafts it against the page's       *)
(* current revision, Build Finalize commits it.  A release is planned      *)
(* over completed builds and applied later; where a page has moved, the    *)
(* release leaves a redirect at its old path.  Both write file after file, *)
(* each write atomic, and both are retried after a crash.  Each holds a    *)
(* lock of its own, so a build and a release may write at the same time,   *)
(* unless both are cards of one workflow, whose lock they then share.      *)
(*                                                                         *)
(* A revision is named by its run, and the names are ordered as the        *)
(* revision ids sort; two revisions never have the same text.  Planning,   *)
(* which re-reads what it read before it ends, is one step.                *)
(*                                                                         *)
(* Left out: source changes, eligibility, wikilinks, delivery scopes and   *)
(* page governance, which fill a release but do not order its writes; the  *)
(* tasks a build completes; runs of several pages.                         *)
(*                                                                         *)
(* An operator named X_Y is X with the mistake Y: no definition uses it;   *)
(* it shows what the properties would catch.                               *)
(***************************************************************************)
EXTENDS Integers, FiniteSets

CONSTANTS
  Page,        \* the page identities
  Path,        \* the governed Markdown paths
  Run,         \* the build runs, and so the revisions, in id order
  Release,     \* the release ids
  NoRelease,   \* no release was committed yet, or none is being applied
  MaxCrashes   \* bound: processes that die between two writes

NoRun == 0

ASSUME VaultAssumption ==
  /\ Run \subseteq Nat \ {NoRun} /\ IsFiniteSet(Run) /\ IsFiniteSet(Release)
  /\ NoRelease \notin Release /\ MaxCrashes \in Nat

\* What a path holds: nothing, the text of a revision, or a redirect.
Nothing == [kind |-> "nothing"]
Text(r) == [kind |-> "text", run |-> r]
Pointer(p, to) == [kind |-> "redirect", page |-> p, to |-> to]

BuildRun ==
  [state: {"draft", "completed"}, page: Page, path: Path, parent: Run \cup {NoRun}]
Redirect == [from: Path, to: Path, page: Page, source: Run]

\* The writes of a commit and of an apply, in their order.
BuildWrites == [sidecar |-> 1, page |-> 2, registry |-> 3, manifest |-> 4]
NextWrite_ManifestFirst ==
  [redirects |-> "versioned", versioned |-> "navigation", navigation |-> "state",
   state |-> "manifest", plan |-> "manifest"]

NextWrite ==
  [redirects |-> "versioned", versioned |-> "navigation", navigation |-> "state",
   state |-> "plan", plan |-> "manifest"]

\* Records that exist are the domain of a function that grows.
Put(f, x, v) == [y \in DOMAIN f \cup {x} |-> IF y = x THEN v ELSE f[y]]

VARIABLES
  serialised,  \* whether builds and releases are cards of one workflow
  run,         \* the build runs drafted so far
  sidecar,     \* the committed page revisions on disk
  registry,    \* the current revision of every page that has one
  file,        \* what every path holds
  building,    \* Build Finalize at work: its run and the writes left
  ledger,      \* the knowledge release state
  plan,        \* the release plans saved so far
  versioned,   \* the releases whose navigation snapshot is written
  navigation,  \* the release the current navigation shows
  manifest,    \* the releases whose manifest is written
  applying,    \* apply at work: its release, its next write, redirects left
  crashes      \* bounded count of crashes

knowledge == <<serialised, run, sidecar, registry>>
records == <<ledger, plan, versioned, navigation, manifest>>
vars == <<knowledge, file, building, records, applying, crashes>>

NotBuilding == [run |-> NoRun, left |-> {}]
NotApplying == [release |-> NoRelease, next |-> "redirects", left |-> {}]

Active == DOMAIN registry
Current(p) == run[registry[p]].path

\* The lock of the workflow is free for one of them to begin.
Free(other) == serialised => other

Init ==
  /\ serialised \in BOOLEAN
  /\ run = <<>> /\ sidecar = {} /\ registry = <<>>
  /\ file = [q \in Path |-> Nothing]
  /\ building = NotBuilding
  /\ ledger = [revision |-> 0, current |-> NoRelease, applied |-> {}, releases |-> {}]
  /\ plan = <<>> /\ versioned = {} /\ navigation = NoRelease /\ manifest = {}
  /\ applying = NotApplying /\ crashes = 0

(***************************************************************************)
(* Builds.                                                                 *)
(***************************************************************************)
\* Reduce drafts a revision of page p for path q; no other page owns q.
Reduce(r, p, q) ==
  /\ r \notin DOMAIN run
  /\ \A x \in Active \ {p} : Current(x) # q
  /\ run' = Put(run, r, [state |-> "draft", page |-> p, path |-> q,
                          parent |-> IF p \in Active THEN registry[p] ELSE NoRun])
  /\ UNCHANGED <<serialised, sidecar, registry, file, building, records, applying, crashes>>

\* Mutant: the page must be as it was when r was drafted.
ParentKept_FirstOnly(r) ==
  LET p == run[r].page IN
  p \in Active => registry[p] = run[r].parent /\ file[Current(p)] = Text(run[r].parent)

\* The page is as it was when r was drafted, or r's own commit moved it on.
ParentKept(r) ==
  LET p == run[r].page IN
  p \in Active =>
    /\ registry[p] \in {run[r].parent, r}
    /\ registry[p] # r => file[Current(p)] = Text(run[r].parent)

TargetFree_Any(r) == TRUE

TargetFree_NoRedirect(r) == file[run[r].path].kind # "redirect"

\* The file at r's path may be replaced: it is not there, it is r's own, or
\* it is the page's current text.
TargetFree(r) ==
  LET p == run[r].page
      q == run[r].path
  IN  \/ file[q] \in {Nothing, Text(r)}
      \/ p \in Active /\ Current(p) = q /\ file[q] = Text(run[r].parent)

Committable(r) ==
  /\ run[r].state = "draft" /\ ParentKept(r) /\ TargetFree(r)
  /\ \A x \in Active \ {run[r].page} : Current(x) # run[r].path

\* What a retry finds done already it does not write again.
Unwritten(r) ==
  LET p == run[r].page IN
  {w \in DOMAIN BuildWrites :
     /\ w = "sidecar" => r \notin sidecar
     /\ w = "page" => file[run[r].path] # Text(r)
     /\ w = "registry" => p \notin Active \/ registry[p] # r}

BeginCommit(r) ==
  /\ building = NotBuilding /\ Free(applying = NotApplying) /\ Committable(r)
  /\ building' = [run |-> r, left |-> Unwritten(r)]
  /\ UNCHANGED <<knowledge, file, records, applying, crashes>>

WriteCommit(w) ==
  LET r == building.run
      p == run[r].page
  IN  /\ w \in building.left
      /\ \A x \in building.left : BuildWrites[w] <= BuildWrites[x]
      /\ sidecar' = IF w = "sidecar" THEN sidecar \cup {r} ELSE sidecar
      /\ file' = IF w = "page" THEN [file EXCEPT ![run[r].path] = Text(r)] ELSE file
      /\ registry' = IF w = "registry" THEN Put(registry, p, r) ELSE registry
      /\ run' = IF w = "manifest" THEN [run EXCEPT ![r].state = "completed"] ELSE run
      /\ building' = IF w = "manifest" THEN NotBuilding
                     ELSE [building EXCEPT !.left = @ \ {w}]
      /\ UNCHANGED <<serialised, records, applying, crashes>>

(***************************************************************************)
(* Planning a release.                                                     *)
(***************************************************************************)
Revisions(p, q) == {r \in sidecar : run[r].page = p /\ run[r].path = q}
OldPaths_All(p) == {run[r].path : r \in {x \in sidecar : run[x].page = p}}

OldPaths(p) == {run[r].path : r \in {x \in sidecar : run[x].page = p}} \ {Current(p)}

\* Of several revisions at one path the one that sorts last is looked at.
Recorded(p, q) == CHOOSE r \in Revisions(p, q) : \A x \in Revisions(p, q) : x <= r

\* Only the page's recorded text, or a redirect of the page, may be replaced.
Recognised(p, q) ==
  \/ file[q] \in {Nothing, Text(Recorded(p, q))}
  \/ file[q].kind = "redirect" /\ file[q].page = p

Redirects ==
  UNION {{[from |-> q, to |-> Current(p), page |-> p, source |-> Recorded(p, q)] :
            q \in {x \in OldPaths(p) : file[x] # Nothing}} : p \in Active}

\* The builds a request names; naming none selects every build not applied.
Selected(R) == IF R = {} THEN DOMAIN run \ ledger.applied ELSE R

Plannable(R) ==
  /\ \A r \in Selected(R) : run[r].state = "completed"
  /\ \A p \in Active : file[Current(p)] = Text(registry[p])
  /\ \A p \in Active : \A q \in OldPaths(p) : Recognised(p, q)

NewPlan_Previous(R) ==
  [state |-> "draft", expected |-> ledger.revision - 1, runs |-> Selected(R),
   subjects |-> registry, redirects |-> Redirects]

NewPlan(R) ==
  [state |-> "draft", expected |-> ledger.revision, runs |-> Selected(R),
   subjects |-> registry, redirects |-> Redirects]

Plan(v, R) ==
  /\ v \notin DOMAIN plan /\ Free(building = NotBuilding) /\ Plannable(R)
  /\ plan' = Put(plan, v, NewPlan(R))
  /\ UNCHANGED <<knowledge, file, building, ledger, versioned, navigation, manifest,
                 applying, crashes>>

(***************************************************************************)
(* Applying a release.                                                     *)
(***************************************************************************)
Recovering_AnyLater(v) == v \in ledger.releases

\* The state was advanced by an earlier apply of v that did not end.
Recovering(v) ==
  /\ ledger.revision = plan[v].expected + 1 /\ ledger.current = v
  /\ plan[v].runs \subseteq ledger.applied

\* Nothing changed since the plan was made.
Unchanged(v) ==
  /\ ledger.revision = plan[v].expected /\ plan[v].state = "draft"
  /\ Plannable(plan[v].runs) /\ NewPlan(plan[v].runs) = plan[v]

Replaceable(v) ==
  \A d \in plan[v].redirects : file[d.from] \in {Text(d.source), Pointer(d.page, d.to)}

Applicable(v) ==
  v \notin manifest /\ (Unchanged(v) \/ Recovering(v)) /\ Replaceable(v)

BeginApply(v) ==
  /\ applying = NotApplying /\ Free(building = NotBuilding)
  /\ v \in DOMAIN plan /\ Applicable(v)
  /\ applying' = [release |-> v, next |-> "redirects", left |-> plan[v].redirects]
  /\ UNCHANGED <<knowledge, file, building, records, crashes>>

WriteRedirect(d) ==
  /\ d \in applying.left
  /\ file' = [file EXCEPT ![d.from] = Pointer(d.page, d.to)]
  /\ applying' = [applying EXCEPT !.left = @ \ {d}]
  /\ UNCHANGED <<knowledge, building, records, crashes>>

Advanced(v) ==
  IF Recovering(v) THEN ledger
  ELSE [revision |-> ledger.revision + 1, current |-> v,
        applied |-> ledger.applied \cup plan[v].runs,
        releases |-> ledger.releases \cup {v}]

\* The manifest is written last.
WriteRelease ==
  LET v == applying.release
      last == applying.next = "manifest"
  IN  /\ v # NoRelease /\ applying.left = {}
      /\ versioned' = IF applying.next = "versioned" THEN versioned \cup {v} ELSE versioned
      /\ navigation' = IF applying.next = "navigation" THEN v ELSE navigation
      /\ ledger' = IF applying.next = "state" THEN Advanced(v) ELSE ledger
      /\ plan' = IF applying.next = "plan" THEN [plan EXCEPT ![v].state = "applied"] ELSE plan
      /\ manifest' = IF last THEN manifest \cup {v} ELSE manifest
      /\ applying' = IF last THEN NotApplying
                     ELSE [applying EXCEPT !.next = NextWrite[applying.next]]
      /\ UNCHANGED <<knowledge, file, building, crashes>>

\* Either process may die between two writes; its lock dies with it.
BuilderDies ==
  /\ building # NotBuilding /\ crashes < MaxCrashes
  /\ building' = NotBuilding /\ crashes' = crashes + 1
  /\ UNCHANGED <<knowledge, file, records, applying>>

ReleaserDies ==
  /\ applying # NotApplying /\ crashes < MaxCrashes
  /\ applying' = NotApplying /\ crashes' = crashes + 1
  /\ UNCHANGED <<knowledge, file, building, records>>

Next ==
  \/ \E r \in Run, p \in Page, q \in Path : Reduce(r, p, q)
  \/ \E r \in DOMAIN run : BeginCommit(r)
  \/ \E w \in DOMAIN BuildWrites : WriteCommit(w)
  \/ \E v \in Release, R \in SUBSET DOMAIN run : Plan(v, R)
  \/ \E v \in DOMAIN plan : BeginApply(v)
  \/ \E d \in applying.left : WriteRedirect(d)
  \/ WriteRelease
  \/ BuilderDies
  \/ ReleaserDies

Spec == Init /\ [][Next]_vars

(***************************************************************************)
(* What must hold.                                                         *)
(***************************************************************************)
\* The records keep their shape.
TypeOK ==
  /\ serialised \in BOOLEAN
  /\ DOMAIN run \subseteq Run /\ run \in [DOMAIN run -> BuildRun]
  /\ sidecar \subseteq DOMAIN run
  /\ Active \subseteq Page /\ registry \in [Active -> DOMAIN run]
  /\ file \in [Path -> {Nothing} \cup {Text(r) : r \in DOMAIN run}
                       \cup {Pointer(p, q) : p \in Page, q \in Path}]
  /\ building.run \in DOMAIN run \cup {NoRun} /\ building.left \subseteq DOMAIN BuildWrites
  /\ ledger \in [revision: Nat, current: Release \cup {NoRelease},
                 applied: SUBSET DOMAIN run, releases: SUBSET Release]
  /\ DOMAIN plan \subseteq Release
  /\ \A v \in DOMAIN plan :
       /\ plan[v].state \in {"draft", "applied"} /\ plan[v].expected \in Nat
       /\ plan[v].runs \subseteq DOMAIN run
       /\ plan[v].subjects \in [DOMAIN plan[v].subjects -> DOMAIN run]
       /\ DOMAIN plan[v].subjects \subseteq Active
       /\ plan[v].redirects \subseteq Redirect
  /\ versioned \subseteq DOMAIN plan /\ manifest \subseteq DOMAIN plan
  /\ navigation \in DOMAIN plan \cup {NoRelease}
  /\ applying.release \in DOMAIN plan \cup {NoRelease}
  /\ applying.left \subseteq Redirect /\ applying.next \in DOMAIN NextWrite \cup {"manifest"}
  /\ crashes \in 0..MaxCrashes

\* A manifest is the proof of its release: whoever finds one finds the plan
\* applied, the snapshot, the release in the state, and its builds completed
\* and counted as applied, wherever earlier attempts died.
ManifestMeansCommitted ==
  \A v \in manifest :
    /\ plan[v].state = "applied" /\ v \in versioned /\ v \in ledger.releases
    /\ plan[v].runs \subseteq ledger.applied
    /\ \A r \in plan[v].runs : run[r].state = "completed"

\* A release takes effect once, however often its apply is retried: the state
\* revision counts the releases, and the current one is among them.
AppliedOnce ==
  /\ ledger.revision = Cardinality(ledger.releases)
  /\ ledger.current \in ledger.releases \/ ledger.releases = {}

\* While it is the current one, a release whose apply died after the state
\* was written can be completed, whatever builds have done meanwhile (if no
\* build could write beside the apply).
InterruptedResumes ==
  LET v == ledger.current IN
  v \in ledger.releases \ manifest =>
    Recovering(v) /\ (serialised => Replaceable(v))

\* The navigation readers see is the current release's, or that of an apply
\* that has not reached the state; never that of a release already replaced.
NavigationNotOld ==
  navigation \in ledger.releases => navigation = ledger.current

\* The records of the releases agree with each other, with the builds and
\* with what readers see.
CommittedOnce == ManifestMeansCommitted /\ AppliedOnce /\ NavigationNotOld

\* Builds and releases never replace another page's file: what stands at a
\* path gives way to a text or a redirect of its own page only.
Owner(f) == IF f.kind = "text" THEN run[f.run].page ELSE f.page

OnlyOwnReplaced ==
  [][\A q \in Path :
       file[q] \notin {Nothing, file'[q]} =>
         file'[q] # Nothing /\ Owner(file[q]) = Owner(file[q])']_vars

\* Redirects lead somewhere: never in a circle, never to a missing file.
RedirectsEnd ==
  \A S \in (SUBSET Path) \ {{}} :
    \E q \in S :
      file[q].kind = "redirect" => file[q].to \notin S /\ file[file[q].to] # Nothing

\* vault-finalize.md: redirects are for old paths.  With builds and releases
\* serialised, the file of a completed build becomes one only when a later
\* revision of the page is committed elsewhere.
RedirectsOnlyBehind ==
  serialised =>
    \A r \in sidecar :
      run[r].state = "completed" /\ file[run[r].path].kind = "redirect" =>
        \E x \in sidecar : run[x].parent = r

\* A redirect stands where a page was, and leads to where one is.
RedirectsLeadOn == RedirectsEnd /\ RedirectsOnlyBehind

\* source-units.md: the run manifest is written last, so an interruption can
\* be safely retried: wherever it fell, unless another build has committed to
\* the page or the path meanwhile, or a release has redirected the file or the
\* page's current one, or it fell between the two writes of an update in place.
Overtaken(r) ==
  \/ file[run[r].path].kind = "redirect"
  \/ run[r].page \in Active /\ file[Current(run[r].page)].kind = "redirect"
  \/ \E x \in sidecar \ {r} :
       \/ run[x].page = run[r].page /\ run[x].parent \in {r, run[r].parent}
       \/ run[x].page # run[r].page /\ run[x].path = run[r].path

\* An update in place whose page is written and whose registry is not.
HalfUpdated(r) ==
  LET p == run[r].page IN
  p \in Active /\ registry[p] = run[r].parent /\ file[Current(p)] = Text(r)

CommitRetries ==
  \A r \in sidecar :
    building = NotBuilding /\ run[r].state = "draft" /\ ~Overtaken(r) /\ ~HalfUpdated(r) =>
      Committable(r)

\* What died half written is taken up by its retry: a release, or a build.
RetriesSucceed == InterruptedResumes /\ CommitRetries

(***************************************************************************)
(* What does not hold: README, section 6.                                  *)
(***************************************************************************)
\* vault-finalize.md: a moved page's old file may be redirected when it still
\* matches its committed revision.
CommittedIsRecognised ==
  \A p \in Active : \A q \in OldPaths(p) :
    file[q] \in {Text(r) : r \in Revisions(p, q)} => Recognised(p, q)

\* A plan to which nothing has happened can be applied: an old file that is
\* an earlier redirect, which planning accepts, does not stop the apply.
PlanIsApplicable ==
  \A v \in DOMAIN plan : Unchanged(v) => Replaceable(v)

\* The newest committed revision of a page, its build finished or not, is not
\* turned into a redirect.
NewestIsNoRedirect ==
  \A r \in sidecar :
    file[run[r].path].kind = "redirect" => \E x \in sidecar : run[x].parent = r

\* The same for updates in place.
InterruptedCommitRetries ==
  \A r \in sidecar :
    building = NotBuilding /\ run[r].state = "draft" /\ ~Overtaken(r) => Committable(r)
=============================================================================
