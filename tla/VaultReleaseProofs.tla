------------------------- MODULE VaultReleaseProofs -------------------------
(* Proofs about VaultRelease, for every value of its constants.             *)
EXTENDS VaultRelease, FiniteSetTheorems, WellFoundedInduction, TLAPS

(***************************************************************************)
(* The parts of the inductive invariant.                                   *)
(***************************************************************************)
IsText(f) == f.kind = "text"
IsRedirect(f) == f.kind = "redirect"

PlanRecord ==
  [state : {"draft", "applied"}, expected : Nat, runs : SUBSET Run,
   subjects : UNION {[S -> Run] : S \in SUBSET Page}, redirects : SUBSET Redirect]

\* The records have their fields; builds and releases of one workflow are
\* never at work together.
Shapes ==
  /\ building \in [run : DOMAIN run \cup {NoRun}, left : SUBSET DOMAIN BuildWrites]
  /\ building.run = NoRun => building = NotBuilding
  /\ building.run # NoRun => "manifest" \in building.left
  /\ applying \in [release : DOMAIN plan \cup {NoRelease},
                   next : DOMAIN NextWrite \cup {"manifest"}, left : SUBSET Redirect]
  /\ applying.release = NoRelease => applying = NotApplying
  /\ plan \in [DOMAIN plan -> PlanRecord]
  /\ serialised => building = NotBuilding \/ applying = NotApplying

\* A revision's parent is an earlier one of its page, which had none before
\* its first; pages are at paths of their own.
Lineage ==
  /\ \A r \in DOMAIN run :
       /\ run[r].parent \in DOMAIN run \cup {NoRun} /\ run[r].parent # r
       /\ run[r].parent # NoRun =>
            run[run[r].parent].page = run[r].page /\ run[run[r].parent].parent # r
       /\ run[r].page \notin Active => run[r].parent = NoRun
  /\ \A p \in Active : registry[p] \in sidecar /\ run[registry[p]].page = p
  /\ \A p, x \in Active : p # x => Current(p) # Current(x)

\* The revision is its page's current one, or was.
Registered(r) ==
  \/ run[r].page \in Active /\ registry[run[r].page] = r
  \/ \E x \in DOMAIN run : run[x].parent = r

\* A page does not return to the parent of a revision it has had.
NeverBack ==
  \A r \in DOMAIN run :
    Registered(r) /\ run[r].page \in Active => run[r].parent # registry[run[r].page]

\* A completed build's revision is the current one or has a successor.
Succeeded ==
  \A r \in DOMAIN run : run[r].state = "completed" =>
    /\ r \in sidecar
    /\ \/ run[r].page \in Active /\ registry[run[r].page] = r
       \/ \E x \in sidecar : run[x].parent = r

\* A page's current file holds its revision, the next one, half committed, or
\* the redirect of a release that ran beside a build.
CurrentFile ==
  \A p \in Active :
    \/ file[Current(p)] = Text(registry[p])
    \/ IsRedirect(file[Current(p)]) /\ ~serialised
    \/ \E x \in sidecar : /\ run[x].page = p /\ run[x].parent = registry[p]
                          /\ run[x].path = Current(p) /\ file[Current(p)] = Text(x)

\* What the file at the path of the building run r holds before and after the
\* page is written.
ToBeWritten(r) ==
  \/ file[run[r].path] = Nothing
  \/ /\ run[r].page \in Active /\ Current(run[r].page) = run[r].path
     /\ Owner(file[run[r].path]) = run[r].page
     /\ \/ file[run[r].path] = Text(run[r].parent)
        \/ IsRedirect(file[run[r].path]) /\ ~serialised

Written(r) ==
  file[run[r].path] = Text(r) \/ (IsRedirect(file[run[r].path]) /\ ~serialised)

\* How far the build at work has come, by the writes it has left.
Committing ==
  building.run # NoRun =>
    LET r == building.run IN
    /\ \A x \in Active \ {run[r].page} : Current(x) # run[r].path
    /\ "registry" \in building.left =>
         run[r].page \notin Active \/ registry[run[r].page] = run[r].parent
    /\ "registry" \notin building.left =>
         run[r].page \in Active /\ registry[run[r].page] = r
    /\ "sidecar" \notin building.left => r \in sidecar
    /\ "page" \in building.left =>
         /\ run[r].page \notin Active \/ registry[run[r].page] = run[r].parent
         /\ ToBeWritten(r)
    /\ "page" \notin building.left => Written(r)

\* Another revision of the page, or of another page at the path, went past r.
Passed(r) ==
  \E x \in sidecar \ {r} :
    \/ run[x].page = run[r].page /\ run[x].parent \in {r, run[r].parent}
    \/ run[x].page # run[r].page /\ run[x].path = run[r].path

\* A committed revision that was not passed finds its page and its file as
\* they were when it was drafted, or as its own writes left them.
Unpassed(r) ==
  /\ run[r].page \in Active => registry[run[r].page] \in {run[r].parent, r}
  /\ \/ file[run[r].path] \in {Nothing, Text(r)}
     \/ IsRedirect(file[run[r].path])
     \/ /\ run[r].parent # NoRun /\ file[run[r].path] = Text(run[r].parent)
        /\ run[run[r].parent].path = run[r].path

Retriable == \A r \in sidecar : Passed(r) \/ Unpassed(r)

\* What a release plan says stays true.
Plans ==
  \A v \in DOMAIN plan :
    /\ \A r \in plan[v].runs : r \in DOMAIN run /\ run[r].state = "completed"
    /\ plan[v].expected <= ledger.revision
    /\ v \in ledger.releases =>
         plan[v].expected < ledger.revision /\ plan[v].runs \subseteq ledger.applied
    /\ v \in manifest =>
         v \in ledger.releases /\ v \in versioned /\ plan[v].state = "applied"
    /\ \A d \in plan[v].redirects :
         /\ d.source \in sidecar /\ run[d.source].page = d.page
         /\ run[d.source].path = d.from /\ d.from # d.to
    /\ \A d, e \in plan[v].redirects :
         /\ d.from = e.from => d = e
         /\ d.page = e.page => d.to = e.to

\* The release state counts the releases, the last of which can be recovered.
Counted ==
  /\ ledger.releases \subseteq DOMAIN plan
  /\ ledger.revision = Cardinality(ledger.releases)
  /\ ledger.current = NoRelease => ledger.releases = {}
  /\ ledger.current # NoRelease =>
       ledger.current \in ledger.releases /\ Recovering(ledger.current)

\* How far the apply at work has come.
Applying ==
  applying.release # NoRelease =>
    LET v == applying.release IN
    /\ v \notin manifest /\ applying.left \subseteq plan[v].redirects
    /\ applying.next # "redirects" => applying.left = {}
    /\ \/ ledger.current = v
       \/ v \notin ledger.releases /\ ledger.revision = plan[v].expected
    /\ applying.next \in {"plan", "manifest"} => ledger.current = v
    /\ applying.next \in {"navigation", "state", "plan", "manifest"} => v \in versioned
    /\ applying.next \in {"state", "plan", "manifest"} => navigation = v
    /\ applying.next = "manifest" => plan[v].state = "applied"

\* Redirect d of release v was written.
Placed(v, d) ==
  v \in ledger.releases \/ (applying.release = v /\ d \notin applying.left)

\* No build brings back the text that a release redirects, or is to redirect.
OldFilesGone ==
  \A v \in DOMAIN plan : \A d \in plan[v].redirects :
    /\ file[d.from] # Nothing
    /\ run[d.source].parent # NoRun => file[d.from] # Text(run[d.source].parent)
    /\ ~(building.run = d.source /\ "page" \in building.left)
    /\ Placed(v, d) =>
         /\ file[d.from] # Text(d.source)
         /\ serialised => file[d.from] = Pointer(d.page, d.to)

\* All redirects of page p lead to path to, where a text of the page is.
LeadTo(p, to) ==
  /\ IsText(file[to]) /\ Owner(file[to]) = p
  /\ \A x \in Path : IsRedirect(file[x]) /\ file[x].page = p => file[x].to = to

\* Redirects stand at old paths of their page and lead to its text.
RedirectFiles ==
  \A q \in Path : IsRedirect(file[q]) =>
    /\ \E s \in sidecar : run[s].page = file[q].page /\ run[s].path = q
    /\ LeadTo(file[q].page, file[q].to)

\* The redirects still to be written may be: each replaces a file of its page
\* and leads where the others do; without a build beside it, none replaces a
\* page's current file.
Leading ==
  \A d \in applying.left :
    /\ file[d.from] # Nothing /\ Owner(file[d.from]) = d.page
    /\ LeadTo(d.page, d.to)
    /\ serialised =>
         \/ file[d.from] = Pointer(d.page, d.to)
         \/ file[d.from] = Text(d.source) /\ \A p \in Active : Current(p) # d.from

Typed == TypeOK /\ Shapes
Pages == Lineage /\ NeverBack /\ Succeeded
Files == CurrentFile /\ Committing /\ Retriable
Releases == Plans /\ Counted /\ NavigationNotOld /\ Applying
Moves == OldFilesGone /\ RedirectFiles /\ Leading

\* The inductive invariant.
IInv == Typed /\ Pages /\ Files /\ Releases /\ Moves

(***************************************************************************)
(* Facts about the operators.                                              *)
(***************************************************************************)
\* A finite set of numbers has a greatest.
LEMMA Greatest ==
  ASSUME NEW S \in SUBSET Nat, IsFiniteSet(S), S # {}
  PROVE  \E r \in S : \A x \in S : x <= r
  <1>1. PICK n \in Nat : ExistsSurjection(1..n, S)
    BY FS_NatSurjection
  <1>2. PICK f \in [1..n -> S] : \A x \in S : \E i \in 1..n : f[i] = x
    BY <1>1 DEF ExistsSurjection, Surjection
  <1>0. (\A i \in 1..n : f[i] \in S) /\ \A x \in S : x \in Nat
    BY <1>2
  <1> DEFINE T == {k \in 1..n : \E r \in S : \A i \in 1..n : k <= i => f[i] <= r}
             R == OpToRel(<, Nat)
  <1>3. \A x, y \in Nat : <<x, y>> \in R <=> x < y
    BY DEF OpToRel
  <1>4. IsWellFoundedOn(R, Nat)
    BY NatLessThanWellFounded
  <1> HIDE DEF R
  <1>5. \A k : k \in T <=> k \in 1..n /\ \E r \in S : \A i \in 1..n : k <= i => f[i] <= r
    OBVIOUS
  <1> HIDE DEF T
  <1>6. n \in T
    <2>1. 1..n # {}
      BY <1>2
    <2>2. n \in 1..n
      BY <2>1
    <2>3. f[n] \in S /\ f[n] \in Nat /\ \A i \in 1..n : n <= i => i = n
      <3>1. f[n] \in S
        BY <1>0, <2>2
      <3>2. \A i \in 1..n : n <= i => i = n
        OBVIOUS
      <3> QED
        BY <1>0, <3>1, <3>2
    <2>4. \A i \in 1..n : n <= i => f[i] <= f[n]
      BY <2>3
    <2> QED
      BY <1>5, <2>2, <2>3, <2>4
  <1>7. PICK k \in T : \A j \in T : ~ <<j, k>> \in R
    <2>1. T \subseteq Nat /\ T # {}
      BY <1>5, <1>6
    <2> QED
      BY <1>4, <2>1, WFMin
  <1>8. k \in 1..n /\ \A j \in T : ~(j < k)
    <2>1. k \in Nat /\ \A j \in T : j \in Nat
      BY <1>5
    <2> QED
      BY <1>3, <1>5, <1>7, <2>1
  <1>9. PICK r \in S : \A i \in 1..n : k <= i => f[i] <= r
    BY <1>5
  <1>10. k = 1
    <2> SUFFICES ASSUME k > 1 PROVE FALSE
      BY <1>8
    <2> DEFINE q == IF f[k - 1] <= r THEN r ELSE f[k - 1]
    <2>1. k - 1 \in 1..n /\ f[k - 1] \in S /\ f[k - 1] \in Nat /\ r \in Nat
      <3>1. k - 1 \in 1..n
        BY <1>8
      <3> QED
        BY <1>0, <3>1
    <2>2. q \in S /\ q \in Nat /\ f[k - 1] <= q /\ r <= q
      BY <2>1
    <2>3. \A i \in 1..n : f[i] \in Nat
      BY <1>0
    <2> HIDE DEF q
    <2>4. ASSUME NEW i \in 1..n, k - 1 <= i PROVE f[i] <= q
      <3>1. CASE i = k - 1
        BY <2>2, <3>1
      <3>2. CASE k <= i
        BY <1>9, <2>1, <2>2, <2>3, <3>2
      <3> QED
        BY <1>8, <2>4, <3>1, <3>2
    <2>5. k - 1 \in T
      BY <1>5, <2>1, <2>2, <2>4
    <2> QED
      BY <1>8, <2>5
  <1> QED
    BY <1>2, <1>9, <1>10

\* What a path holds tells its kind, and what is in it.
LEMMA Kinds ==
  /\ ~IsText(Nothing) /\ ~IsRedirect(Nothing)
  /\ \A r : /\ IsText(Text(r)) /\ ~IsRedirect(Text(r)) /\ Text(r).run = r
            /\ Text(r) # Nothing
  /\ \A p, q : /\ IsRedirect(Pointer(p, q)) /\ ~IsText(Pointer(p, q))
               /\ Pointer(p, q).page = p /\ Pointer(p, q).to = q /\ Pointer(p, q) # Nothing
  /\ \A r, x : Text(r) = Text(x) => r = x
  /\ \A r, p, q : Text(r) # Pointer(p, q)
  /\ \A r : Owner(Text(r)) = run[r].page
  /\ \A p, q : Owner(Pointer(p, q)) = p
  BY DEF IsText, IsRedirect, Nothing, Text, Pointer, Owner

\* The kinds of file there are.
LEMMA FileKinds ==
  ASSUME TypeOK, NEW q \in Path
  PROVE  \/ file[q] = Nothing
         \/ \E r \in DOMAIN run : file[q] = Text(r)
         \/ \E p \in Page, x \in Path : file[q] = Pointer(p, x)
  BY DEF TypeOK

(***************************************************************************)
(* What a step leaves alone stays true.                                    *)
(***************************************************************************)
LEMMA PagesSame == Pages /\ UNCHANGED knowledge => Pages'
  BY DEF Pages, knowledge, Lineage, NeverBack, Registered, Succeeded, Active, Current

LEMMA CurrentFileSame == CurrentFile /\ UNCHANGED <<knowledge, file>> => CurrentFile'
  BY DEF CurrentFile, knowledge, Active, Current, IsRedirect

LEMMA RetriableSame == Retriable /\ UNCHANGED <<knowledge, file>> => Retriable'
  BY DEF Retriable, Passed, Unpassed, knowledge, Active, IsRedirect

LEMMA CommittingSame ==
  Committing /\ UNCHANGED <<knowledge, file, building>> => Committing'
  BY DEF Committing, ToBeWritten, Written, knowledge, Active, Current, IsRedirect, Owner

LEMMA FilesSame == Files /\ UNCHANGED <<knowledge, file, building>> => Files'
  BY CurrentFileSame, RetriableSame, CommittingSame DEF Files

LEMMA PlansSame == Plans /\ UNCHANGED <<knowledge, records>> => Plans'
  BY DEF Plans, knowledge, records

LEMMA CountedSame == Counted /\ UNCHANGED <<ledger, plan>> => Counted'
  BY DEF Counted, Recovering

LEMMA NavigationSame ==
  NavigationNotOld /\ UNCHANGED <<ledger, navigation>> => NavigationNotOld'
  BY DEF NavigationNotOld

LEMMA ReleasesSame ==
  Releases /\ UNCHANGED <<knowledge, records, applying>> => Releases'
  <1> SUFFICES ASSUME Releases, UNCHANGED <<knowledge, records, applying>> PROVE Releases'
    OBVIOUS
  <1>1. Plans' /\ Counted' /\ NavigationNotOld'
    BY PlansSame, CountedSame, NavigationSame DEF Releases, records
  <1>2. Applying'
    BY DEF Releases, Applying, records
  <1> QED
    BY <1>1, <1>2 DEF Releases

LEMMA RedirectFilesSame ==
  RedirectFiles /\ UNCHANGED <<knowledge, file>> => RedirectFiles'
  BY DEF RedirectFiles, LeadTo, IsRedirect, IsText, Owner, knowledge

LEMMA LeadingSame ==
  Leading /\ UNCHANGED <<knowledge, file, applying>> => Leading'
  BY DEF Leading, LeadTo, IsRedirect, IsText, Owner, knowledge, Active, Current

LEMMA OldFilesGoneSame ==
  OldFilesGone /\ UNCHANGED <<knowledge, file, building, plan, ledger, applying>>
    => OldFilesGone'
  BY DEF OldFilesGone, Placed, knowledge

LEMMA MovesSame ==
  Moves /\ UNCHANGED <<knowledge, file, building, plan, ledger, applying>> => Moves'
  BY RedirectFilesSame, LeadingSame, OldFilesGoneSame DEF Moves

(***************************************************************************)
(* A process dies.                                                         *)
(***************************************************************************)
LEMMA BuilderDiesKeeps == IInv /\ BuilderDies => IInv'
  <1> SUFFICES ASSUME IInv, BuilderDies PROVE IInv'
    OBVIOUS
  <1>1. /\ building' = NotBuilding /\ crashes' = crashes + 1 /\ crashes < MaxCrashes
        /\ UNCHANGED <<knowledge, file, records, applying>>
    BY DEF BuilderDies
  <1>2. building'.run = NoRun /\ building'.left = {}
    BY <1>1 DEF NotBuilding
  <1>3. Typed'
    BY <1>1, <1>2, VaultAssumption
       DEF IInv, Typed, TypeOK, Shapes, NotBuilding, knowledge, records, Active
  <1>4. Pages'
    BY <1>1, PagesSame DEF IInv
  <1>5. Files'
    BY <1>1, <1>2, CurrentFileSame, RetriableSame DEF IInv, Files, Committing
  <1>6. Releases'
    BY <1>1, ReleasesSame DEF IInv
  <1>7. OldFilesGone'
    BY <1>1, <1>2 DEF IInv, Moves, OldFilesGone, Placed, knowledge, records
  <1>8. Moves'
    BY <1>1, <1>7, RedirectFilesSame, LeadingSame DEF IInv, Moves
  <1> QED
    BY <1>3, <1>4, <1>5, <1>6, <1>8 DEF IInv

LEMMA ReleaserDiesKeeps == IInv /\ ReleaserDies => IInv'
  <1> SUFFICES ASSUME IInv, ReleaserDies PROVE IInv'
    OBVIOUS
  <1>1. /\ applying' = NotApplying /\ crashes' = crashes + 1 /\ crashes < MaxCrashes
        /\ UNCHANGED <<knowledge, file, building, records>>
    BY DEF ReleaserDies
  <1>2. /\ applying'.release = NoRelease /\ applying'.left = {}
        /\ applying'.next = "redirects"
    BY <1>1 DEF NotApplying
  <1>3. Typed'
    BY <1>1, <1>2, VaultAssumption
       DEF IInv, Typed, TypeOK, Shapes, NotApplying, NextWrite, knowledge, records, Active
  <1>4. Pages'
    BY <1>1, PagesSame DEF IInv
  <1>5. Files'
    BY <1>1, FilesSame DEF IInv
  <1>6. Releases'
    BY <1>1, <1>2, PlansSame, CountedSame, NavigationSame
       DEF IInv, Releases, Applying, records
  <1>7. OldFilesGone'
    <2>1. NoRelease \notin DOMAIN plan
      BY VaultAssumption DEF IInv, Typed, TypeOK
    <2> QED
      BY <1>1, <1>2, <2>1 DEF IInv, Moves, OldFilesGone, Placed, knowledge, records
  <1>8. Leading'
    BY <1>2 DEF Leading
  <1>9. Moves'
    BY <1>1, <1>7, <1>8, RedirectFilesSame DEF IInv, Moves
  <1> QED
    BY <1>3, <1>4, <1>5, <1>6, <1>9 DEF IInv

\* A file's owner stays while the revisions keep their pages.
LEMMA OwnerStays ==
  ASSUME TypeOK, \A x \in DOMAIN run : run'[x].page = run[x].page,
         NEW q \in Path, file'[q] = file[q]
  PROVE  Owner(file[q])' = Owner(file[q])
  <1>1. IsText(file[q]) => file[q].run \in DOMAIN run
    BY FileKinds, Kinds
  <1> QED
    BY <1>1 DEF Owner, IsText

(***************************************************************************)
(* A revision is drafted.                                                  *)
(***************************************************************************)
LEMMA ReduceKeeps ==
  ASSUME IInv, NEW r \in Run, NEW p \in Page, NEW q \in Path, Reduce(r, p, q)
  PROVE  IInv'
  <1> DEFINE new == [state |-> "draft", page |-> p, path |-> q,
                     parent |-> IF p \in Active THEN registry[p] ELSE NoRun]
  <1>1. /\ r \notin DOMAIN run /\ run' = Put(run, r, new)
        /\ UNCHANGED <<serialised, sidecar, registry, file, building, records,
                       applying, crashes>>
    BY DEF Reduce
  <1>2. /\ DOMAIN run \subseteq Run /\ run \in [DOMAIN run -> BuildRun]
        /\ sidecar \subseteq DOMAIN run /\ Active' = Active
        /\ \A x \in Active : registry[x] \in DOMAIN run
    BY <1>1 DEF IInv, Typed, TypeOK, Active
  <1>3. /\ new \in BuildRun /\ new.page = p /\ new.path = q /\ new.state = "draft"
        /\ new.parent = IF p \in Active THEN registry[p] ELSE NoRun
    BY <1>2 DEF BuildRun
  <1> HIDE DEF new
  <1>4. /\ DOMAIN run' = DOMAIN run \cup {r}
        /\ run' \in [DOMAIN run' -> BuildRun]
        /\ run'[r] = new
        /\ \A x \in DOMAIN run : run'[x] = run[x]
    <2>1. /\ DOMAIN Put(run, r, new) = DOMAIN run \cup {r}
          /\ Put(run, r, new) \in [DOMAIN run \cup {r} -> BuildRun]
          /\ Put(run, r, new)[r] = new
          /\ \A x \in DOMAIN run : x # r => Put(run, r, new)[x] = run[x]
      BY <1>2, <1>3 DEF Put
    <2> QED
      BY <1>1, <2>1
  <1>5. NoRun \notin DOMAIN run'
    BY <1>2, <1>4, VaultAssumption
  <1>6. Typed'
    <2>1. TypeOK'
      BY <1>1, <1>2, <1>4 DEF IInv, Typed, TypeOK, records, Active
    <2>2. Shapes'
      BY <1>1, <1>4 DEF IInv, Typed, Shapes, records
    <2> QED
      BY <2>1, <2>2 DEF Typed
  <1>7. Lineage'
    <2>1. ASSUME NEW x \in DOMAIN run, run[x].parent # NoRun
          PROVE  run[x].parent \in DOMAIN run
      BY <2>1 DEF IInv, Pages, Lineage
    <2>2. ASSUME NEW x \in DOMAIN run
          PROVE /\ run'[x].parent \in DOMAIN run' \cup {NoRun} /\ run'[x].parent # x
                /\ run'[x].parent # NoRun =>
                     run'[run'[x].parent].page = run'[x].page
                     /\ run'[run'[x].parent].parent # x
                /\ run'[x].page \notin Active' => run'[x].parent = NoRun
      BY <1>2, <1>4, <2>1 DEF IInv, Pages, Lineage
    <2>3. ASSUME p \in Active
          PROVE  /\ registry[p] \in DOMAIN run /\ run[registry[p]].page = p
                 /\ run[registry[p]].parent # r
      BY <1>1, <1>2, <1>4, <1>5, <2>3 DEF IInv, Pages, Lineage
    <2>4. /\ run'[r].parent \in DOMAIN run' \cup {NoRun} /\ run'[r].parent # r
          /\ run'[r].parent # NoRun =>
               run'[run'[r].parent].page = run'[r].page
               /\ run'[run'[r].parent].parent # r
          /\ run'[r].page \notin Active' => run'[r].parent = NoRun
      BY <1>1, <1>2, <1>3, <1>4, <1>5, <2>3
    <2>5. \A x \in Active' : registry'[x] \in sidecar' /\ run'[registry'[x]].page = x
      BY <1>1, <1>2, <1>4 DEF IInv, Pages, Lineage
    <2>6. \A x \in Active : Current(x)' = Current(x)
      BY <1>1, <1>2, <1>4 DEF Current
    <2>7. \A x, y \in Active' : x # y => Current(x)' # Current(y)'
      BY <1>2, <2>6 DEF IInv, Pages, Lineage
    <2> QED
      BY <1>4, <2>2, <2>4, <2>5, <2>7 DEF Lineage
  <1>8. \A x \in Active : Current(x)' = Current(x)
    BY <1>1, <1>2, <1>4 DEF Current
  <1>9. NeverBack'
    <2> SUFFICES ASSUME NEW x \in DOMAIN run', Registered(x)', run'[x].page \in Active'
                 PROVE  run'[x].parent # registry'[run'[x].page]
      BY DEF NeverBack
    <2>1. CASE x = r
      <3>1. \A y \in DOMAIN run' : run'[y].parent # r
        BY <1>1, <1>2, <1>3, <1>4, <1>5 DEF IInv, Pages, Lineage
      <3>2. \A y \in Active : registry[y] # r
        BY <1>1, <1>2
      <3> QED
        BY <1>1, <1>2, <2>1, <3>1, <3>2 DEF Registered
    <2>2. CASE x \in DOMAIN run
      <3>1. Registered(x)
        <4>1. CASE \E y \in DOMAIN run : run[y].parent = x
          BY <4>1 DEF Registered
        <4>2. CASE p \in Active /\ registry[p] = x
          BY <4>2 DEF IInv, Pages, Lineage, Registered
        <4>3. CASE run[x].page \in Active /\ registry[run[x].page] = x
          BY <4>3 DEF Registered
        <4> QED
          BY <1>1, <1>2, <1>3, <1>4, <1>5, <2>2, <4>1, <4>2, <4>3 DEF Registered
      <3> QED
        BY <1>1, <1>2, <1>4, <2>2, <3>1 DEF IInv, Pages, NeverBack
    <2> QED
      BY <1>4, <2>1, <2>2
  <1>10. Succeeded'
    BY <1>1, <1>2, <1>3, <1>4 DEF IInv, Pages, Succeeded
  <1>11. CurrentFile'
    BY <1>1, <1>2, <1>4, <1>8 DEF IInv, Files, CurrentFile, IsRedirect
  <1>12. \A x \in Path : Owner(file[x])' = Owner(file[x])
    BY <1>1, <1>4, OwnerStays DEF IInv, Typed
  <1>13. Committing'
    <2> SUFFICES ASSUME building.run # NoRun PROVE Committing'
      BY <1>1 DEF Committing
    <2>1. building.run \in DOMAIN run
      BY DEF IInv, Typed, TypeOK
    <2> DEFINE b == building.run
    <2>2. run'[b] = run[b] /\ run[b].path \in Path
      BY <1>2, <1>4, <2>1 DEF BuildRun
    <2>3. Written(b) => Written(b)'
      BY <1>1, <2>2 DEF Written, IsRedirect
    <2>4. ToBeWritten(b) => ToBeWritten(b)'
      BY <1>1, <1>2, <1>8, <1>12, <2>2 DEF ToBeWritten, IsRedirect
    <2>5. \A x \in Active \ {run[b].page} : Current(x)' = Current(x)
      BY <1>8
    <2> QED
      BY <1>1, <1>2, <2>1, <2>2, <2>3, <2>4, <2>5 DEF IInv, Files, Committing
  <1>14. Retriable'
    <2> SUFFICES ASSUME NEW x \in sidecar PROVE (Passed(x) \/ Unpassed(x))'
      BY <1>1 DEF Retriable
    <2>1. \A y \in sidecar : run'[y] = run[y] /\ y \in DOMAIN run
      BY <1>2, <1>4
    <2>2. Passed(x) => Passed(x)'
      BY <1>1, <2>1 DEF Passed
    <2>3. run[x].parent # NoRun => run'[run[x].parent] = run[run[x].parent]
      BY <1>4, <2>1 DEF IInv, Pages, Lineage
    <2>4. Unpassed(x) => Unpassed(x)'
      BY <1>1, <1>2, <2>1, <2>3 DEF Unpassed, IsRedirect
    <2> QED
      BY <2>2, <2>4 DEF IInv, Files, Retriable
  <1>15. Releases'
    <2>1. Plans'
      BY <1>1, <1>2, <1>4 DEF IInv, Releases, Plans, records
    <2>2. Counted' /\ NavigationNotOld'
      BY <1>1, CountedSame, NavigationSame DEF IInv, Releases, records
    <2>3. Applying'
      BY <1>1 DEF IInv, Releases, Applying, records
    <2> QED
      BY <2>1, <2>2, <2>3 DEF Releases
  <1>16. OldFilesGone'
    <2>1. ASSUME NEW v \in DOMAIN plan, NEW d \in plan[v].redirects
          PROVE  run'[d.source] = run[d.source]
      BY <1>2, <1>4 DEF IInv, Releases, Plans
    <2> QED
      BY <1>1, <2>1 DEF IInv, Moves, OldFilesGone, Placed, records
  <1>17. ASSUME NEW x, NEW to \in Path, LeadTo(x, to) PROVE LeadTo(x, to)'
    BY <1>1, <1>12, <1>17 DEF LeadTo, IsText, IsRedirect
  <1>18. RedirectFiles'
    <2>1. ASSUME NEW x \in Path, IsRedirect(file[x]) PROVE file[x].to \in Path
      BY <2>1, FileKinds, Kinds DEF IInv, Typed
    <2> QED
      BY <1>1, <1>2, <1>4, <1>17, <2>1 DEF IInv, Moves, RedirectFiles, IsRedirect
  <1>19. Leading'
    <2>1. \A d \in applying.left : d.to \in Path /\ d.from \in Path
      BY DEF IInv, Typed, TypeOK, Redirect
    <2> QED
      BY <1>1, <1>2, <1>8, <1>12, <1>17, <2>1 DEF IInv, Moves, Leading
  <1> QED
    BY <1>6, <1>7, <1>9, <1>10, <1>11, <1>13, <1>14, <1>15, <1>16, <1>18, <1>19
       DEF IInv, Pages, Files, Moves

(***************************************************************************)
(* A build begins to commit, or takes up what was interrupted.             *)
(***************************************************************************)
LEMMA BeginCommitKeeps ==
  ASSUME IInv, NEW r \in DOMAIN run, BeginCommit(r)
  PROVE  IInv'
  <1> DEFINE p == run[r].page
             q == run[r].path
             left == Unwritten(r)
  <1>1. /\ building = NotBuilding /\ (serialised => applying = NotApplying)
        /\ Committable(r) /\ building' = [run |-> r, left |-> left]
        /\ UNCHANGED <<knowledge, file, records, applying, crashes>>
    BY DEF BeginCommit, Free
  <1>2. /\ left \subseteq DOMAIN BuildWrites /\ "manifest" \in left
        /\ "sidecar" \in left <=> r \notin sidecar
        /\ "page" \in left <=> file[q] # Text(r)
        /\ "registry" \in left <=> p \notin Active \/ registry[p] # r
    BY DEF Unwritten, BuildWrites
  <1>3. building'.run = r /\ building'.left = left
    BY <1>1
  <1>4. r # NoRun /\ p \in Page /\ q \in Path
    BY VaultAssumption DEF IInv, Typed, TypeOK, BuildRun
  <1> HIDE DEF left
  <1>5. Typed'
    <2>1. TypeOK'
      BY <1>1, <1>2, <1>3 DEF IInv, Typed, TypeOK, knowledge, records, Active
    <2>2. Shapes'
      BY <1>1, <1>2, <1>3, <1>4 DEF IInv, Typed, Shapes, knowledge, records
    <2> QED
      BY <2>1, <2>2 DEF Typed
  <1>6. Pages'
    BY <1>1, PagesSame DEF IInv
  <1>7. /\ p \in Active => registry[p] \in {run[r].parent, r}
        /\ \A x \in Active \ {p} : Current(x) # q
    BY <1>1 DEF Committable, ParentKept
  <1>8. ASSUME "page" \in left
        PROVE  \/ file[q] = Nothing
               \/ /\ p \in Active /\ Current(p) = q /\ file[q] = Text(run[r].parent)
                  /\ run[r].parent \in DOMAIN run /\ Owner(file[q]) = p
    <2>1. \/ file[q] = Nothing
          \/ p \in Active /\ Current(p) = q /\ file[q] = Text(run[r].parent)
      BY <1>1, <1>2, <1>8 DEF Committable, TargetFree
    <2>2. file[q] = Text(run[r].parent) => run[r].parent \in DOMAIN run
      BY <1>4, FileKinds, Kinds DEF IInv, Typed
    <2>3. run[r].parent \in DOMAIN run => run[run[r].parent].page = p
      BY VaultAssumption DEF IInv, Typed, TypeOK, Pages, Lineage
    <2> QED
      BY <2>1, <2>2, <2>3, Kinds
  <1>9. ASSUME "page" \in left PROVE p \notin Active \/ registry[p] = run[r].parent
    <2> SUFFICES ASSUME p \in Active, registry[p] = r PROVE FALSE
      BY <1>7
    <2>1. Current(p) = q
      BY DEF Current
    <2>2. \/ file[q] = Text(r) \/ IsRedirect(file[q])
          \/ \E x \in sidecar : run[x].parent = r /\ file[q] = Text(x)
      BY <2>1 DEF IInv, Files, CurrentFile
    <2>3. PICK x \in sidecar : run[x].parent = r /\ file[q] = Text(x)
      BY <1>2, <1>8, <1>9, <2>2, Kinds
    <2>4. x = run[r].parent /\ x \in DOMAIN run /\ x # NoRun
      BY <1>8, <1>9, <2>3, Kinds, VaultAssumption DEF IInv, Typed, TypeOK
    <2> QED
      BY <2>3, <2>4 DEF IInv, Pages, Lineage
  <1>10. Committing'
    <2>1. "page" \in left => ToBeWritten(r)
      BY <1>8 DEF ToBeWritten
    <2>2. "page" \notin left => Written(r)
      BY <1>2 DEF Written
    <2>3. UNCHANGED <<run, registry, sidecar, file, serialised>>
      BY <1>1 DEF knowledge
    <2>4. (ToBeWritten(r) => ToBeWritten(r)') /\ (Written(r) => Written(r)')
      BY <2>3 DEF ToBeWritten, Written, IsRedirect, Owner, Active, Current
    <2>5. Active' = Active /\ \A x \in Active : Current(x)' = Current(x)
      BY <2>3 DEF Active, Current
    <2> QED
      BY <1>2, <1>3, <1>7, <1>9, <2>1, <2>2, <2>3, <2>4, <2>5 DEF Committing
  <1>11. Files'
    BY <1>1, <1>10, CurrentFileSame, RetriableSame DEF IInv, Files
  <1>12. Releases'
    BY <1>1, ReleasesSame DEF IInv
  <1>13. OldFilesGone'
    <2>1. ASSUME NEW v \in DOMAIN plan, NEW d \in plan[v].redirects, d.source = r
          PROVE  "page" \notin left
      <3>1. d.from = q
        BY <2>1 DEF IInv, Releases, Plans
      <3>2. file[q] # Nothing
        BY <3>1 DEF IInv, Moves, OldFilesGone
      <3>3. run[r].parent # NoRun => file[q] # Text(run[r].parent)
        BY <2>1, <3>1 DEF IInv, Moves, OldFilesGone
      <3>4. NoRun \notin DOMAIN run
        BY VaultAssumption DEF IInv, Typed, TypeOK
      <3> QED
        BY <1>8, <3>2, <3>3, <3>4
    <2> QED
      BY <1>1, <1>3, <2>1 DEF IInv, Moves, OldFilesGone, Placed, knowledge, records
  <1>14. Moves'
    BY <1>1, <1>13, RedirectFilesSame, LeadingSame DEF IInv, Moves
  <1> QED
    BY <1>5, <1>6, <1>11, <1>12, <1>14 DEF IInv

(***************************************************************************)
(* A build writes.                                                         *)
(***************************************************************************)
\* What a write of a commit finds, and what it leaves alone.
LEMMA Writing ==
  ASSUME IInv, NEW w \in DOMAIN BuildWrites, WriteCommit(w)
  PROVE  /\ building.run \in DOMAIN run /\ building.run # NoRun /\ w \in building.left
         /\ run[building.run] \in BuildRun
         /\ run[building.run].page \in Page /\ run[building.run].path \in Path
         /\ w # "sidecar" => "sidecar" \notin building.left /\ building.run \in sidecar
         /\ w \in {"registry", "manifest"} => "page" \notin building.left
         /\ w = "manifest" => "registry" \notin building.left
         /\ w # "manifest" =>
              /\ building' = [run |-> building.run, left |-> building.left \ {w}]
              /\ building'.run = building.run /\ building'.left = building.left \ {w}
              /\ "manifest" \in building'.left
         /\ UNCHANGED <<serialised, records, applying, crashes>>
         /\ serialised => applying = NotApplying
  <1>1. /\ w \in building.left
        /\ \A x \in building.left : BuildWrites[w] <= BuildWrites[x]
        /\ building' = IF w = "manifest" THEN NotBuilding
                       ELSE [building EXCEPT !.left = @ \ {w}]
        /\ UNCHANGED <<serialised, records, applying, crashes>>
    BY DEF WriteCommit
  <1>2. /\ building \in [run : DOMAIN run \cup {NoRun}, left : SUBSET DOMAIN BuildWrites]
        /\ building.run # NoRun
    BY <1>1 DEF IInv, Typed, Shapes, NotBuilding
  <1>3. /\ building.run \in DOMAIN run /\ "manifest" \in building.left
        /\ run[building.run] \in BuildRun
    BY <1>2 DEF IInv, Typed, TypeOK, Shapes
  <1>4. DOMAIN BuildWrites = {"sidecar", "page", "registry", "manifest"}
    BY DEF BuildWrites
  <1>5. /\ w # "sidecar" => "sidecar" \notin building.left
        /\ w \in {"registry", "manifest"} => "page" \notin building.left
        /\ w = "manifest" => "registry" \notin building.left
    BY <1>1, <1>4 DEF BuildWrites
  <1>6. w # "sidecar" => building.run \in sidecar
    BY <1>2, <1>5 DEF IInv, Files, Committing
  <1>7. w # "manifest" => building' = [run |-> building.run, left |-> building.left \ {w}]
    BY <1>1, <1>2
  <1>8. serialised => applying = NotApplying
    BY <1>2 DEF IInv, Typed, Shapes, NotBuilding
  <1> QED
    BY <1>1, <1>2, <1>3, <1>5, <1>6, <1>7, <1>8 DEF BuildRun

LEMMA SidecarKeeps == ASSUME IInv, WriteCommit("sidecar") PROVE IInv'
  <1> DEFINE r == building.run
             p == run[r].page
             q == run[r].path
  <1>0. "sidecar" \in DOMAIN BuildWrites
    BY DEF BuildWrites
  <1>1. /\ r \in DOMAIN run /\ r # NoRun /\ p \in Page /\ q \in Path
        /\ building' = [run |-> r, left |-> building.left \ {"sidecar"}]
        /\ building'.run = r /\ building'.left = building.left \ {"sidecar"}
        /\ "manifest" \in building'.left
        /\ UNCHANGED <<serialised, records, applying, crashes>>
        /\ serialised => applying = NotApplying
    BY <1>0, Writing
  <1>2. sidecar' = sidecar \cup {r} /\ UNCHANGED <<file, registry, run>>
    BY DEF WriteCommit
  <1>3. Active' = Active /\ \A x \in Active : Current(x)' = Current(x)
    BY <1>2 DEF Active, Current
  <1>4. Typed'
    <2>1. TypeOK'
      BY <1>1, <1>2, <1>3 DEF IInv, Typed, TypeOK, records
    <2>2. Shapes'
      BY <1>1, <1>2 DEF IInv, Typed, TypeOK, Shapes, records
    <2> QED
      BY <2>1, <2>2 DEF Typed
  <1>5. Pages'
    BY <1>2, <1>3 DEF IInv, Pages, Lineage, NeverBack, Registered, Succeeded
  <1>6. CurrentFile'
    BY <1>1, <1>2, <1>3 DEF IInv, Files, CurrentFile, IsRedirect
  <1>7. Committing'
    <2>1. (ToBeWritten(r) => ToBeWritten(r)') /\ (Written(r) => Written(r)')
      BY <1>1, <1>2, <1>3 DEF ToBeWritten, Written, IsRedirect, Owner
    <2> QED
      BY <1>1, <1>2, <1>3, <2>1 DEF IInv, Files, Committing
  <1>8. Retriable'
    <2>1. ASSUME NEW x \in sidecar PROVE (Passed(x) \/ Unpassed(x))'
      <3>1. Passed(x) => Passed(x)'
        BY <1>2 DEF Passed
      <3>2. Unpassed(x) => Unpassed(x)'
        BY <1>2, <1>3 DEF Unpassed, IsRedirect
      <3> QED
        BY <3>1, <3>2 DEF IInv, Files, Retriable
    <2>2. Unpassed(r)
      <3>1. p \in Active => registry[p] \in {run[r].parent, r}
        BY <1>1 DEF IInv, Files, Committing
      <3>2. CASE "page" \in building.left
        <4>1. p \notin Active \/ registry[p] = run[r].parent
          BY <1>1, <3>2 DEF IInv, Files, Committing
        <4>2. ToBeWritten(r)
          BY <1>1, <3>2 DEF IInv, Files, Committing
        <4>3. p \in Active => registry[p] # NoRun
          BY VaultAssumption DEF IInv, Typed, TypeOK
        <4> QED
          BY <3>1, <4>1, <4>2, <4>3 DEF ToBeWritten, Unpassed, Current
      <3>3. CASE "page" \notin building.left
        <4>1. Written(r)
          BY <1>1, <3>3 DEF IInv, Files, Committing
        <4> QED
          BY <3>1, <4>1 DEF Written, Unpassed
      <3> QED
        BY <3>2, <3>3
    <2>3. Unpassed(r)'
      BY <1>1, <1>2, <1>3, <2>2 DEF Unpassed, IsRedirect
    <2> QED
      BY <1>1, <1>2, <2>1, <2>3 DEF Retriable
  <1>9. Releases'
    <2>1. Plans'
      BY <1>1, <1>2 DEF IInv, Releases, Plans, records
    <2>2. Counted' /\ NavigationNotOld'
      BY <1>1, CountedSame, NavigationSame DEF IInv, Releases, records
    <2>3. Applying'
      BY <1>1 DEF IInv, Releases, Applying, records
    <2> QED
      BY <2>1, <2>2, <2>3 DEF Releases
  <1>10. OldFilesGone'
    BY <1>1, <1>2 DEF IInv, Moves, OldFilesGone, Placed, records
  <1>11. \A x \in Path : Owner(file[x])' = Owner(file[x])
    BY <1>2, OwnerStays DEF IInv, Typed
  <1>12. RedirectFiles'
    BY <1>2 DEF IInv, Moves, RedirectFiles, LeadTo, IsRedirect, IsText, Owner
  <1>13. Leading'
    BY <1>1, <1>2, <1>3 DEF IInv, Moves, Leading, LeadTo, IsRedirect, IsText, Owner
  <1> QED
    BY <1>4, <1>5, <1>6, <1>7, <1>8, <1>9, <1>10, <1>12, <1>13 DEF IInv, Files, Moves

LEMMA PageKeeps == ASSUME IInv, WriteCommit("page") PROVE IInv'
  <1> DEFINE r == building.run
             p == run[r].page
             q == run[r].path
  <1>0. "page" \in DOMAIN BuildWrites
    BY DEF BuildWrites
  <1>1. /\ r \in DOMAIN run /\ r # NoRun /\ p \in Page /\ q \in Path
        /\ "page" \in building.left /\ r \in sidecar /\ "sidecar" \notin building.left
        /\ building' = [run |-> r, left |-> building.left \ {"page"}]
        /\ building'.run = r /\ building'.left = building.left \ {"page"}
        /\ "manifest" \in building'.left
        /\ UNCHANGED <<serialised, records, applying, crashes>>
        /\ serialised => applying = NotApplying
    BY <1>0, Writing
  <1>2. file' = [file EXCEPT ![q] = Text(r)] /\ UNCHANGED <<sidecar, registry, run>>
    BY DEF WriteCommit
  <1>3. file'[q] = Text(r) /\ \A x \in Path : x # q => file'[x] = file[x]
    BY <1>1, <1>2 DEF IInv, Typed, TypeOK
  <1>4. /\ ToBeWritten(r) /\ \A x \in Active \ {p} : Current(x) # q
        /\ p \notin Active \/ registry[p] = run[r].parent
    BY <1>1 DEF IInv, Files, Committing
  <1>5. file[q] # Nothing =>
          /\ p \in Active /\ Current(p) = q /\ Owner(file[q]) = p
          /\ serialised => file[q] = Text(run[r].parent)
    BY <1>4 DEF ToBeWritten
  <1>6. ASSUME NEW x \in Path, file[x] # Nothing
        PROVE  file'[x] # Nothing /\ Owner(file[x])' = Owner(file[x])
    <2>1. CASE x = q
      <3>1. file'[x] = Text(r) /\ run' = run
        BY <1>2, <1>3, <2>1
      <3>2. Owner(file[x])' = p
        BY <3>1 DEF Owner, Text
      <3> QED
        BY <1>5, <1>6, <2>1, <3>1, <3>2, Kinds
    <2>2. CASE x # q
      BY <1>2, <1>3, <1>6, <2>2, OwnerStays DEF IInv, Typed
    <2> QED
      BY <2>1, <2>2
  <1>7. Active' = Active /\ \A x \in Active : Current(x)' = Current(x)
    BY <1>2 DEF Active, Current
  <1>8. UNCHANGED knowledge
    BY <1>1, <1>2 DEF knowledge
  <1>9. Typed'
    <2>1. file' \in [Path -> {Nothing} \cup {Text(x) : x \in DOMAIN run}
                             \cup {Pointer(x, y) : x \in Page, y \in Path}]
      BY <1>1, <1>2 DEF IInv, Typed, TypeOK
    <2>2. TypeOK'
      BY <1>1, <1>2, <1>7, <2>1 DEF IInv, Typed, TypeOK, records
    <2>3. Shapes'
      BY <1>1, <1>2 DEF IInv, Typed, TypeOK, Shapes, records
    <2> QED
      BY <2>2, <2>3 DEF Typed
  <1>10. Pages'
    BY <1>8, PagesSame DEF IInv
  <1>11. CurrentFile'
    <2> SUFFICES ASSUME NEW x \in Active
                 PROVE  \/ file'[Current(x)] = Text(registry[x])
                        \/ IsRedirect(file'[Current(x)]) /\ ~serialised
                        \/ \E y \in sidecar :
                             /\ run[y].page = x /\ run[y].parent = registry[x]
                             /\ run[y].path = Current(x) /\ file'[Current(x)] = Text(y)
      BY <1>1, <1>2, <1>7 DEF CurrentFile, IsRedirect
    <2>1. CASE Current(x) = q
      BY <1>1, <1>3, <1>4, <2>1
    <2>2. CASE Current(x) # q
      <3>1. Current(x) \in Path
        BY DEF IInv, Typed, TypeOK, Current, BuildRun
      <3> QED
        BY <1>3, <2>2, <3>1 DEF IInv, Files, CurrentFile
    <2> QED
      BY <2>1, <2>2
  <1>12. Committing'
    <2>1. Written(r)'
      BY <1>1, <1>2, <1>3 DEF Written
    <2> QED
      BY <1>1, <1>2, <1>4, <1>7, <2>1 DEF IInv, Files, Committing
  <1>13. Retriable'
    <2> SUFFICES ASSUME NEW x \in sidecar PROVE Passed(x) \/ Unpassed(x)'
      BY <1>2 DEF Retriable, Passed
    <2>1. CASE x = r
      BY <1>1, <1>2, <1>3, <1>4, <2>1 DEF Unpassed, Active
    <2>2. CASE x # r /\ run[x].path = q
      <3>1. CASE run[x].page # p
        BY <1>1, <2>2, <3>1 DEF Passed
      <3>2. CASE run[x].page = p /\ p \notin Active
        <4>1. run[x].parent = NoRun /\ run[r].parent = NoRun
          BY <1>1, <3>2 DEF IInv, Typed, TypeOK, Pages, Lineage
        <4> QED
          BY <1>1, <2>2, <3>2, <4>1 DEF Passed
      <3>3. CASE run[x].page = p /\ p \in Active
        <4>1. CASE Unpassed(x)
          <5>1. run[r].parent \in {x, run[x].parent}
            BY <1>4, <3>3, <4>1 DEF Unpassed
          <5> QED
            BY <1>1, <2>2, <3>3, <5>1 DEF Passed
        <4> QED
          BY <4>1 DEF IInv, Files, Retriable
      <3> QED
        BY <3>1, <3>2, <3>3
    <2>3. CASE x # r /\ run[x].path # q
      <3>1. run[x].path \in Path
        BY DEF IInv, Typed, TypeOK, BuildRun
      <3>2. Unpassed(x) => Unpassed(x)'
        BY <1>2, <1>3, <1>7, <2>3, <3>1 DEF Unpassed, IsRedirect
      <3> QED
        BY <3>2 DEF IInv, Files, Retriable
    <2> QED
      BY <2>1, <2>2, <2>3
  <1>14. Releases'
    BY <1>1, <1>8, ReleasesSame DEF IInv
  <1>15. OldFilesGone'
    <2> SUFFICES ASSUME NEW v \in DOMAIN plan, NEW d \in plan[v].redirects
                 PROVE  /\ file'[d.from] # Nothing
                        /\ run[d.source].parent # NoRun =>
                             file'[d.from] # Text(run[d.source].parent)
                        /\ ~(building'.run = d.source /\ "page" \in building'.left)
                        /\ Placed(v, d) =>
                             /\ file'[d.from] # Text(d.source)
                             /\ serialised => file'[d.from] = Pointer(d.page, d.to)
      BY <1>1, <1>2 DEF OldFilesGone, Placed, records
    <2>1. /\ file[d.from] # Nothing
          /\ run[d.source].parent # NoRun => file[d.from] # Text(run[d.source].parent)
          /\ d.source # r
          /\ Placed(v, d) =>
               /\ file[d.from] # Text(d.source)
               /\ serialised => file[d.from] = Pointer(d.page, d.to)
      BY <1>1 DEF IInv, Moves, OldFilesGone
    <2>2. d.from \in Path /\ "page" \notin building'.left
      BY <1>1 DEF IInv, Typed, TypeOK, Redirect
    <2>3. CASE d.from # q
      BY <1>3, <2>1, <2>2, <2>3
    <2>4. CASE d.from = q
      <3>1. p \in Active /\ registry[p] = run[r].parent
        BY <1>4, <1>5, <2>1, <2>4
      <3>2. ASSUME run[d.source].parent = r PROVE FALSE
        <4>1. d.source \in DOMAIN run
          BY DEF IInv, Typed, TypeOK, Releases, Plans
        <4>2. Registered(r)
          BY <3>2, <4>1 DEF Registered
        <4> QED
          BY <1>1, <3>1, <4>2 DEF IInv, Pages, NeverBack
      <3>3. Placed(v, d) => ~serialised
        BY <1>5, <2>1, <2>4, Kinds
      <3> QED
        BY <1>3, <2>1, <2>2, <2>4, <3>2, <3>3, Kinds
    <2> QED
      BY <2>3, <2>4
  <1>16. ASSUME NEW x, NEW to \in Path, LeadTo(x, to) PROVE LeadTo(x, to)'
    <2>1. IsText(file'[to]) /\ file[to] # Nothing
      BY <1>3, <1>16, Kinds DEF LeadTo
    <2>2. Owner(file[to])' = Owner(file[to])
      BY <1>6, <2>1
    <2>3. \A y \in Path : IsRedirect(file'[y]) => file'[y] = file[y]
      BY <1>3, Kinds
    <2>4. IsText(file[to])' /\ \A y \in Path : IsRedirect(file[y])' <=> IsRedirect(file'[y])
      BY <2>1 DEF IsText, IsRedirect
    <2> QED
      BY <1>16, <2>2, <2>3, <2>4 DEF LeadTo
  <1>17. RedirectFiles'
    <2> SUFFICES ASSUME NEW x \in Path, IsRedirect(file'[x]),
                        NEW y, NEW to, file'[x].page = y, file'[x].to = to
                 PROVE  /\ \E s \in sidecar : run[s].page = y /\ run[s].path = x
                        /\ LeadTo(y, to)'
      BY <1>2 DEF RedirectFiles, LeadTo, IsRedirect
    <2>1. file'[x] = file[x] /\ IsRedirect(file[x])
      BY <1>3, Kinds
    <2>2. to \in Path
      BY <2>1, FileKinds, Kinds DEF IInv, Typed
    <2>3. LeadTo(y, to)
      BY <2>1 DEF IInv, Moves, RedirectFiles
    <2> QED
      BY <1>16, <2>1, <2>2, <2>3 DEF IInv, Moves, RedirectFiles
  <1>18. Leading'
    <2>1. \A d \in applying.left : d.to \in Path /\ d.from \in Path
      BY DEF IInv, Typed, TypeOK, Redirect
    <2>2. serialised => applying.left = {}
      BY <1>1 DEF NotApplying
    <2> QED
      BY <1>1, <1>6, <1>16, <2>1, <2>2 DEF IInv, Moves, Leading
  <1> QED
    BY <1>9, <1>10, <1>11, <1>12, <1>13, <1>14, <1>15, <1>17, <1>18 DEF IInv, Files, Moves

LEMMA RegistryKeeps == ASSUME IInv, WriteCommit("registry") PROVE IInv'
  <1> DEFINE r == building.run
             p == run[r].page
             q == run[r].path
  <1>0. "registry" \in DOMAIN BuildWrites
    BY DEF BuildWrites
  <1>1. /\ r \in DOMAIN run /\ r # NoRun /\ p \in Page /\ q \in Path
        /\ "registry" \in building.left /\ "page" \notin building.left /\ r \in sidecar
        /\ building' = [run |-> r, left |-> building.left \ {"registry"}]
        /\ building'.run = r /\ building'.left = building.left \ {"registry"}
        /\ "manifest" \in building'.left
        /\ UNCHANGED <<serialised, records, applying, crashes>>
        /\ serialised => applying = NotApplying
    BY <1>0, Writing
  <1>2. registry' = Put(registry, p, r) /\ UNCHANGED <<sidecar, file, run>>
    BY DEF WriteCommit
  <1>3. /\ Active' = Active \cup {p}
        /\ registry' \in [Active' -> DOMAIN run]
        /\ registry'[p] = r /\ \A x \in Active : x # p => registry'[x] = registry[x]
    BY <1>1, <1>2 DEF IInv, Typed, TypeOK, Put, Active
  <1>4. /\ \A x \in Active \ {p} : Current(x) # q
        /\ p \notin Active \/ registry[p] = run[r].parent
        /\ Written(r)
    BY <1>1 DEF IInv, Files, Committing
  <1>5. p \notin Active => \A x \in DOMAIN run : run[x].page = p => run[x].parent = NoRun
    BY DEF IInv, Pages, Lineage
  <1>6. \A x \in Active : x # p => Current(x)' = Current(x)
    BY <1>2, <1>3 DEF Current
  <1>7. \A x : x = p => Current(x)' = q
    BY <1>2, <1>3 DEF Current
  <1>8. Typed'
    <2>1. TypeOK'
      BY <1>1, <1>2, <1>3 DEF IInv, Typed, TypeOK, records
    <2>2. Shapes'
      BY <1>1, <1>2 DEF IInv, Typed, TypeOK, Shapes, records
    <2> QED
      BY <2>1, <2>2 DEF Typed
  <1>9. Lineage'
    <2>1. \A x \in Active' : registry'[x] \in sidecar /\ run[registry'[x]].page = x
      BY <1>1, <1>3 DEF IInv, Pages, Lineage
    <2>2. \A x, y \in Active' : x # y => Current(x)' # Current(y)'
      BY <1>3, <1>4, <1>6, <1>7 DEF IInv, Pages, Lineage
    <2> QED
      BY <1>2, <1>3, <2>1, <2>2 DEF IInv, Pages, Lineage
  <1>10. NeverBack'
    <2> SUFFICES ASSUME NEW x \in DOMAIN run, Registered(x)', run[x].page \in Active'
                 PROVE  run[x].parent # registry'[run[x].page]
      BY <1>2 DEF NeverBack
    <2>1. CASE run[x].page # p
      <3>1. Registered(x) /\ run[x].page \in Active
        BY <1>2, <1>3, <2>1 DEF Registered
      <3> QED
        BY <1>3, <2>1, <3>1 DEF IInv, Pages, NeverBack
    <2>2. CASE run[x].page = p
      <3>1. SUFFICES ASSUME run[x].parent = r PROVE FALSE
        BY <1>3, <2>2
      <3>2. Registered(r)
        BY <3>1 DEF Registered
      <3> QED
        BY <1>1, <1>4, <1>5, <2>2, <3>1, <3>2 DEF IInv, Pages, NeverBack
    <2> QED
      BY <2>1, <2>2
  <1>11. Succeeded'
    BY <1>1, <1>2, <1>3, <1>4 DEF IInv, Pages, Succeeded
  <1>12. CurrentFile'
    <2> SUFFICES ASSUME NEW x \in Active', NEW y, y = Current(x)'
                 PROVE  \/ file[y] = Text(registry'[x])
                        \/ IsRedirect(file[y]) /\ ~serialised
                        \/ \E z \in sidecar :
                             /\ run[z].page = x /\ run[z].parent = registry'[x]
                             /\ run[z].path = y /\ file[y] = Text(z)
      BY <1>1, <1>2 DEF CurrentFile, IsRedirect
    <2>1. CASE x = p
      BY <1>3, <1>4, <1>7, <2>1 DEF Written
    <2>2. CASE x # p
      BY <1>3, <1>6, <2>2 DEF IInv, Files, CurrentFile
    <2> QED
      BY <2>1, <2>2
  <1>13. Committing'
    <2>1. Written(r)'
      BY <1>1, <1>2, <1>4 DEF Written, IsRedirect
    <2> QED
      BY <1>1, <1>2, <1>3, <1>4, <1>6, <2>1 DEF IInv, Files, Committing
  <1>14. Retriable'
    <2> SUFFICES ASSUME NEW x \in sidecar PROVE Passed(x) \/ Unpassed(x)'
      BY <1>2 DEF Retriable, Passed
    <2>1. CASE x = r
      BY <1>1, <1>2, <1>3, <1>4, <2>1 DEF Unpassed, Written, IsRedirect
    <2>2. CASE run[x].page # p
      <3>1. Unpassed(x) => Unpassed(x)'
        BY <1>2, <1>3, <2>2 DEF Unpassed, IsRedirect
      <3> QED
        BY <3>1 DEF IInv, Files, Retriable
    <2>3. CASE x # r /\ run[x].page = p /\ p \notin Active
      <3>1. run[x].parent = NoRun /\ run[r].parent = NoRun
        BY <1>1, <1>5, <2>3 DEF IInv, Typed, TypeOK
      <3> QED
        BY <1>1, <2>3, <3>1 DEF Passed
    <2>4. CASE x # r /\ run[x].page = p /\ p \in Active /\ Unpassed(x)
      <3>1. run[r].parent \in {x, run[x].parent}
        BY <1>4, <2>4 DEF Unpassed
      <3> QED
        BY <1>1, <2>4, <3>1 DEF Passed
    <2> QED
      BY <2>1, <2>2, <2>3, <2>4 DEF IInv, Files, Retriable
  <1>15. Releases'
    <2>1. Plans'
      BY <1>1, <1>2 DEF IInv, Releases, Plans, records
    <2>2. Counted' /\ NavigationNotOld'
      BY <1>1, CountedSame, NavigationSame DEF IInv, Releases, records
    <2>3. Applying'
      BY <1>1 DEF IInv, Releases, Applying, records
    <2> QED
      BY <2>1, <2>2, <2>3 DEF Releases
  <1>16. OldFilesGone'
    BY <1>1, <1>2 DEF IInv, Moves, OldFilesGone, Placed, records
  <1>17. RedirectFiles'
    BY <1>2 DEF IInv, Moves, RedirectFiles, LeadTo, IsRedirect, IsText, Owner
  <1>18. Leading'
    <2>1. serialised => applying.left = {}
      BY <1>1 DEF NotApplying
    <2> QED
      BY <1>1, <1>2, <2>1 DEF IInv, Moves, Leading, LeadTo, IsRedirect, IsText, Owner
  <1> QED
    BY <1>8, <1>9, <1>10, <1>11, <1>12, <1>13, <1>14, <1>15, <1>16, <1>17, <1>18
       DEF IInv, Pages, Files, Moves

LEMMA ManifestKeeps == ASSUME IInv, WriteCommit("manifest") PROVE IInv'
  <1> DEFINE r == building.run
             p == run[r].page
  <1>0. "manifest" \in DOMAIN BuildWrites
    BY DEF BuildWrites
  <1>1. /\ r \in DOMAIN run /\ run[r] \in BuildRun /\ r # NoRun /\ r \in sidecar
        /\ "registry" \notin building.left /\ "manifest" \in building.left
        /\ UNCHANGED <<serialised, records, applying, crashes>>
    BY <1>0, Writing
  <1>2. /\ run' = [run EXCEPT ![r].state = "completed"] /\ building' = NotBuilding
        /\ UNCHANGED <<sidecar, file, registry>>
    BY DEF WriteCommit
  <1>3. /\ DOMAIN run' = DOMAIN run /\ run' \in [DOMAIN run' -> BuildRun]
        /\ \A x \in DOMAIN run :
             /\ run'[x].page = run[x].page /\ run'[x].path = run[x].path
             /\ run'[x].parent = run[x].parent
             /\ x # r => run'[x].state = run[x].state
             /\ run[x].state = "completed" => run'[x].state = "completed"
    BY <1>1, <1>2 DEF IInv, Typed, TypeOK, BuildRun
  <1>4. building'.run = NoRun /\ building'.left = {}
    BY <1>2 DEF NotBuilding
  <1>5. /\ Active' = Active
        /\ \A x \in Active : registry[x] \in DOMAIN run /\ Current(x)' = Current(x)
    BY <1>2, <1>3 DEF IInv, Typed, TypeOK, Active, Current
  <1>6. sidecar \subseteq DOMAIN run
    BY DEF IInv, Typed, TypeOK
  <1>7. Typed'
    <2>1. TypeOK'
      BY <1>1, <1>2, <1>3, <1>4, <1>5 DEF IInv, Typed, TypeOK, records
    <2>2. Shapes'
      BY <1>1, <1>2, <1>4, <1>5, VaultAssumption
         DEF IInv, Typed, Shapes, records, NotBuilding
    <2> QED
      BY <2>1, <2>2 DEF Typed
  <1>8. Lineage'
    <2>1. \A x \in DOMAIN run : run[x].parent \in DOMAIN run \cup {NoRun}
      BY DEF IInv, Pages, Lineage
    <2> QED
      BY <1>2, <1>3, <1>5, <2>1 DEF IInv, Pages, Lineage
  <1>9. NeverBack'
    BY <1>2, <1>3, <1>5 DEF IInv, Pages, NeverBack, Registered
  <1>10. Succeeded'
    <2>1. p \in Active /\ registry[p] = r
      BY <1>1 DEF IInv, Files, Committing
    <2> SUFFICES ASSUME NEW x \in DOMAIN run, run'[x].state = "completed"
                 PROVE  /\ x \in sidecar
                        /\ \/ run[x].page \in Active /\ registry[run[x].page] = x
                           \/ \E y \in sidecar : run[y].parent = x
      BY <1>2, <1>3, <1>5, <1>6 DEF Succeeded
    <2>2. CASE x = r
      BY <1>1, <2>1, <2>2
    <2>3. CASE x # r
      BY <1>3, <2>3 DEF IInv, Pages, Succeeded
    <2> QED
      BY <2>2, <2>3
  <1>11. CurrentFile'
    BY <1>1, <1>2, <1>3, <1>5, <1>6 DEF IInv, Files, CurrentFile, IsRedirect
  <1>12. Committing'
    BY <1>4 DEF Committing
  <1>13. Retriable'
    <2> SUFFICES ASSUME NEW x \in sidecar PROVE (Passed(x) \/ Unpassed(x))'
      BY <1>2 DEF Retriable
    <2>1. Passed(x) => Passed(x)'
      BY <1>2, <1>3, <1>6 DEF Passed
    <2>2. run[x].parent # NoRun => run[x].parent \in DOMAIN run
      BY <1>6 DEF IInv, Pages, Lineage
    <2>3. Unpassed(x) => Unpassed(x)'
      BY <1>2, <1>3, <1>5, <1>6, <2>2 DEF Unpassed, IsRedirect
    <2> QED
      BY <2>1, <2>3 DEF IInv, Files, Retriable
  <1>14. Releases'
    <2>1. Plans'
      BY <1>1, <1>2, <1>3, <1>6 DEF IInv, Releases, Plans, records
    <2>2. Counted' /\ NavigationNotOld'
      BY <1>1, CountedSame, NavigationSame DEF IInv, Releases, records
    <2>3. Applying'
      BY <1>1 DEF IInv, Releases, Applying, records
    <2> QED
      BY <2>1, <2>2, <2>3 DEF Releases
  <1>15. OldFilesGone'
    <2>1. ASSUME NEW v \in DOMAIN plan, NEW d \in plan[v].redirects
          PROVE  d.source \in DOMAIN run
      BY <1>6 DEF IInv, Releases, Plans
    <2> QED
      BY <1>1, <1>2, <1>3, <1>4, <2>1 DEF IInv, Moves, OldFilesGone, Placed, records
  <1>16. \A x \in Path : Owner(file[x])' = Owner(file[x])
    BY <1>2, <1>3, OwnerStays DEF IInv, Typed
  <1>17. ASSUME NEW x, NEW to \in Path, LeadTo(x, to) PROVE LeadTo(x, to)'
    BY <1>2, <1>16, <1>17 DEF LeadTo, IsText, IsRedirect
  <1>18. RedirectFiles'
    <2>1. ASSUME NEW x \in Path, IsRedirect(file[x]) PROVE file[x].to \in Path
      BY <2>1, FileKinds, Kinds DEF IInv, Typed
    <2> QED
      BY <1>2, <1>3, <1>6, <1>17, <2>1 DEF IInv, Moves, RedirectFiles, IsRedirect
  <1>19. Leading'
    <2>1. \A d \in applying.left : d.to \in Path /\ d.from \in Path
      BY DEF IInv, Typed, TypeOK, Redirect
    <2> QED
      BY <1>1, <1>2, <1>5, <1>16, <1>17, <2>1 DEF IInv, Moves, Leading
  <1> QED
    BY <1>7, <1>8, <1>9, <1>10, <1>11, <1>12, <1>13, <1>14, <1>15, <1>18, <1>19
       DEF IInv, Pages, Files, Moves

LEMMA WriteCommitKeeps ==
  ASSUME IInv, NEW w \in DOMAIN BuildWrites, WriteCommit(w) PROVE IInv'
  <1>1. w \in {"sidecar", "page", "registry", "manifest"}
    BY DEF BuildWrites
  <1> QED
    BY <1>1, SidecarKeeps, PageKeeps, RegistryKeeps, ManifestKeeps

(***************************************************************************)
(* A release is planned.                                                   *)
(***************************************************************************)
LEMMA RecordedRevision ==
  ASSUME TypeOK, NEW p, NEW q, Revisions(p, q) # {}
  PROVE  Recorded(p, q) \in Revisions(p, q)
  <1>1. Revisions(p, q) \subseteq Run /\ Run \subseteq Nat /\ IsFiniteSet(Run)
    BY VaultAssumption DEF TypeOK, Revisions
  <1>2. IsFiniteSet(Revisions(p, q)) /\ Revisions(p, q) \in SUBSET Nat
    BY <1>1, FS_Subset
  <1>3. \E r \in Revisions(p, q) : \A x \in Revisions(p, q) : x <= r
    BY <1>2, Greatest
  <1> QED
    BY <1>3 DEF Recorded

\* The redirects of a plan: from the old paths of a page to its current one.
LEMMA Redirected ==
  ASSUME TypeOK, Lineage
  PROVE  /\ \A d \in Redirects :
              /\ d \in Redirect /\ d.page \in Active /\ d.to = Current(d.page)
              /\ d.from \in OldPaths(d.page) /\ d.from # d.to /\ file[d.from] # Nothing
              /\ d.source \in sidecar /\ run[d.source].page = d.page
              /\ run[d.source].path = d.from /\ d.source = Recorded(d.page, d.from)
              /\ d = [from |-> d.from, to |-> d.to, page |-> d.page, source |-> d.source]
         /\ \A p \in Active : \A q \in OldPaths(p) : file[q] # Nothing =>
              \E d \in Redirects : d.page = p /\ d.from = q /\ d.to = Current(p)
  <1>1. ASSUME NEW p \in Active, NEW q \in OldPaths(p)
        PROVE  /\ Recorded(p, q) \in sidecar /\ run[Recorded(p, q)].page = p
               /\ run[Recorded(p, q)].path = q
               /\ q # Current(p) /\ q \in Path /\ p \in Page /\ Current(p) \in Path
               /\ Recorded(p, q) \in Run
    <2>1. PICK r \in sidecar : run[r].page = p /\ run[r].path = q
      BY DEF OldPaths
    <2>2. Recorded(p, q) \in Revisions(p, q)
      BY <2>1, RecordedRevision DEF Revisions
    <2>3. /\ Recorded(p, q) \in sidecar /\ run[Recorded(p, q)].page = p
          /\ run[Recorded(p, q)].path = q
      BY <2>2 DEF Revisions
    <2>4. q # Current(p)
      BY DEF OldPaths
    <2>5. r \in DOMAIN run /\ registry[p] \in DOMAIN run /\ p \in Page
      BY DEF TypeOK
    <2>6. run[r].path \in Path /\ run[registry[p]].path \in Path
      BY <2>5 DEF TypeOK, BuildRun
    <2>7. Recorded(p, q) \in Run
      BY <2>3 DEF TypeOK
    <2> QED
      BY <2>1, <2>3, <2>4, <2>5, <2>6, <2>7 DEF Current
  <1>2. ASSUME NEW d \in Redirects
        PROVE  /\ d \in Redirect /\ d.page \in Active /\ d.to = Current(d.page)
               /\ d.from \in OldPaths(d.page) /\ d.from # d.to /\ file[d.from] # Nothing
               /\ d.source \in sidecar /\ run[d.source].page = d.page
               /\ run[d.source].path = d.from /\ d.source = Recorded(d.page, d.from)
               /\ d = [from |-> d.from, to |-> d.to, page |-> d.page, source |-> d.source]
    <2>0. PICK p \in Active : \E q \in OldPaths(p) :
            /\ d = [from |-> q, to |-> Current(p), page |-> p, source |-> Recorded(p, q)]
            /\ file[q] # Nothing
      BY DEF Redirects
    <2>1. PICK q \in OldPaths(p) :
            /\ d = [from |-> q, to |-> Current(p), page |-> p, source |-> Recorded(p, q)]
            /\ file[q] # Nothing
      BY <2>0
    <2>2. d.page = p /\ d.from = q /\ d.to = Current(p) /\ d.source = Recorded(p, q)
      BY <2>1
    <2>3. d \in Redirect
      BY <1>1, <2>1 DEF Redirect
    <2> QED
      BY <1>1, <2>1, <2>2, <2>3
  <1>3. ASSUME NEW p \in Active, NEW q \in OldPaths(p), file[q] # Nothing
        PROVE  \E d \in Redirects : d.page = p /\ d.from = q /\ d.to = Current(p)
    <2> DEFINE d == [from |-> q, to |-> Current(p), page |-> p, source |-> Recorded(p, q)]
    <2>1. d \in Redirects
      BY <1>3 DEF Redirects
    <2> QED
      BY <2>1
  <1> QED
    BY <1>2, <1>3

LEMMA PlanKeeps ==
  ASSUME IInv, NEW v \in Release, NEW R \in SUBSET DOMAIN run, Plan(v, R)
  PROVE  IInv'
  <1> DEFINE new == NewPlan(R)
  <1>1. /\ v \notin DOMAIN plan /\ Plannable(R) /\ plan' = Put(plan, v, new)
        /\ UNCHANGED <<knowledge, file, building, ledger, versioned, navigation,
                       manifest, applying, crashes>>
    BY DEF Plan
  <1>2. TypeOK /\ Lineage
    BY DEF IInv, Typed, Pages
  <1>3. /\ new.state = "draft" /\ new.expected = ledger.revision
        /\ new.runs = Selected(R) /\ new.subjects = registry /\ new.redirects = Redirects
    BY DEF NewPlan
  <1>4. ASSUME NEW d \in Redirects
        PROVE  /\ d \in Redirect /\ d.page \in Active /\ d.to = Current(d.page)
               /\ d.from # d.to /\ file[d.from] # Nothing
               /\ d.source \in sidecar /\ run[d.source].page = d.page
               /\ run[d.source].path = d.from
               /\ d = [from |-> d.from, to |-> d.to, page |-> d.page, source |-> d.source]
               /\ d.source = Recorded(d.page, d.from)
               /\ \/ file[d.from] = Text(d.source)
                  \/ IsRedirect(file[d.from])
               /\ Owner(file[d.from]) = d.page
    <2>1. /\ d.page \in Active /\ d.from \in OldPaths(d.page) /\ file[d.from] # Nothing
          /\ d.source = Recorded(d.page, d.from) /\ run[d.source].page = d.page
      BY <1>2, Redirected
    <2>2. Recognised(d.page, d.from)
      BY <1>1, <2>1 DEF Plannable
    <2>3. \/ file[d.from] = Text(d.source)
          \/ IsRedirect(file[d.from]) /\ file[d.from].page = d.page
      BY <2>1, <2>2 DEF Recognised, IsRedirect
    <2>4. Owner(file[d.from]) = d.page
      BY <2>1, <2>3, Kinds DEF Owner, IsRedirect
    <2> QED
      BY <1>2, <2>3, <2>4, Redirected
  <1>5. new \in PlanRecord
    <2>1. Selected(R) \in SUBSET Run
      BY <1>2 DEF TypeOK, Selected
    <2>2. registry \in [Active -> Run] /\ Active \in SUBSET Page
      BY <1>2 DEF TypeOK
    <2>3. registry \in UNION {[S -> Run] : S \in SUBSET Page}
      BY <2>2
    <2>4. Redirects \in SUBSET Redirect
      BY <1>4
    <2>5. ledger.revision \in Nat
      BY <1>2 DEF TypeOK
    <2> QED
      BY <2>1, <2>3, <2>4, <2>5 DEF NewPlan, PlanRecord
  <1> HIDE DEF new
  <1>6. /\ DOMAIN plan' = DOMAIN plan \cup {v}
        /\ plan' \in [DOMAIN plan' -> PlanRecord]
        /\ plan'[v] = new /\ \A x \in DOMAIN plan : plan'[x] = plan[x]
    <2>1. /\ DOMAIN Put(plan, v, new) = DOMAIN plan \cup {v}
          /\ Put(plan, v, new) \in [DOMAIN plan \cup {v} -> PlanRecord]
          /\ Put(plan, v, new)[v] = new
          /\ \A x \in DOMAIN plan : x # v => Put(plan, v, new)[x] = plan[x]
      BY <1>1, <1>5 DEF IInv, Typed, Shapes, Put
    <2> QED
      BY <1>1, <2>1
  <1>7. Typed'
    <2>1. /\ new.runs \subseteq DOMAIN run /\ new.subjects \in [DOMAIN new.subjects -> DOMAIN run]
          /\ DOMAIN new.subjects \subseteq Active /\ new.redirects \subseteq Redirect
          /\ new.expected \in Nat /\ new.state \in {"draft", "applied"}
      BY <1>2, <1>3, <1>4 DEF TypeOK, Selected, Active
    <2>2. TypeOK'
      BY <1>1, <1>2, <1>6, <2>1 DEF TypeOK, knowledge, Active
    <2>3. Shapes'
      BY <1>1, <1>6 DEF IInv, Typed, Shapes, knowledge
    <2> QED
      BY <2>2, <2>3 DEF Typed
  <1>8. Pages' /\ Files'
    BY <1>1, PagesSame, FilesSame DEF IInv
  <1>9. v # NoRelease /\ v \notin ledger.releases /\ v \notin manifest
        /\ applying.release # v
    BY <1>1, <1>2, VaultAssumption DEF IInv, TypeOK, Releases, Counted
  <1>10. Plans'
    <2>1. \A r \in Selected(R) : r \in DOMAIN run /\ run[r].state = "completed"
      BY <1>1, <1>2 DEF Plannable, Selected, TypeOK
    <2>2. ASSUME NEW d \in Redirects, NEW e \in Redirects
          PROVE  /\ d.from = e.from => d = e
                 /\ d.page = e.page => d.to = e.to
      <3>1. d.page = e.page => d.to = e.to
        BY <1>4
      <3>2. d.from = e.from => d.page = e.page
        BY <1>4
      <3>3. d.from = e.from => d.source = e.source
        BY <1>4, <3>2
      <3> QED
        BY <1>4, <3>1, <3>2, <3>3
    <2>3. /\ \A r \in new.runs : r \in DOMAIN run /\ run[r].state = "completed"
          /\ new.expected <= ledger.revision
          /\ \A d \in new.redirects :
               /\ d.source \in sidecar /\ run[d.source].page = d.page
               /\ run[d.source].path = d.from /\ d.from # d.to
          /\ \A d, e \in new.redirects :
               /\ d.from = e.from => d = e
               /\ d.page = e.page => d.to = e.to
      BY <1>2, <1>3, <1>4, <2>1, <2>2 DEF TypeOK
    <2>4. UNCHANGED <<run, sidecar, ledger, versioned, manifest>>
      BY <1>1 DEF knowledge
    <2> QED
      BY <1>6, <1>9, <2>3, <2>4 DEF IInv, Releases, Plans
  <1>11. Counted' /\ NavigationNotOld'
    BY <1>1, <1>6 DEF IInv, Releases, Counted, Recovering, NavigationNotOld
  <1>12. Applying'
    <2>1. applying.release # NoRelease => applying.release \in DOMAIN plan
      BY <1>2 DEF TypeOK
    <2> QED
      BY <1>1, <1>6, <2>1 DEF IInv, Releases, Applying
  <1>13. OldFilesGone'
    <2>1. ASSUME NEW d \in Redirects
          PROVE  /\ run[d.source].parent # NoRun => file[d.from] # Text(run[d.source].parent)
                 /\ ~(building.run = d.source /\ "page" \in building.left)
      <3>1. d.source \in DOMAIN run
        BY <1>2, <1>4 DEF TypeOK
      <3>2. run[d.source].parent # d.source
        BY <3>1, <1>2 DEF Lineage
      <3>3. run[d.source].parent # NoRun => file[d.from] # Text(run[d.source].parent)
        BY <1>4, <3>2, Kinds
      <3>4. ASSUME building.run = d.source, "page" \in building.left PROVE FALSE
        <4>1. d.source # NoRun
          BY <1>2, <3>1, VaultAssumption DEF TypeOK
        <4>2. ToBeWritten(d.source)
          BY <3>4, <4>1 DEF IInv, Files, Committing
        <4> QED
          BY <1>4, <4>2 DEF ToBeWritten
      <3> QED
        BY <3>3, <3>4
    <2>2. \A d \in Redirects : file[d.from] # Nothing
      BY <1>4
    <2>3. UNCHANGED <<run, file, building, ledger, applying, serialised>>
      BY <1>1 DEF knowledge
    <2> QED
      BY <1>3, <1>6, <1>9, <2>1, <2>2, <2>3 DEF IInv, Moves, OldFilesGone, Placed
  <1>14. RedirectFiles' /\ Leading'
    BY <1>1, RedirectFilesSame, LeadingSame DEF IInv, Moves
  <1> QED
    BY <1>7, <1>8, <1>10, <1>11, <1>12, <1>13, <1>14 DEF IInv, Releases, Moves

(***************************************************************************)
(* An apply begins, or takes up an interrupted one.                        *)
(***************************************************************************)
LEMMA BeginApplyKeeps ==
  ASSUME IInv, NEW v \in DOMAIN plan, BeginApply(v)
  PROVE  IInv'
  <1>1. /\ applying = NotApplying /\ (serialised => building = NotBuilding)
        /\ v \notin manifest /\ (Unchanged(v) \/ Recovering(v)) /\ Replaceable(v)
        /\ applying' = [release |-> v, next |-> "redirects", left |-> plan[v].redirects]
        /\ UNCHANGED <<knowledge, file, building, records, crashes>>
    BY DEF BeginApply, Applicable, Free
  <1>2. /\ applying'.release = v /\ applying'.next = "redirects"
        /\ applying'.left = plan[v].redirects
    BY <1>1
  <1>3. v \in Release /\ v # NoRelease /\ plan[v].redirects \subseteq Redirect
    BY VaultAssumption DEF IInv, Typed, TypeOK
  <1>4. TypeOK /\ Lineage
    BY DEF IInv, Typed, Pages
  <1>5. Typed'
    <2>1. TypeOK'
      BY <1>1, <1>2, <1>3, <1>4 DEF TypeOK, knowledge, records, Active, NextWrite
    <2>2. Shapes'
      BY <1>1, <1>2, <1>3 DEF IInv, Typed, Shapes, knowledge, records, NextWrite
    <2> QED
      BY <2>1, <2>2 DEF Typed
  <1>6. Pages' /\ Files'
    BY <1>1, PagesSame, FilesSame DEF IInv
  <1>7. Unchanged(v) => v \notin ledger.releases
    BY <1>4 DEF IInv, Releases, Plans, Unchanged, TypeOK
  <1>8. Recovering(v) => ledger.current = v /\ v \in ledger.releases
    BY <1>3 DEF IInv, Releases, Counted, Recovering
  <1>9. Releases'
    <2>1. Applying'
      BY <1>1, <1>2, <1>7, <1>8 DEF Applying, records, Unchanged
    <2> QED
      BY <1>1, <2>1, PlansSame, CountedSame, NavigationSame DEF IInv, Releases, records
  <1>10. OldFilesGone'
    BY <1>1, <1>2, <1>3 DEF IInv, Moves, OldFilesGone, Placed, knowledge, records
  <1>11. RedirectFiles'
    BY <1>1, RedirectFilesSame DEF IInv, Moves
  <1>12. ASSUME NEW d \in plan[v].redirects
         PROVE  /\ file[d.from] # Nothing /\ Owner(file[d.from]) = d.page
                /\ LeadTo(d.page, d.to)
                /\ serialised =>
                     \/ file[d.from] = Pointer(d.page, d.to)
                     \/ file[d.from] = Text(d.source) /\ \A p \in Active : Current(p) # d.from
    <2>1. /\ file[d.from] \in {Text(d.source), Pointer(d.page, d.to)}
          /\ run[d.source].page = d.page /\ d.source \in sidecar /\ d.from \in Path
          /\ d.from # d.to
      BY <1>1, <1>3 DEF Replaceable, IInv, Releases, Plans, Redirect
    <2>2. file[d.from] # Nothing /\ Owner(file[d.from]) = d.page
      BY <2>1, Kinds
    <2>3. CASE Recovering(v)
      <3>1. Placed(v, d)
        BY <1>8, <2>3 DEF Placed
      <3>2. file[d.from] = Pointer(d.page, d.to)
        BY <2>1, <3>1 DEF IInv, Moves, OldFilesGone
      <3>3. IsRedirect(file[d.from]) /\ file[d.from].page = d.page /\ file[d.from].to = d.to
        BY <3>2, Kinds
      <3>4. LeadTo(d.page, d.to)
        BY <2>1, <3>3 DEF IInv, Moves, RedirectFiles
      <3> QED
        BY <2>2, <3>2, <3>4
    <2>4. CASE Unchanged(v)
      <3>1. Plannable(plan[v].runs) /\ plan[v].redirects = Redirects
        BY <2>4 DEF Unchanged, NewPlan
      <3>2. d.page \in Active /\ d.to = Current(d.page)
        BY <1>4, <3>1, Redirected
      <3>3. \A p \in Active : file[Current(p)] = Text(registry[p]) /\ run[registry[p]].page = p
        BY <1>4, <3>1 DEF Plannable, Lineage
      <3>4. IsText(file[d.to]) /\ Owner(file[d.to]) = d.page
        BY <3>2, <3>3, Kinds
      <3>5. ASSUME NEW x \in Path, IsRedirect(file[x]), file[x].page = d.page
            PROVE  file[x].to = d.to
        <4>1. PICK s \in sidecar : run[s].page = d.page /\ run[s].path = x
          BY <3>5 DEF IInv, Moves, RedirectFiles
        <4>2. x # Current(d.page)
          BY <3>2, <3>4, <3>5 DEF IsText, IsRedirect
        <4>3. x \in OldPaths(d.page)
          BY <4>1, <4>2 DEF OldPaths
        <4>4. file[x] # Nothing
          BY <3>5, Kinds
        <4>5. PICK e \in Redirects : e.page = d.page /\ e.from = x /\ e.to = d.to
          BY <1>4, <3>2, <4>3, <4>4, Redirected
        <4>6. file[x] \in {Text(e.source), Pointer(d.page, d.to)}
          BY <1>1, <3>1, <4>5 DEF Replaceable
        <4> QED
          BY <3>5, <4>6, Kinds
      <3>6. LeadTo(d.page, d.to)
        BY <3>4, <3>5 DEF LeadTo
      <3>7. ASSUME file[d.from] = Text(d.source), NEW p \in Active PROVE Current(p) # d.from
        BY <2>1, <3>2, <3>3, <3>7, Kinds
      <3> QED
        BY <2>1, <2>2, <3>6, <3>7
    <2> QED
      BY <1>1, <2>3, <2>4
  <1>13. Leading'
    BY <1>1, <1>2, <1>12
       DEF Leading, LeadTo, IsRedirect, IsText, Owner, knowledge, Active, Current
  <1> QED
    BY <1>5, <1>6, <1>9, <1>10, <1>11, <1>13 DEF IInv, Moves

(***************************************************************************)
(* A redirect is written.                                                  *)
(***************************************************************************)
\* What it replaces is of its page.
LEMMA Redirecting ==
  ASSUME IInv, NEW d \in applying.left, WriteRedirect(d)
  PROVE  /\ applying.release \in DOMAIN plan /\ applying.release # NoRelease
         /\ applying.next = "redirects" /\ d \in plan[applying.release].redirects
         /\ d \in Redirect /\ d.from \in Path /\ d.to \in Path /\ d.page \in Page
         /\ d.source \in sidecar /\ run[d.source].page = d.page
         /\ run[d.source].path = d.from /\ d.from # d.to
         /\ file[d.from] # Nothing /\ Owner(file[d.from]) = d.page /\ LeadTo(d.page, d.to)
         /\ file'[d.from] = Pointer(d.page, d.to)
         /\ \A x \in Path : x # d.from => file'[x] = file[x]
         /\ file' \in [Path -> {Nothing} \cup {Text(r) : r \in DOMAIN run}
                               \cup {Pointer(p, q) : p \in Page, q \in Path}]
         /\ applying' = [release |-> applying.release, next |-> "redirects",
                         left |-> applying.left \ {d}]
         /\ applying'.release = applying.release /\ applying'.next = "redirects"
         /\ applying'.left = applying.left \ {d}
         /\ serialised => building = NotBuilding
  <1>1. /\ applying \in [release : DOMAIN plan \cup {NoRelease},
                         next : DOMAIN NextWrite \cup {"manifest"}, left : SUBSET Redirect]
        /\ applying.release # NoRelease /\ (serialised => building = NotBuilding)
    BY DEF IInv, Typed, Shapes, NotApplying
  <1>2. /\ applying.release \in DOMAIN plan /\ d \in plan[applying.release].redirects
        /\ applying.next = "redirects"
    BY <1>1 DEF IInv, Releases, Applying
  <1>3. d \in Redirect /\ d.from \in Path /\ d.to \in Path /\ d.page \in Page
    BY <1>1 DEF Redirect
  <1>4. /\ d.source \in sidecar /\ run[d.source].page = d.page
        /\ run[d.source].path = d.from /\ d.from # d.to
    BY <1>2 DEF IInv, Releases, Plans
  <1>5. /\ file[d.from] # Nothing /\ Owner(file[d.from]) = d.page /\ LeadTo(d.page, d.to)
    BY DEF IInv, Moves, Leading
  <1>6. file' = [file EXCEPT ![d.from] = Pointer(d.page, d.to)]
    BY DEF WriteRedirect
  <1>7. /\ file'[d.from] = Pointer(d.page, d.to)
        /\ \A x \in Path : x # d.from => file'[x] = file[x]
        /\ file' \in [Path -> {Nothing} \cup {Text(r) : r \in DOMAIN run}
                              \cup {Pointer(p, q) : p \in Page, q \in Path}]
    BY <1>3, <1>6 DEF IInv, Typed, TypeOK
  <1>8. applying' = [release |-> applying.release, next |-> "redirects",
                     left |-> applying.left \ {d}]
    BY <1>1, <1>2 DEF WriteRedirect
  <1> QED
    BY <1>1, <1>2, <1>3, <1>4, <1>5, <1>7, <1>8

LEMMA WriteRedirectKeeps ==
  ASSUME IInv, NEW d \in applying.left, WriteRedirect(d)
  PROVE  IInv'
  <1>1. UNCHANGED <<knowledge, building, records, crashes>>
    BY DEF WriteRedirect
  <1>2. /\ applying.release \in DOMAIN plan /\ applying.release # NoRelease
        /\ applying.next = "redirects" /\ d \in plan[applying.release].redirects
        /\ d \in Redirect /\ d.from \in Path /\ d.to \in Path /\ d.page \in Page
        /\ d.source \in sidecar /\ run[d.source].page = d.page
        /\ run[d.source].path = d.from /\ d.from # d.to
        /\ file[d.from] # Nothing /\ Owner(file[d.from]) = d.page /\ LeadTo(d.page, d.to)
        /\ serialised => building = NotBuilding
    BY Redirecting
  <1>3. /\ file'[d.from] = Pointer(d.page, d.to)
        /\ \A x \in Path : x # d.from => file'[x] = file[x]
        /\ file' \in [Path -> {Nothing} \cup {Text(r) : r \in DOMAIN run}
                              \cup {Pointer(p, q) : p \in Page, q \in Path}]
    BY Redirecting
  <1>4. /\ applying' = [release |-> applying.release, next |-> "redirects",
                        left |-> applying.left \ {d}]
        /\ applying'.release = applying.release /\ applying'.next = "redirects"
        /\ applying'.left = applying.left \ {d}
    BY Redirecting
  <1>5. IsRedirect(file'[d.from]) /\ ~IsText(file'[d.from]) /\ file'[d.from] # Nothing
    BY <1>3, Kinds
  <1>6. \A p \in Active : Current(p) \in Path
    BY DEF IInv, Typed, TypeOK, Current, BuildRun
  <1>7. Active' = Active /\ \A p \in Active : Current(p)' = Current(p)
    BY <1>1 DEF knowledge, Active, Current
  <1>8. ASSUME NEW x \in Path, file[x] # Nothing PROVE Owner(file[x])' = Owner(file[x])
    <2>1. CASE x = d.from
      <3>1. file'[x] = Pointer(d.page, d.to)
        BY <1>3, <2>1
      <3>2. Owner(file[x])' = d.page
        BY <3>1 DEF Owner, Pointer
      <3> QED
        BY <1>2, <2>1, <3>2
    <2>2. CASE x # d.from
      BY <1>1, <1>3, <2>2, OwnerStays DEF IInv, Typed, knowledge
    <2> QED
      BY <2>1, <2>2
  <1>9. serialised => \/ file[d.from] = Pointer(d.page, d.to)
                      \/ /\ file[d.from] = Text(d.source)
                         /\ \A p \in Active : Current(p) # d.from
    BY DEF IInv, Moves, Leading
  <1>10. Typed'
    <2>1. TypeOK'
      BY <1>1, <1>2, <1>3, <1>4, <1>7 DEF IInv, Typed, TypeOK, knowledge, records, NextWrite
    <2>2. Shapes'
      BY <1>1, <1>2, <1>4 DEF IInv, Typed, Shapes, knowledge, records, NotApplying
    <2> QED
      BY <2>1, <2>2 DEF Typed
  <1>11. Pages'
    BY <1>1, PagesSame DEF IInv
  <1>12. CurrentFile'
    <2> SUFFICES ASSUME NEW p \in Active
                 PROVE  \/ file'[Current(p)] = Text(registry[p])
                        \/ IsRedirect(file'[Current(p)]) /\ ~serialised
                        \/ \E x \in sidecar :
                             /\ run[x].page = p /\ run[x].parent = registry[p]
                             /\ run[x].path = Current(p) /\ file'[Current(p)] = Text(x)
      BY <1>1, <1>7 DEF CurrentFile, IsRedirect, knowledge
    <2>1. CASE Current(p) = d.from /\ ~serialised
      BY <1>5, <2>1
    <2>2. CASE Current(p) # d.from \/ serialised
      <3>1. file'[Current(p)] = file[Current(p)]
        BY <1>3, <1>6, <1>9, <2>2
      <3> QED
        BY <3>1 DEF IInv, Files, CurrentFile
    <2> QED
      BY <2>1, <2>2
  <1>13. Committing'
    <2> SUFFICES ASSUME building.run # NoRun PROVE Committing'
      BY <1>1 DEF Committing
    <2>1. ~serialised
      BY <1>2 DEF NotBuilding
    <2>2. building.run \in DOMAIN run
      BY DEF IInv, Typed, TypeOK
    <2>3. run[building.run].path \in Path
      BY <2>2 DEF IInv, Typed, TypeOK, BuildRun
    <2>4. Written(building.run) => Written(building.run)'
      BY <1>1, <1>3, <1>5, <2>1, <2>3 DEF Written, knowledge, IsRedirect
    <2>5. ASSUME NEW r \in DOMAIN run, run[r].path \in Path, ToBeWritten(r)
          PROVE  ToBeWritten(r)'
      <3>1. CASE run[r].path # d.from
        <4>1. file'[run[r].path] = file[run[r].path]
          BY <1>3, <2>5, <3>1
        <4>2. \A x : x = run[r].path /\ file[x] # Nothing
                => Owner(file[x])' = Owner(file[x])
          BY <1>8, <2>5
        <4>3. CASE file[run[r].path] = Nothing
          BY <1>1, <4>1, <4>3 DEF ToBeWritten, knowledge
        <4>4. CASE file[run[r].path] # Nothing
          <5>1. \A x : x = run[r].path => Owner(file[x])' = run[r].page
            BY <2>5, <4>2, <4>4 DEF ToBeWritten
          <5>2. run' = run /\ serialised' = serialised
            BY <1>1 DEF knowledge
          <5>3. Owner(file[run[r].path])' = run[r].page
            BY <5>1, <5>2 DEF Owner
          <5>4. run[r].page \in Active /\ Current(run[r].page) = run[r].path
            BY <2>5, <4>4 DEF ToBeWritten
          <5>5. Current(run[r].page)' = run[r].path /\ run[r].page \in Active'
            BY <1>1, <5>4 DEF knowledge, Active, Current
          <5> QED
            BY <2>5, <4>1, <4>4, <5>2, <5>3, <5>4, <5>5 DEF ToBeWritten, IsRedirect
        <4> QED
          BY <4>3, <4>4
      <3>2. CASE run[r].path = d.from
        <4>1. run' = run /\ serialised' = serialised
          BY <1>1 DEF knowledge
        <4>2. run[r].page \in Active /\ Current(run[r].page) = run[r].path
              /\ run[r].page = d.page
          BY <1>2, <2>5, <3>2 DEF ToBeWritten
        <4>3. Current(run[r].page)' = run[r].path /\ run[r].page \in Active'
          BY <1>1, <4>2 DEF knowledge, Active, Current
        <4>4. file'[run[r].path] = Pointer(d.page, d.to)
          BY <1>3, <3>2
        <4>5. Owner(file[run[r].path])' = d.page
          BY <4>1, <4>4 DEF Owner, Pointer
        <4>6. IsRedirect(file[run[r].path])'
          BY <4>1, <4>4 DEF IsRedirect, Pointer
        <4> QED
          BY <2>1, <4>1, <4>2, <4>3, <4>5, <4>6 DEF ToBeWritten
      <3> QED
        BY <3>1, <3>2
    <2>6. ToBeWritten(building.run) => ToBeWritten(building.run)'
      <3>1. \A r : r = building.run /\ ToBeWritten(r) => ToBeWritten(r)'
        BY <2>2, <2>3, <2>5
      <3> QED
        BY <1>1, <3>1 DEF ToBeWritten, IsRedirect, knowledge, Owner, Active, Current
    <2> QED
      BY <1>1, <1>7, <2>4, <2>6 DEF IInv, Files, Committing, knowledge
  <1>14. Retriable'
    <2> SUFFICES ASSUME NEW x \in sidecar PROVE (Passed(x) \/ Unpassed(x))'
      BY <1>1 DEF Retriable, knowledge
    <2>1. Passed(x) => Passed(x)'
      BY <1>1 DEF Passed, knowledge
    <2>2. run[x].path \in Path
      BY DEF IInv, Typed, TypeOK, BuildRun
    <2>3. Unpassed(x) => Unpassed(x)'
      BY <1>1, <1>3, <1>5, <1>7, <2>2 DEF Unpassed, IsRedirect, knowledge
    <2> QED
      BY <2>1, <2>3 DEF IInv, Files, Retriable
  <1>15. Releases'
    <2>1. Applying'
      BY <1>1, <1>4 DEF IInv, Releases, Applying, records
    <2> QED
      BY <1>1, <2>1, PlansSame, CountedSame, NavigationSame DEF IInv, Releases, records
  <1>16. OldFilesGone'
    <2> SUFFICES ASSUME NEW u \in DOMAIN plan, NEW e \in plan[u].redirects
                 PROVE  /\ file'[e.from] # Nothing
                        /\ run[e.source].parent # NoRun =>
                             file'[e.from] # Text(run[e.source].parent)
                        /\ ~(building.run = e.source /\ "page" \in building.left)
                        /\ Placed(u, e)' =>
                             /\ file'[e.from] # Text(e.source)
                             /\ serialised => file'[e.from] = Pointer(e.page, e.to)
      BY <1>1 DEF OldFilesGone, knowledge, records
    <2>1. /\ file[e.from] # Nothing
          /\ run[e.source].parent # NoRun => file[e.from] # Text(run[e.source].parent)
          /\ ~(building.run = e.source /\ "page" \in building.left)
          /\ Placed(u, e) =>
               /\ file[e.from] # Text(e.source)
               /\ serialised => file[e.from] = Pointer(e.page, e.to)
      BY DEF IInv, Moves, OldFilesGone
    <2>2. e.from \in Path
      BY DEF IInv, Typed, TypeOK, Redirect
    <2>3. Placed(u, e)' => Placed(u, e) \/ e = d
      BY <1>1, <1>4 DEF Placed, records
    <2>4. CASE e.from # d.from
      BY <1>3, <2>1, <2>2, <2>3, <2>4
    <2>5. CASE e.from = d.from
      <3>1. \A r : file'[e.from] # Text(r)
        BY <1>3, <2>5, Kinds
      <3>2. serialised /\ Placed(u, e) => file[d.from] = Pointer(d.page, d.to)
        BY <1>9, <2>1, <2>5, Kinds
      <3>3. serialised /\ Placed(u, e)' => file'[e.from] = Pointer(e.page, e.to)
        BY <1>3, <2>1, <2>3, <2>5, <3>2
      <3> QED
        BY <1>5, <2>1, <2>5, <3>1, <3>3
    <2> QED
      BY <2>4, <2>5
  <1>17. ASSUME NEW y, NEW to \in Path, LeadTo(y, to), y = d.page => to = d.to
         PROVE  LeadTo(y, to)'
    <2>1. to # d.from
      BY <1>2, <1>17 DEF LeadTo
    <2>2. IsText(file[to])' /\ Owner(file[to])' = y
      <3>1. file'[to] = file[to] /\ file[to] # Nothing
        BY <1>3, <1>17, <2>1, Kinds DEF LeadTo
      <3>2. Owner(file[to])' = Owner(file[to])
        BY <1>8, <3>1
      <3> QED
        BY <1>17, <3>1, <3>2 DEF LeadTo, IsText
    <2>3. ASSUME NEW x \in Path, file'[x].kind = "redirect", file'[x].page = y
          PROVE  file'[x].to = to
      <3>1. CASE x = d.from
        BY <1>3, <1>17, <2>3, <3>1, Kinds
      <3>2. CASE x # d.from
        BY <1>3, <1>17, <2>3, <3>2 DEF LeadTo, IsRedirect
      <3> QED
        BY <3>1, <3>2
    <2> QED
      BY <2>2, <2>3 DEF LeadTo, IsRedirect
  <1>18. LeadTo(d.page, d.to)'
    BY <1>2, <1>17
  <1>19. RedirectFiles'
    <2> SUFFICES ASSUME NEW x \in Path, IsRedirect(file'[x]),
                        NEW y, NEW to, file'[x].page = y, file'[x].to = to
                 PROVE  /\ \E s \in sidecar : run[s].page = y /\ run[s].path = x
                        /\ LeadTo(y, to)'
      BY <1>1 DEF RedirectFiles, LeadTo, IsRedirect, knowledge
    <2>1. CASE x = d.from
      <3>1. y = d.page /\ to = d.to
        BY <1>3, <2>1, Kinds
      <3> QED
        BY <1>2, <1>18, <2>1, <3>1
    <2>2. CASE x # d.from
      <3>1. IsRedirect(file[x]) /\ file[x].page = y /\ file[x].to = to
        BY <1>3, <2>2
      <3>2. to \in Path
        BY <3>1, FileKinds, Kinds DEF IInv, Typed
      <3>3. LeadTo(y, to) /\ \E s \in sidecar : run[s].page = y /\ run[s].path = x
        BY <3>1 DEF IInv, Moves, RedirectFiles
      <3>4. y = d.page => to = d.to
        BY <1>2, <3>1 DEF LeadTo
      <3> QED
        BY <1>17, <3>2, <3>3, <3>4
    <2> QED
      BY <2>1, <2>2
  <1>20. Leading'
    <2> SUFFICES ASSUME NEW e \in applying.left, e # d
                 PROVE  /\ file'[e.from] # Nothing /\ Owner(file[e.from])' = e.page
                        /\ LeadTo(e.page, e.to)'
                        /\ serialised =>
                             \/ file'[e.from] = Pointer(e.page, e.to)
                             \/ /\ file'[e.from] = Text(e.source)
                                /\ \A p \in Active : Current(p)' # e.from
      BY <1>1, <1>4, <1>7 DEF Leading, knowledge
    <2>1. e \in plan[applying.release].redirects /\ e.from \in Path /\ e.to \in Path
      BY <1>2 DEF IInv, Typed, TypeOK, Redirect, Releases, Applying
    <2>2. e.from # d.from /\ (e.page = d.page => e.to = d.to)
      BY <1>2, <2>1 DEF IInv, Releases, Plans
    <2>3. /\ file[e.from] # Nothing /\ Owner(file[e.from]) = e.page
          /\ LeadTo(e.page, e.to)
          /\ serialised =>
               \/ file[e.from] = Pointer(e.page, e.to)
               \/ file[e.from] = Text(e.source) /\ \A p \in Active : Current(p) # e.from
      BY DEF IInv, Moves, Leading
    <2> QED
      BY <1>3, <1>7, <1>8, <1>17, <2>1, <2>2, <2>3
  <1> QED
    BY <1>10, <1>11, <1>12, <1>13, <1>14, <1>15, <1>16, <1>19, <1>20 DEF IInv, Files, Moves

(***************************************************************************)
(* Another file of a release is written.                                   *)
(***************************************************************************)
\* What the write finds, and what becomes of the release state.
LEMMA Releasing ==
  ASSUME IInv, WriteRelease
  PROVE  LET v == applying.release
             n == applying.next
         IN  /\ v \in DOMAIN plan /\ v # NoRelease /\ v \notin manifest
             /\ n \in {"redirects", "versioned", "navigation", "state", "plan", "manifest"}
             /\ applying.left = {}
             /\ n # "manifest" =>
                  applying' = [release |-> v, next |-> NextWrite[n], left |-> {}]
             /\ DOMAIN plan' = DOMAIN plan /\ plan' \in [DOMAIN plan -> PlanRecord]
             /\ \A u \in DOMAIN plan :
                  /\ plan'[u].expected = plan[u].expected /\ plan'[u].runs = plan[u].runs
                  /\ plan'[u].subjects = plan[u].subjects
                  /\ plan'[u].redirects = plan[u].redirects
                  /\ plan'[u].state \in {plan[u].state, "applied"}
             /\ n = "plan" => plan'[v].state = "applied"
             /\ \/ ledger' = ledger /\ (n = "state" => ledger.current = v)
                \/ /\ n = "state" /\ v \notin ledger.releases
                   /\ ledger.revision = plan[v].expected
                   /\ ledger' = [revision |-> ledger.revision + 1, current |-> v,
                                 applied |-> ledger.applied \cup plan[v].runs,
                                 releases |-> ledger.releases \cup {v}]
  <1> DEFINE v == applying.release
             n == applying.next
  <1>1. /\ v # NoRelease /\ applying.left = {}
        /\ ledger' = IF n = "state" THEN Advanced(v) ELSE ledger
        /\ plan' = IF n = "plan" THEN [plan EXCEPT ![v].state = "applied"] ELSE plan
        /\ n # "manifest" => applying' = [applying EXCEPT !.next = NextWrite[n]]
    BY DEF WriteRelease
  <1>2. /\ applying \in [release : DOMAIN plan \cup {NoRelease},
                         next : DOMAIN NextWrite \cup {"manifest"}, left : SUBSET Redirect]
        /\ plan \in [DOMAIN plan -> PlanRecord]
    BY DEF IInv, Typed, Shapes
  <1>3. /\ v \in DOMAIN plan /\ v \notin manifest
        /\ \/ ledger.current = v
           \/ v \notin ledger.releases /\ ledger.revision = plan[v].expected
    BY <1>1, <1>2 DEF IInv, Releases, Applying
  <1>4. n \in {"redirects", "versioned", "navigation", "state", "plan", "manifest"}
    BY <1>2 DEF NextWrite
  <1>5. n # "manifest" => applying' = [release |-> v, next |-> NextWrite[n], left |-> {}]
    BY <1>1, <1>2
  <1>6. /\ DOMAIN plan' = DOMAIN plan /\ plan' \in [DOMAIN plan -> PlanRecord]
        /\ \A u \in DOMAIN plan :
             /\ plan'[u].expected = plan[u].expected /\ plan'[u].runs = plan[u].runs
             /\ plan'[u].subjects = plan[u].subjects
             /\ plan'[u].redirects = plan[u].redirects
             /\ plan'[u].state \in {plan[u].state, "applied"}
        /\ n = "plan" => plan'[v].state = "applied"
    <2>1. CASE n # "plan"
      BY <1>1, <1>2, <2>1
    <2>2. CASE n = "plan"
      <3>1. plan' = [plan EXCEPT ![v] = [plan[v] EXCEPT !.state = "applied"]]
        BY <1>1, <2>2
      <3> DEFINE s == [plan[v] EXCEPT !.state = "applied"]
      <3>2. plan[v] \in PlanRecord
        BY <1>2, <1>3
      <3>3. /\ s \in PlanRecord /\ s.state = "applied" /\ s.expected = plan[v].expected
            /\ s.runs = plan[v].runs /\ s.subjects = plan[v].subjects
            /\ s.redirects = plan[v].redirects
        BY <3>2 DEF PlanRecord
      <3> HIDE DEF s
      <3>4. plan' = [plan EXCEPT ![v] = s]
        BY <3>1 DEF s
      <3>5. /\ DOMAIN plan' = DOMAIN plan /\ plan' \in [DOMAIN plan -> PlanRecord]
            /\ plan'[v] = s /\ \A u \in DOMAIN plan : u # v => plan'[u] = plan[u]
        BY <1>2, <1>3, <3>3, <3>4
      <3> QED
        BY <3>3, <3>5
    <2> QED
      BY <2>1, <2>2
  <1>7. \/ ledger' = ledger /\ (n = "state" => ledger.current = v)
        \/ /\ n = "state" /\ v \notin ledger.releases
           /\ ledger.revision = plan[v].expected
           /\ ledger' = [revision |-> ledger.revision + 1, current |-> v,
                         applied |-> ledger.applied \cup plan[v].runs,
                         releases |-> ledger.releases \cup {v}]
    <2>1. CASE n # "state"
      BY <1>1, <2>1
    <2>2. CASE n = "state" /\ ledger.current = v
      <3>1. Recovering(v)
        BY <1>1, <2>2 DEF IInv, Releases, Counted
      <3> QED
        BY <1>1, <2>2, <3>1 DEF Advanced
    <2>3. CASE n = "state" /\ ledger.current # v
      <3>1. ~Recovering(v)
        BY <2>3 DEF Recovering
      <3> QED
        BY <1>1, <1>3, <2>3, <3>1 DEF Advanced
    <2> QED
      BY <2>1, <2>2, <2>3
  <1> QED
    BY <1>1, <1>3, <1>4, <1>5, <1>6, <1>7

LEMMA WriteReleaseKeeps == ASSUME IInv, WriteRelease PROVE IInv'
  <1> DEFINE v == applying.release
             n == applying.next
  <1>1. /\ v \in DOMAIN plan /\ v # NoRelease /\ v \notin manifest
        /\ n \in {"redirects", "versioned", "navigation", "state", "plan", "manifest"}
        /\ applying.left = {}
        /\ n # "manifest" => applying' = [release |-> v, next |-> NextWrite[n], left |-> {}]
    BY Releasing
  <1>2. /\ DOMAIN plan' = DOMAIN plan /\ plan' \in [DOMAIN plan -> PlanRecord]
        /\ \A u \in DOMAIN plan :
             /\ plan'[u].expected = plan[u].expected /\ plan'[u].runs = plan[u].runs
             /\ plan'[u].subjects = plan[u].subjects
             /\ plan'[u].redirects = plan[u].redirects
             /\ plan'[u].state \in {plan[u].state, "applied"}
        /\ n = "plan" => plan'[v].state = "applied"
    BY Releasing
  <1>3. \/ ledger' = ledger /\ (n = "state" => ledger.current = v)
        \/ /\ n = "state" /\ v \notin ledger.releases
           /\ ledger.revision = plan[v].expected
           /\ ledger' = [revision |-> ledger.revision + 1, current |-> v,
                         applied |-> ledger.applied \cup plan[v].runs,
                         releases |-> ledger.releases \cup {v}]
    BY Releasing
  <1>4. /\ versioned' = IF n = "versioned" THEN versioned \cup {v} ELSE versioned
        /\ navigation' = IF n = "navigation" THEN v ELSE navigation
        /\ manifest' = IF n = "manifest" THEN manifest \cup {v} ELSE manifest
        /\ n = "manifest" => applying' = NotApplying
        /\ UNCHANGED <<knowledge, file, building, crashes>>
    BY DEF WriteRelease
  <1>5. /\ applying'.left = {}
        /\ n = "manifest" => applying'.release = NoRelease /\ applying'.next = "redirects"
        /\ n # "manifest" => applying'.release = v /\ applying'.next = NextWrite[n]
    BY <1>1, <1>4 DEF NotApplying
  <1>6. /\ n = "redirects" => NextWrite[n] = "versioned"
        /\ n = "versioned" => NextWrite[n] = "navigation"
        /\ n = "navigation" => NextWrite[n] = "state"
        /\ n = "state" => NextWrite[n] = "plan"
        /\ n = "plan" => NextWrite[n] = "manifest"
        /\ n # "manifest" => NextWrite[n] \in DOMAIN NextWrite \cup {"manifest"}
        /\ "redirects" \in DOMAIN NextWrite
    BY <1>1 DEF NextWrite
  <1>7. /\ TypeOK /\ ledger.revision \in Nat /\ ledger.releases \subseteq Release
        /\ ledger.releases \subseteq DOMAIN plan /\ DOMAIN plan \subseteq Release
        /\ plan[v].runs \subseteq DOMAIN run /\ plan[v].expected \in Nat
    BY <1>1 DEF IInv, Typed, TypeOK
             , Releases, Counted
  <1>8. /\ ledger.applied \subseteq ledger'.applied
        /\ ledger.releases \subseteq ledger'.releases
        /\ ledger'.releases \subseteq ledger.releases \cup {v}
        /\ ledger.revision <= ledger'.revision
    BY <1>3, <1>7
  <1>9. ledger.current = v => v \in ledger.releases
    BY <1>1 DEF IInv, Releases, Counted
  <1>10. Typed'
    <2>1. ledger' \in [revision : Nat, current : Release \cup {NoRelease},
                       applied : SUBSET DOMAIN run, releases : SUBSET Release]
      BY <1>1, <1>3, <1>7 DEF TypeOK
    <2>2. \A u \in DOMAIN plan :
            /\ plan'[u].state \in {"draft", "applied"} /\ plan'[u].expected \in Nat
            /\ plan'[u].runs \subseteq DOMAIN run
            /\ plan'[u].subjects \in [DOMAIN plan'[u].subjects -> DOMAIN run]
            /\ DOMAIN plan'[u].subjects \subseteq Active
            /\ plan'[u].redirects \subseteq Redirect
      BY <1>2, <1>7 DEF TypeOK
    <2>3. /\ versioned' \subseteq DOMAIN plan /\ manifest' \subseteq DOMAIN plan
          /\ navigation' \in DOMAIN plan \cup {NoRelease}
          /\ applying'.release \in DOMAIN plan \cup {NoRelease}
          /\ applying'.next \in DOMAIN NextWrite \cup {"manifest"}
      BY <1>1, <1>4, <1>5, <1>6, <1>7 DEF TypeOK
    <2>4. TypeOK'
      BY <1>2, <1>4, <1>5, <1>7, <2>1, <2>2, <2>3 DEF TypeOK, knowledge, Active
    <2>5. applying' \in [release : DOMAIN plan \cup {NoRelease},
                         next : DOMAIN NextWrite \cup {"manifest"}, left : SUBSET Redirect]
      BY <1>1, <1>4, <1>6 DEF NotApplying
    <2>6. serialised => building = NotBuilding
      BY <1>1 DEF IInv, Typed, Shapes, NotApplying
    <2>7. Shapes'
      BY <1>1, <1>2, <1>4, <1>5, <2>5, <2>6 DEF IInv, Typed, Shapes, knowledge
    <2> QED
      BY <2>4, <2>7 DEF Typed
  <1>11. Pages' /\ Files'
    BY <1>4, PagesSame, FilesSame DEF IInv
  <1>12. Plans'
    <2> SUFFICES ASSUME NEW u \in DOMAIN plan
                 PROVE  /\ \A r \in plan'[u].runs : r \in DOMAIN run /\ run[r].state = "completed"
                        /\ plan'[u].expected <= ledger'.revision
                        /\ u \in ledger'.releases =>
                             /\ plan'[u].expected < ledger'.revision
                             /\ plan'[u].runs \subseteq ledger'.applied
                        /\ u \in manifest' =>
                             /\ u \in ledger'.releases /\ u \in versioned'
                             /\ plan'[u].state = "applied"
                        /\ \A d \in plan'[u].redirects :
                             /\ d.source \in sidecar /\ run[d.source].page = d.page
                             /\ run[d.source].path = d.from /\ d.from # d.to
                        /\ \A d, e \in plan'[u].redirects :
                             /\ d.from = e.from => d = e
                             /\ d.page = e.page => d.to = e.to
      BY <1>2, <1>4 DEF Plans, knowledge
    <2>1. plan[u].expected \in Nat
      BY <1>7 DEF TypeOK
    <2>2. plan[u].expected <= ledger'.revision
      BY <1>3, <1>7, <2>1 DEF IInv, Releases, Plans
    <2>3. ASSUME u \in ledger'.releases
          PROVE  plan[u].expected < ledger'.revision /\ plan[u].runs \subseteq ledger'.applied
      BY <1>3, <1>7, <2>1, <2>3 DEF IInv, Releases, Plans
    <2>4. ASSUME u \in manifest'
          PROVE  u \in ledger'.releases /\ u \in versioned' /\ plan'[u].state = "applied"
      <3>1. CASE u \in manifest
        BY <1>2, <1>4, <1>8, <3>1 DEF IInv, Releases, Plans
      <3>2. CASE n = "manifest" /\ u = v
        <4>1. ledger.current = v /\ v \in versioned /\ plan[v].state = "applied"
          BY <1>1, <3>2 DEF IInv, Releases, Applying
        <4> QED
          BY <1>2, <1>4, <1>8, <1>9, <3>2, <4>1
      <3> QED
        BY <1>4, <2>4, <3>1, <3>2
    <2> QED
      BY <1>2, <2>2, <2>3, <2>4 DEF IInv, Releases, Plans
  <1>13. Counted'
    <2>1. CASE ledger' = ledger
      BY <1>2, <1>7, <2>1 DEF IInv, Releases, Counted, Recovering
    <2>2. CASE /\ v \notin ledger.releases /\ ledger.revision = plan[v].expected
               /\ ledger' = [revision |-> ledger.revision + 1, current |-> v,
                             applied |-> ledger.applied \cup plan[v].runs,
                             releases |-> ledger.releases \cup {v}]
      <3>1. IsFiniteSet(ledger.releases)
        BY <1>7, VaultAssumption, FS_Subset
      <3>2. Cardinality(ledger.releases \cup {v}) = Cardinality(ledger.releases) + 1
        BY <2>2, <3>1, FS_AddElement
      <3>3. /\ ledger'.releases = ledger.releases \cup {v} /\ ledger'.current = v
            /\ ledger'.revision = plan[v].expected + 1
            /\ ledger'.revision = Cardinality(ledger'.releases)
            /\ plan[v].runs \subseteq ledger'.applied
        BY <2>2, <3>2 DEF IInv, Releases, Counted
      <3>4. \A u : u = v => Recovering(u)'
        BY <1>1, <1>2, <3>3 DEF Recovering
      <3>5. Recovering(ledger.current)'
        BY <3>3, <3>4 DEF Recovering
      <3> QED
        BY <1>1, <1>2, <1>7, <3>3, <3>5 DEF Counted
    <2> QED
      BY <1>3, <2>1, <2>2
  <1>14. NavigationNotOld'
    <2>1. n = "state" => navigation = v
      BY <1>1 DEF IInv, Releases, Applying
    <2>2. v \in ledger.releases => v = ledger.current
      BY <1>1 DEF IInv, Releases, Applying
    <2> QED
      BY <1>3, <1>4, <2>1, <2>2 DEF IInv, Releases, NavigationNotOld
  <1>15. Applying'
    <2> SUFFICES ASSUME n # "manifest"
                 PROVE  /\ v \notin manifest' /\ applying'.left \subseteq plan'[v].redirects
                        /\ \/ ledger'.current = v
                           \/ v \notin ledger'.releases /\ ledger'.revision = plan'[v].expected
                        /\ NextWrite[n] \in {"plan", "manifest"} => ledger'.current = v
                        /\ NextWrite[n] \in {"navigation", "state", "plan", "manifest"} =>
                             v \in versioned'
                        /\ NextWrite[n] \in {"state", "plan", "manifest"} => navigation' = v
                        /\ NextWrite[n] = "manifest" => plan'[v].state = "applied"
      BY <1>1, <1>5 DEF Applying
    <2>1. /\ \/ ledger.current = v
             \/ v \notin ledger.releases /\ ledger.revision = plan[v].expected
          /\ n \in {"plan", "manifest"} => ledger.current = v
          /\ n \in {"navigation", "state", "plan", "manifest"} => v \in versioned
          /\ n \in {"state", "plan", "manifest"} => navigation = v
      BY <1>1 DEF IInv, Releases, Applying
    <2>2. /\ n = "state" => ledger'.current = v
          /\ n # "state" => ledger' = ledger
      BY <1>3
    <2>3. /\ v \notin manifest' /\ applying'.left \subseteq plan'[v].redirects
      BY <1>1, <1>4, <1>5
    <2>4. \/ ledger'.current = v
          \/ v \notin ledger'.releases /\ ledger'.revision = plan'[v].expected
      BY <1>1, <1>2, <2>1, <2>2
    <2>5. /\ NextWrite[n] \in {"plan", "manifest"} => n \in {"state", "plan"}
          /\ NextWrite[n] \in {"navigation", "state", "plan", "manifest"} =>
               n \in {"versioned", "navigation", "state", "plan"}
          /\ NextWrite[n] \in {"state", "plan", "manifest"} =>
               n \in {"navigation", "state", "plan"}
          /\ NextWrite[n] = "manifest" => n = "plan"
      BY <1>1, <1>6
    <2> QED
      BY <1>2, <1>4, <2>1, <2>2, <2>3, <2>4, <2>5
  <1>16. OldFilesGone'
    <2>1. ASSUME NEW u \in DOMAIN plan, NEW d \in plan[u].redirects, Placed(u, d)'
          PROVE  Placed(u, d)
      BY <1>1, <1>5, <1>7, <1>8, <2>1, VaultAssumption DEF Placed
    <2> QED
      BY <1>2, <1>4, <2>1 DEF IInv, Moves, OldFilesGone, knowledge
  <1>17. RedirectFiles'
    BY <1>4, RedirectFilesSame DEF IInv, Moves
  <1>18. Leading'
    BY <1>5 DEF Leading
  <1> QED
    BY <1>10, <1>11, <1>12, <1>13, <1>14, <1>15, <1>16, <1>17, <1>18 DEF IInv, Releases, Moves

(***************************************************************************)
(* The invariant.                                                          *)
(***************************************************************************)
LEMMA InitKeeps == Init => IInv
  <1> SUFFICES ASSUME Init PROVE IInv
    OBVIOUS
  <1>1. /\ serialised \in BOOLEAN /\ run = <<>> /\ sidecar = {} /\ registry = <<>>
        /\ file = [q \in Path |-> Nothing] /\ building = NotBuilding
        /\ ledger = [revision |-> 0, current |-> NoRelease, applied |-> {}, releases |-> {}]
        /\ plan = <<>> /\ versioned = {} /\ navigation = NoRelease /\ manifest = {}
        /\ applying = NotApplying /\ crashes = 0
    BY DEF Init
  <1>2. DOMAIN run = {} /\ Active = {} /\ DOMAIN plan = {}
    BY <1>1 DEF Active
  <1>3. /\ \A S : run \in [{} -> S] /\ registry \in [{} -> S] /\ plan \in [{} -> S]
    BY <1>1
  <1>4. /\ ledger.revision = 0 /\ ledger.current = NoRelease /\ ledger.releases = {}
        /\ ledger \in [revision : Nat, current : Release \cup {NoRelease},
                       applied : SUBSET DOMAIN run, releases : SUBSET Release]
    BY <1>1
  <1>5. building.run = NoRun /\ building.left = {}
    BY <1>1 DEF NotBuilding
  <1>6. applying.release = NoRelease /\ applying.left = {} /\ applying.next = "redirects"
    BY <1>1 DEF NotApplying
  <1>7. "redirects" \in DOMAIN NextWrite
    BY DEF NextWrite
  <1>8. file \in [Path -> {Nothing} \cup {Text(r) : r \in DOMAIN run}
                          \cup {Pointer(p, q) : p \in Page, q \in Path}]
    BY <1>1
  <1>9. TypeOK
    BY <1>1, <1>2, <1>3, <1>4, <1>5, <1>6, <1>7, <1>8, VaultAssumption DEF TypeOK
  <1>10. Shapes
    BY <1>1, <1>2, <1>3, <1>5, <1>6, <1>7 DEF Shapes, NotBuilding, NotApplying
  <1>11. Pages
    BY <1>2 DEF Pages, Lineage, NeverBack, Succeeded
  <1>12. Files
    BY <1>1, <1>2, <1>5 DEF Files, CurrentFile, Committing, Retriable
  <1>13. Releases
    BY <1>2, <1>4, <1>6, FS_EmptySet DEF Releases, Plans, Counted, NavigationNotOld, Applying
  <1>14. \A q \in Path : ~IsRedirect(file[q])
    BY <1>1, Kinds
  <1>15. Moves
    BY <1>2, <1>6, <1>14 DEF Moves, OldFilesGone, RedirectFiles, Leading
  <1> QED
    BY <1>9, <1>10, <1>11, <1>12, <1>13, <1>15 DEF IInv, Typed

LEMMA StutterKeeps == IInv /\ UNCHANGED vars => IInv'
  <1> SUFFICES ASSUME IInv, UNCHANGED vars PROVE IInv'
    OBVIOUS
  <1>1. UNCHANGED <<knowledge, file, building, records, applying, crashes>>
    BY DEF vars
  <1>2. Typed'
    BY <1>1 DEF IInv, Typed, TypeOK, Shapes, knowledge, records, Active
  <1> QED
    BY <1>1, <1>2, PagesSame, FilesSame, ReleasesSame, MovesSame DEF IInv, records

LEMMA StepKeeps == IInv /\ [Next]_vars => IInv'
  <1> SUFFICES ASSUME IInv, [Next]_vars PROVE IInv'
    OBVIOUS
  <1>1. ASSUME NEW r \in Run, NEW p \in Page, NEW q \in Path, Reduce(r, p, q) PROVE IInv'
    BY <1>1, ReduceKeeps
  <1>2. ASSUME NEW r \in DOMAIN run, BeginCommit(r) PROVE IInv'
    BY <1>2, BeginCommitKeeps
  <1>3. ASSUME NEW w \in DOMAIN BuildWrites, WriteCommit(w) PROVE IInv'
    BY <1>3, WriteCommitKeeps
  <1>4. ASSUME NEW v \in Release, NEW R \in SUBSET DOMAIN run, Plan(v, R) PROVE IInv'
    BY <1>4, PlanKeeps
  <1>5. ASSUME NEW v \in DOMAIN plan, BeginApply(v) PROVE IInv'
    BY <1>5, BeginApplyKeeps
  <1>6. ASSUME NEW d \in applying.left, WriteRedirect(d) PROVE IInv'
    BY <1>6, WriteRedirectKeeps
  <1>7. CASE WriteRelease
    BY <1>7, WriteReleaseKeeps
  <1>8. CASE BuilderDies
    BY <1>8, BuilderDiesKeeps
  <1>9. CASE ReleaserDies
    BY <1>9, ReleaserDiesKeeps
  <1>10. CASE UNCHANGED vars
    BY <1>10, StutterKeeps
  <1> QED
    BY <1>1, <1>2, <1>3, <1>4, <1>5, <1>6, <1>7, <1>8, <1>9, <1>10 DEF Next

\* The inductive invariant holds of every state.
THEOREM Invariance == Spec => []IInv
  BY InitKeeps, StepKeeps, PTL DEF Spec

(***************************************************************************)
(* What it implies.                                                        *)
(***************************************************************************)
\* Builds and releases, their crashes and retries keep the records' shape.
THEOREM TypeCorrect == Spec => []TypeOK
  <1>1. IInv => TypeOK
    BY DEF IInv, Typed
  <1> QED
    BY <1>1, Invariance, PTL

\* A release is committed once and whole: its manifest proves its plan, its
\* snapshot and its builds, the state counts it once however often its apply
\* was retried, and the navigation never goes back to a replaced one.
THEOREM CommittedAlwaysOnce == Spec => []CommittedOnce
  <1> SUFFICES ASSUME IInv PROVE CommittedOnce
    BY Invariance, PTL
  <1>1. ManifestMeansCommitted
    BY DEF IInv, Typed, TypeOK, Releases, Plans, ManifestMeansCommitted
  <1>2. AppliedOnce
    BY DEF IInv, Releases, Counted, AppliedOnce
  <1> QED
    BY <1>1, <1>2 DEF IInv, Releases, CommittedOnce

\* A redirect leads to a text, so redirects do not run in a circle; and with
\* builds and releases serialised only an old revision's file becomes one.
THEOREM RedirectsAlwaysLeadOn == Spec => []RedirectsLeadOn
  <1> SUFFICES ASSUME IInv PROVE RedirectsLeadOn
    BY Invariance, PTL
  <1>1. RedirectsEnd
    <2> SUFFICES ASSUME NEW S \in (SUBSET Path) \ {{}}
                 PROVE  \E q \in S : IsRedirect(file[q]) =>
                          file[q].to \notin S /\ file[file[q].to] # Nothing
      BY DEF RedirectsEnd, IsRedirect
    <2>1. CASE \E q \in S : ~IsRedirect(file[q])
      BY <2>1
    <2>2. CASE \A q \in S : IsRedirect(file[q])
      <3>1. PICK q \in S : q \in Path
        OBVIOUS
      <3>2. LeadTo(file[q].page, file[q].to)
        BY <2>2, <3>1 DEF IInv, Moves, RedirectFiles
      <3>3. IsText(file[file[q].to])
        BY <3>2 DEF LeadTo
      <3>4. ~IsRedirect(file[file[q].to]) /\ file[file[q].to] # Nothing
        BY <3>3, Kinds DEF IsText, IsRedirect
      <3> QED
        BY <2>2, <3>4
    <2> QED
      BY <2>1, <2>2
  <1>2. RedirectsOnlyBehind
    <2> SUFFICES ASSUME serialised, NEW r \in sidecar, run[r].state = "completed",
                        IsRedirect(file[run[r].path])
                 PROVE  \E x \in sidecar : run[x].parent = r
      BY DEF RedirectsOnlyBehind, IsRedirect
    <2>1. r \in DOMAIN run
      BY DEF IInv, Typed, TypeOK
    <2>2. \/ run[r].page \in Active /\ registry[run[r].page] = r
          \/ \E x \in sidecar : run[x].parent = r
      BY <2>1 DEF IInv, Pages, Succeeded
    <2>3. ASSUME run[r].page \in Active, registry[run[r].page] = r
          PROVE  \E x \in sidecar : run[x].parent = r
      <3>1. Current(run[r].page) = run[r].path
        BY <2>3 DEF Current
      <3>2. file[run[r].path] # Text(r)
        BY Kinds
      <3> QED
        BY <2>3, <3>1, <3>2 DEF IInv, Files, CurrentFile
    <2> QED
      BY <2>2, <2>3
  <1> QED
    BY <1>1, <1>2 DEF RedirectsLeadOn

\* An interrupted release can be completed as long as it is the current one,
\* and an interrupted commit unless it was overtaken or half updated.
THEOREM RetriesAlwaysSucceed == Spec => []RetriesSucceed
  <1> SUFFICES ASSUME IInv PROVE RetriesSucceed
    BY Invariance, PTL
  <1>1. InterruptedResumes
    <2> SUFFICES ASSUME ledger.current \in ledger.releases
                 PROVE  /\ Recovering(ledger.current)
                        /\ serialised => Replaceable(ledger.current)
      BY DEF InterruptedResumes
    <2>1. ledger.current # NoRelease /\ ledger.current \in DOMAIN plan
      BY VaultAssumption DEF IInv, Typed, TypeOK, Releases, Counted
    <2>2. Recovering(ledger.current)
      BY <2>1 DEF IInv, Releases, Counted
    <2>3. \A d \in plan[ledger.current].redirects : Placed(ledger.current, d)
      BY DEF Placed
    <2>4. serialised => Replaceable(ledger.current)
      BY <2>1, <2>3 DEF IInv, Moves, OldFilesGone, Replaceable
    <2> QED
      BY <2>2, <2>4
  <1>2. CommitRetries
    <2> SUFFICES ASSUME NEW r \in sidecar, run[r].state = "draft", ~Overtaken(r),
                        ~HalfUpdated(r)
                 PROVE  Committable(r)
      BY DEF CommitRetries
    <2> DEFINE p == run[r].page
               q == run[r].path
    <2>1. ~Passed(r) /\ ~IsRedirect(file[q]) /\ (p \in Active => ~IsRedirect(file[Current(p)]))
      BY DEF Overtaken, Passed, IsRedirect
    <2>2. Unpassed(r)
      BY <2>1 DEF IInv, Files, Retriable
    <2>3. p \in Active => registry[p] \in {run[r].parent, r}
      BY <2>2 DEF Unpassed
    <2>4. r \in DOMAIN run
      BY DEF IInv, Typed, TypeOK
    <2>5. ASSUME p \in Active, registry[p] # r
          PROVE  file[Current(p)] = Text(run[r].parent)
      <3>1. registry[p] = run[r].parent
        BY <2>3, <2>5
      <3>2. ASSUME NEW x \in sidecar, run[x].page = p, run[x].parent = registry[p],
                   file[Current(p)] = Text(x)
            PROVE  FALSE
        <4>1. x = r
          BY <2>1, <3>1, <3>2 DEF Passed
        <4> QED
          BY <2>5, <3>1, <3>2, <4>1 DEF HalfUpdated
      <3> QED
        BY <2>1, <2>5, <3>1, <3>2 DEF IInv, Files, CurrentFile
    <2>6. ParentKept(r)
      BY <2>3, <2>5 DEF ParentKept
    <2>7. TargetFree(r)
      <3>1. CASE /\ run[r].parent # NoRun /\ file[q] = Text(run[r].parent)
                 /\ run[run[r].parent].path = q
        <4>1. p \in Active
          BY <2>4, <3>1 DEF IInv, Pages, Lineage
        <4>2. Current(p) = q
          BY <2>3, <3>1, <4>1 DEF Current
        <4> QED
          BY <3>1, <4>1, <4>2 DEF TargetFree
      <3> QED
        BY <2>1, <2>2, <3>1 DEF Unpassed, TargetFree
    <2>8. ASSUME NEW x \in Active, x # p PROVE Current(x) # q
      <3>1. registry[x] \in sidecar /\ run[registry[x]].page = x
        BY DEF IInv, Pages, Lineage
      <3> QED
        BY <2>1, <2>8, <3>1 DEF Passed, Current
    <2> QED
      BY <2>6, <2>7, <2>8 DEF Committable
  <1> QED
    BY <1>1, <1>2 DEF RetriesSucceed

\* The file a step replaces was its own page's, and something replaces it.
LEMMA OwnReplaced ==
  ASSUME IInv, [Next]_vars, NEW q \in Path, file[q] # Nothing, file[q] # file'[q]
  PROVE  file'[q] # Nothing /\ Owner(file[q]) = Owner(file[q])'
  <1>1. ASSUME NEW w \in DOMAIN BuildWrites, WriteCommit(w)
        PROVE  file'[q] # Nothing /\ Owner(file[q]) = Owner(file[q])'
    <2>1. /\ w = "page" /\ run' = run
          /\ file' = [file EXCEPT ![run[building.run].path] = Text(building.run)]
      BY <1>1 DEF WriteCommit
    <2>2. /\ building.run \in DOMAIN run /\ building.run # NoRun /\ "page" \in building.left
          /\ run[building.run].path \in Path
      BY <1>1, <2>1, Writing
    <2>3. q = run[building.run].path /\ file'[q] = Text(building.run)
      BY <2>1, <2>2 DEF IInv, Typed, TypeOK
    <2>4. ToBeWritten(building.run)
      BY <2>2 DEF IInv, Files, Committing
    <2>5. Owner(file[q]) = run[building.run].page
      BY <2>3, <2>4 DEF ToBeWritten
    <2>6. Owner(file[q])' = run[building.run].page
      BY <2>1, <2>3 DEF Owner, Text
    <2> QED
      BY <2>3, <2>5, <2>6, Kinds
  <1>2. ASSUME NEW d \in applying.left, WriteRedirect(d)
        PROVE  file'[q] # Nothing /\ Owner(file[q]) = Owner(file[q])'
    <2>1. /\ Owner(file[d.from]) = d.page /\ file'[d.from] = Pointer(d.page, d.to)
          /\ \A x \in Path : x # d.from => file'[x] = file[x]
      BY <1>2, Redirecting
    <2>2. q = d.from /\ file'[q] = Pointer(d.page, d.to)
      BY <2>1
    <2>3. Owner(file[q])' = d.page
      BY <2>2 DEF Owner, Pointer
    <2> QED
      BY <2>1, <2>2, <2>3, Kinds
  <1>3. \/ \E w \in DOMAIN BuildWrites : WriteCommit(w)
        \/ \E d \in applying.left : WriteRedirect(d)
    BY DEF Next, vars, Reduce, BeginCommit, Plan, BeginApply, WriteRelease, BuilderDies,
           ReleaserDies
  <1> QED
    BY <1>1, <1>2, <1>3

\* Whatever builds and releases write beside each other, no step replaces
\* another page's file.
THEOREM OnlyOwnEverReplaced == Spec => OnlyOwnReplaced
  <1>1. IInv /\ [Next]_vars =>
          [\A q \in Path : file[q] \notin {Nothing, file'[q]} =>
             file'[q] # Nothing /\ Owner(file[q]) = Owner(file[q])']_vars
    BY OwnReplaced
  <1> QED
    BY <1>1, Invariance, PTL DEF Spec, OnlyOwnReplaced
=============================================================================
