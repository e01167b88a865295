--------------------------- MODULE UnitSetsProofs ---------------------------
(***************************************************************************)
(* The properties of UnitSets, for every number of processes, artifacts    *)
(* and revisions.                                                          *)
(***************************************************************************)
EXTENDS UnitSets, TLAPS

\* Between taking the lock and pointing, its holder and nobody else.
LockMeansWork ==
  \A p \in Process : at[p] \in {"writing", "pointing"} <=> lock = p

\* What a build has generated is for its expected revision: the next one, or
\* the same one for the set that had it.
Fits(p) ==
  /\ work[p] \in Build
  /\ work[p].set[1] \in artifacts
  /\ work[p].expected <= current.revision
  /\ \/ work[p].revision = work[p].expected + 1
     \/ /\ work[p].revision = work[p].expected
        /\ [set |-> work[p].set, revision |-> work[p].revision] \in selected

WorkFits ==
  \A p \in Process :
    /\ at[p] = "staged" => work[p] \in Preparation
    /\ at[p] \in {"generated", "writing", "pointing"} => Fits(p)

\* Under the lock nothing moves that the build has checked.
CheckedHolds ==
  \A p \in Process :
    /\ at[p] \in {"writing", "pointing"} => Expected(p)
    /\ at[p] = "writing" => ~InPlace(p)
    /\ at[p] = "pointing" => SameManifest(p)

\* Every revision up to the current one has been selected, no later one.
RevisionsDense ==
  /\ \A c \in selected : c.revision <= current.revision
  /\ \A r \in 1 .. current.revision : \E c \in selected : c.revision = r
  /\ current \in selected \/ current = Unpublished

\* A directory is at most one revision ahead of the pointer.
SetsNotAhead == \A u \in UnitSet : sets[u] <= current.revision + 1

IInv == /\ UnitTypeOK /\ LockMeansWork /\ WorkFits /\ CheckedHolds
        /\ RevisionsDense /\ SetsNotAhead /\ PointersResolve /\ RevisionNamesSet
-----------------------------------------------------------------------------
LEMMA InitHolds == Init => IInv
BY RepositoryAssumption
DEF Init, IInv, UnitTypeOK, LockMeansWork, WorkFits, CheckedHolds, RevisionsDense,
    SetsNotAhead, PointersResolve, RevisionNamesSet, Unpublished, Nothing, Nobody,
    Absent, UnitSet, Fits

\* The conjuncts, of which each step below establishes the ones it disturbs.
Untouched == UNCHANGED <<artifacts, sets, current, selected>>

\* A call that returns, dies or stages leaves the repository alone.
LEMMA ReturnKeeps ==
  ASSUME IInv, NEW p \in Process, Return(p), Untouched,
         lock' = IF lock = p THEN Nobody ELSE lock, deaths' \in 0 .. MaxDeath
  PROVE  IInv'
<1> USE RepositoryAssumption DEF IInv, Return, Goto, Untouched
<1>1. UnitTypeOK'
  BY DEF UnitTypeOK, Nobody
<1>2. LockMeansWork'
  BY DEF LockMeansWork, UnitTypeOK, Nobody
<1>3. WorkFits' /\ CheckedHolds'
  BY DEF WorkFits, CheckedHolds, Fits, UnitTypeOK, Expected, InPlace, SameManifest
<1>4. RevisionsDense' /\ SetsNotAhead' /\ PointersResolve' /\ RevisionNamesSet'
  BY DEF RevisionsDense, SetsNotAhead, PointersResolve, RevisionNamesSet
<1> QED BY <1>1, <1>2, <1>3, <1>4

LEMMA StageKeeps ==
  ASSUME IInv, NEW p \in Process, NEW a \in Artifact, Stage(p, a)
  PROVE  IInv'
<1> USE DEF IInv, Stage, Goto
<1>1. UnitTypeOK'
  BY DEF UnitTypeOK, Preparation
<1>2. LockMeansWork'
  BY DEF LockMeansWork, UnitTypeOK
<1>3. WorkFits' /\ CheckedHolds'
  BY DEF WorkFits, CheckedHolds, Fits, UnitTypeOK, Expected, InPlace, SameManifest,
         Preparation
<1>4. RevisionsDense' /\ SetsNotAhead' /\ PointersResolve' /\ RevisionNamesSet'
  BY DEF RevisionsDense, SetsNotAhead, PointersResolve, RevisionNamesSet
<1> QED BY <1>1, <1>2, <1>3, <1>4

LEMMA PublishArtifactKeeps ==
  ASSUME IInv, NEW p \in Process, PublishArtifact(p)
  PROVE  IInv'
<1> USE DEF IInv, PublishArtifact, Return, Goto
<1>0. work[p].artifact \in Artifact
  BY DEF WorkFits, Preparation
<1>1. UnitTypeOK'
  BY <1>0 DEF UnitTypeOK
<1>2. LockMeansWork'
  BY DEF LockMeansWork, UnitTypeOK
<1>3. WorkFits' /\ CheckedHolds'
  BY DEF WorkFits, CheckedHolds, Fits, UnitTypeOK, Expected, InPlace, SameManifest
<1>4. RevisionsDense' /\ SetsNotAhead' /\ PointersResolve' /\ RevisionNamesSet'
  BY DEF RevisionsDense, SetsNotAhead, PointersResolve, RevisionNamesSet
<1> QED BY <1>1, <1>2, <1>3, <1>4

LEMMA GenerateKeeps ==
  ASSUME IInv, NEW p \in Process, NEW u \in UnitSet, Generate(p, u)
  PROVE  IInv'
<1>1. PICK revision \in 1 .. MaxRevision :
        /\ revision = IF current.set = u THEN current.revision ELSE current.revision + 1
        /\ Goto(p, "generated")
        /\ work' = [work EXCEPT ![p] = [kind |-> "set", set |-> u,
                                        expected |-> current.revision,
                                        revision |-> revision]]
  BY DEF Generate
<1> USE RepositoryAssumption DEF IInv, Goto
<1>2. /\ UNCHANGED <<artifacts, sets, current, lock, deaths, selected>>
      /\ u[1] \in artifacts /\ at[p] = "idle"
  BY DEF Generate
<1>3. current.revision \in 0 .. MaxRevision
  BY DEF UnitTypeOK, Pointer, Unpublished
<1>4. UnitTypeOK'
  BY <1>1, <1>2, <1>3 DEF UnitTypeOK, Build
<1>5. LockMeansWork'
  BY <1>1, <1>2 DEF LockMeansWork, UnitTypeOK
<1>6. Fits(p)'
  <2>1. work'[p] = [kind |-> "set", set |-> u, expected |-> current.revision,
                    revision |-> revision]
    BY <1>1 DEF UnitTypeOK
  <2>2. CASE current.set # u
    BY <1>1, <1>2, <1>3, <2>1, <2>2 DEF Fits, Build
  <2>3. CASE current.set = u
    <3>1. current \in Pointer /\ current \in selected
      BY <1>1, <2>3 DEF UnitTypeOK, RevisionsDense, Unpublished
    <3>2. current = [set |-> u, revision |-> revision]
      BY <1>1, <2>3, <3>1 DEF Pointer
    <3> QED BY <1>1, <1>2, <1>3, <2>1, <2>3, <3>1, <3>2 DEF Fits, Build
  <2> QED BY <2>2, <2>3
<1>7. WorkFits' /\ CheckedHolds'
  BY <1>1, <1>2, <1>6
  DEF WorkFits, CheckedHolds, Fits, UnitTypeOK, Expected, InPlace, SameManifest
<1>8. RevisionsDense' /\ SetsNotAhead' /\ PointersResolve' /\ RevisionNamesSet'
  BY <1>2 DEF RevisionsDense, SetsNotAhead, PointersResolve, RevisionNamesSet
<1> QED BY <1>4, <1>5, <1>7, <1>8

LEMMA AdoptKeeps ==
  ASSUME IInv, NEW p \in Process, Adopt(p)
  PROVE  IInv'
<1> USE RepositoryAssumption DEF IInv, Adopt, Goto
<1>1. UnitTypeOK'
  BY DEF UnitTypeOK
<1>2. LockMeansWork'
  BY DEF LockMeansWork, UnitTypeOK, Nobody
<1>3. WorkFits' /\ CheckedHolds'
  BY DEF WorkFits, CheckedHolds, Fits, UnitTypeOK, Expected, InPlace, SameManifest
<1>4. RevisionsDense' /\ SetsNotAhead' /\ PointersResolve' /\ RevisionNamesSet'
  BY DEF RevisionsDense, SetsNotAhead, PointersResolve, RevisionNamesSet
<1> QED BY <1>1, <1>2, <1>3, <1>4

LEMMA WriteKeeps ==
  ASSUME IInv, NEW p \in Process, Write(p)
  PROVE  IInv'
<1> USE RepositoryAssumption DEF IInv, Write, Goto
<1>1. UnitTypeOK'
  BY DEF UnitTypeOK
<1>2. LockMeansWork'
  BY DEF LockMeansWork, UnitTypeOK, Nobody
<1>3. WorkFits' /\ CheckedHolds'
  BY DEF WorkFits, CheckedHolds, Fits, UnitTypeOK, Expected, InPlace, SameManifest
<1>4. RevisionsDense' /\ SetsNotAhead' /\ PointersResolve' /\ RevisionNamesSet'
  BY DEF RevisionsDense, SetsNotAhead, PointersResolve, RevisionNamesSet
<1> QED BY <1>1, <1>2, <1>3, <1>4

\* The directory was not there, so that no pointer has named it.
LEMMA PutInPlaceKeeps ==
  ASSUME IInv, NEW p \in Process, PutInPlace(p)
  PROVE  IInv'
<1> USE DEF IInv, PutInPlace, Goto
<1>1. Fits(p) /\ Expected(p) /\ ~InPlace(p) /\ lock = p
  BY DEF WorkFits, CheckedHolds, LockMeansWork
<1>2. /\ work[p].set \in UnitSet /\ work[p].revision \in 1 .. MaxRevision
      /\ work[p].revision <= current.revision + 1
      /\ current.revision \in 0 .. MaxRevision
  BY <1>1, RepositoryAssumption DEF Fits, Build, Expected, UnitTypeOK, Pointer, Unpublished
<1>3. UnitTypeOK'
  BY <1>2, RepositoryAssumption DEF UnitTypeOK
<1>4. LockMeansWork'
  BY DEF LockMeansWork, UnitTypeOK
<1>5. WorkFits'
  BY DEF WorkFits, Fits, UnitTypeOK
<1>6. \A q \in Process \ {p} : at[q] \notin {"writing", "pointing"}
  BY <1>1 DEF LockMeansWork
<1>7. CheckedHolds'
  BY <1>1, <1>2, <1>6 DEF CheckedHolds, UnitTypeOK, Expected, InPlace, SameManifest
<1>8. PointersResolve'
  BY <1>1, <1>2, RepositoryAssumption DEF PointersResolve, InPlace, UnitTypeOK, Pointer, Absent
<1>9. RevisionsDense' /\ RevisionNamesSet'
  BY DEF RevisionsDense, RevisionNamesSet
<1>10. SetsNotAhead'
  BY <1>2 DEF SetsNotAhead, UnitTypeOK
<1> QED BY <1>3, <1>4, <1>5, <1>7, <1>8, <1>9, <1>10

\* A pointer that is written again says the same; a new one has the next
\* revision, and its set has not been selected before.
LEMMA SelectFacts ==
  ASSUME IInv, NEW p \in Process, Select(p)
  PROVE  /\ current' \in Pointer /\ sets[current'.set] = current'.revision
         /\ current'.set[1] \in artifacts
         /\ \/ current' = current /\ current \in selected
            \/ /\ current'.revision = current.revision + 1
               /\ \A c \in selected : c.set # current'.set
<1> USE RepositoryAssumption DEF IInv
<1>1. Fits(p) /\ Expected(p) /\ SameManifest(p)
  BY DEF Select, WorkFits, CheckedHolds
<1>2. /\ current' = [set |-> work[p].set, revision |-> work[p].revision]
      /\ current' \in Pointer
      /\ sets[current'.set] = current'.revision /\ current'.set[1] \in artifacts
  BY <1>1 DEF Select, Fits, Build, Pointer, SameManifest
<1>3. CASE current'.revision = current.revision + 1
  <2>1. current.revision \in Nat
    BY DEF UnitTypeOK, Pointer, Unpublished
  <2>2. \A c \in selected : sets[c.set] <= current.revision
    BY DEF PointersResolve, RevisionsDense
  <2> QED BY <1>2, <1>3, <2>1, <2>2
<1>4. CASE current'.revision = current.revision /\ current' \in selected
  <2>1. current \in selected
    BY <1>2, <1>4 DEF RevisionsDense, Unpublished, Pointer
  <2> QED BY <1>2, <1>4, <2>1 DEF RevisionNamesSet
<1> QED BY <1>1, <1>2, <1>3, <1>4 DEF Fits, Expected

LEMMA SelectKeeps ==
  ASSUME IInv, NEW p \in Process, Select(p)
  PROVE  IInv'
<1> USE RepositoryAssumption DEF IInv
<1>1. /\ lock' = Nobody /\ Return(p) /\ UNCHANGED <<artifacts, sets, deaths>>
      /\ selected' = selected \cup {current'} /\ at[p] = "pointing"
  BY DEF Select
<1>2. /\ current' \in Pointer /\ sets[current'.set] = current'.revision
      /\ current'.set[1] \in artifacts
  BY SelectFacts
<1>3. current.revision \in Nat /\ current'.revision \in Nat
  BY <1>2 DEF UnitTypeOK, Pointer, Unpublished
<1>4. \/ current' = current /\ current \in selected
      \/ /\ current'.revision = current.revision + 1
         /\ \A c \in selected : c.set # current'.set
  BY SelectFacts
<1>5. UnitTypeOK'
  BY <1>1, <1>2 DEF UnitTypeOK, Return, Goto
<1>6. LockMeansWork'
  BY <1>1 DEF LockMeansWork, Return, Goto, UnitTypeOK, Nobody
<1>7. \A q \in Process \ {p} : at[q] \notin {"writing", "pointing"}
  BY <1>1 DEF LockMeansWork
<1>8. WorkFits'
  <2>1. ASSUME NEW q \in Process, Fits(q), UNCHANGED work[q]
        PROVE  Fits(q)'
    BY <1>1, <1>3, <1>4, <2>1 DEF Fits, Build
  <2>2. \A q \in Process \ {p} : UNCHANGED <<at[q], work[q]>>
    BY <1>1 DEF Return, Goto, UnitTypeOK
  <2>3. at'[p] = "idle"
    BY <1>1 DEF Return, Goto, UnitTypeOK
  <2> QED BY <2>1, <2>2, <2>3 DEF WorkFits
<1>9. CheckedHolds'
  BY <1>1, <1>7 DEF CheckedHolds, Return, Goto, UnitTypeOK
<1>10. RevisionsDense'
  <2>1. \A c \in selected' : c.revision <= current'.revision
    BY <1>1, <1>3, <1>4 DEF RevisionsDense, UnitTypeOK, Pointer
  <2>2. ASSUME NEW r \in 1 .. current'.revision
        PROVE  \E c \in selected' : c.revision = r
    <3>1. CASE r = current'.revision
      BY <1>1, <3>1
    <3>2. CASE r # current'.revision
      BY <1>1, <1>3, <1>4, <3>2 DEF RevisionsDense
    <3> QED BY <3>1, <3>2
  <2> QED BY <1>1, <2>1, <2>2 DEF RevisionsDense
<1>11. SetsNotAhead'
  BY <1>1, <1>3, <1>4 DEF SetsNotAhead, UnitTypeOK
<1>12. PointersResolve'
  BY <1>1, <1>2 DEF PointersResolve
<1>13. RevisionNamesSet'
  <2>1. \A c \in selected : c.revision <= current.revision /\ c.revision \in Nat
    BY DEF RevisionsDense, UnitTypeOK, Pointer
  <2> QED BY <1>1, <1>3, <1>4, <2>1 DEF RevisionNamesSet
<1> QED BY <1>5, <1>6, <1>8, <1>9, <1>10, <1>11, <1>12, <1>13

LEMMA StepKeeps == IInv /\ [Next]_vars => IInv'
<1> SUFFICES ASSUME IInv, [Next]_vars PROVE IInv'
  OBVIOUS
<1>1. ASSUME NEW p \in Process, Busy(p) \/ Conflict(p)
      PROVE  IInv'
  <2>1. lock # p
    BY <1>1, RepositoryAssumption DEF Busy, Conflict, IInv, LockMeansWork, Nobody
  <2> QED BY <1>1, <2>1, ReturnKeeps
          DEF Busy, Conflict, Untouched, IInv, UnitTypeOK
<1>2. ASSUME NEW p \in Process, Die(p)
      PROVE  IInv'
  <2>1. deaths' \in 0 .. MaxDeath
    BY <1>2, RepositoryAssumption DEF Die, IInv, UnitTypeOK
  <2> QED BY <1>2, <2>1, ReturnKeeps DEF Die, Untouched
<1>3. CASE UNCHANGED vars
  BY <1>3 DEF vars, IInv, UnitTypeOK, LockMeansWork, WorkFits, CheckedHolds, Fits,
              RevisionsDense, SetsNotAhead, PointersResolve, RevisionNamesSet,
              Expected, InPlace, SameManifest
<1> QED BY <1>1, <1>2, <1>3, StageKeeps, PublishArtifactKeeps, GenerateKeeps, AdoptKeeps,
           WriteKeeps, PutInPlaceKeeps, SelectKeeps DEF Next

LEMMA Invariance == Spec => []IInv
BY InitHolds, StepKeeps, PTL DEF Spec
-----------------------------------------------------------------------------
\* Type correctness, at every moment.
THEOREM TypesHold == Spec => []UnitTypeOK
BY Invariance, PTL DEF IInv

\* What current.json has ever said resolves at every later moment: no reader
\* finds the pointer and the directory disagreeing (_load_set).
THEOREM PointersHold == Spec => []PointersResolve
BY Invariance, PTL DEF IInv

\* Builds that race for a revision: one gets it (build).
THEOREM RevisionsHold == Spec => []RevisionNamesSet
BY Invariance, PTL DEF IInv

\* A build is refused for the revision in its directory only when somebody
\* has published that revision (build, after a crash).
THEOREM OrphansHold == Spec => []OrphansComplete
<1>1. IInv => OrphansComplete
  <2> SUFFICES ASSUME IInv, NEW p \in Process, at[p] = "generated", Expected(p),
                      InPlace(p), ~SameManifest(p)
               PROVE  \E c \in selected : c.revision = sets[work[p].set]
    BY DEF OrphansComplete
  <2>1. Fits(p)
    BY DEF IInv, WorkFits
  <2>2. current.revision \in Nat /\ sets[work[p].set] \in Nat \ {0}
    BY <2>1 DEF IInv, UnitTypeOK, Pointer, Unpublished, Fits, Build, InPlace, Absent
  <2>3. sets[work[p].set] <= current.revision + 1
    BY <2>1 DEF IInv, SetsNotAhead, Fits, Build
  <2>4. work[p].revision = current.revision + 1
    BY <2>1 DEF Fits, Expected, SameManifest, IInv, PointersResolve
  <2>5. sets[work[p].set] \in 1 .. current.revision
    BY <2>2, <2>3, <2>4 DEF SameManifest
  <2> QED BY <2>5 DEF IInv, RevisionsDense
<1> QED BY <1>1, Invariance, PTL

\* No superseded set becomes current again, no revision is skipped (build).
THEOREM SupersededStays == Spec => NeverCurrentAgain
<1>1. IInv /\ [Next]_vars =>
        [current' # current => /\ current'.revision = current.revision + 1
                               /\ \A c \in selected : c.set # current'.set]_vars
  <2> SUFFICES ASSUME IInv, Next, current' # current
               PROVE  /\ current'.revision = current.revision + 1
                      /\ \A c \in selected : c.set # current'.set
    OBVIOUS
  <2>1. \E p \in Process : Select(p)
    BY DEF Next, Stage, Generate, PublishArtifact, Busy, Conflict, Adopt, Write,
           PutInPlace, Die
  <2> QED BY <2>1, SelectFacts
<1> QED BY <1>1, Invariance, PTL DEF Spec, NeverCurrentAgain
=============================================================================
