------------------------------ MODULE UnitSets ------------------------------
(***************************************************************************)
(* The SourceUnit repository of one resource, source_units.py: normalised  *)
(* artifacts, the unit sets cut from them, and current.json, which selects *)
(* one.  Names are fingerprints: an artifact's of its content, a unit      *)
(* set's of its artifact and the chunking configuration.  What is written  *)
(* is never written again, so that the references of tasks and pages, which*)
(* name a set, stay good when another one becomes current.                 *)
(*                                                                         *)
(* An artifact is prepared without a lock.  A build computes its set, the  *)
(* manifest with the revision it will have included, before it takes the   *)
(* publish lock, and publishes in two steps: the directory is renamed into *)
(* place, then current.json is replaced.  A process may be killed anywhere;*)
(* the kernel frees its lock, its temporary directories are left behind.   *)
(***************************************************************************)
EXTENDS Integers

CONSTANTS Process,      \* calls of the repository, at work at the same time
          Artifact,     \* artifact revisions
          Config,       \* engine versions and chunking configurations
          MaxRevision,  \* bound: revisions of current.json
          MaxDeath      \* bound: processes killed

ASSUME RepositoryAssumption == /\ MaxRevision \in Nat /\ MaxDeath \in Nat
                               /\ "nobody" \notin Process

VARIABLES artifacts,  \* artifact directories in place
          sets,       \* manifest.json of each unit set's directory: its revision,
                      \* or Absent
          current,    \* current.json, or Unpublished
          at,         \* where each process is
          work,       \* the artifact it prepares, or the set it builds
          lock,       \* who holds .publish.lock
          deaths,
          selected    \* history: what current.json has said
vars == <<artifacts, sets, current, at, work, lock, deaths, selected>>

UnitSet == Artifact \X Config
Absent == 0
Nobody == "nobody"
Nothing == [kind |-> "nothing"]

Pointer == [set : UnitSet, revision : 1 .. MaxRevision]
Unpublished == [set |-> << >>, revision |-> 0]

Preparation == [kind : {"artifact"}, artifact : Artifact]
\* A generated manifest, with the revision its request expected.
Build == [kind : {"set"}, set : UnitSet, expected : 0 .. MaxRevision,
          revision : 1 .. MaxRevision]

Init == /\ artifacts = {} /\ sets = [u \in UnitSet |-> Absent]
        /\ current = Unpublished /\ selected = {}
        /\ at = [p \in Process |-> "idle"] /\ work = [p \in Process |-> Nothing]
        /\ lock = Nobody /\ deaths = 0

Goto(p, place) == at' = [at EXCEPT ![p] = place]

\* A call ends, in success or with an error; its process may make another.
Return(p) == Goto(p, "idle") /\ work' = [work EXCEPT ![p] = Nothing]
-----------------------------------------------------------------------------
(* Preparing an artifact.  One that is in place is verified and returned.  *)

Stage(p, a) ==
  /\ at[p] = "idle" /\ a \notin artifacts
  /\ Goto(p, "staged")
  /\ work' = [work EXCEPT ![p] = [kind |-> "artifact", artifact |-> a]]
  /\ UNCHANGED <<artifacts, sets, current, lock, deaths, selected>>

\* The rename fails on a directory that somebody else has put there, and
\* what was staged is removed.
PublishArtifact(p) ==
  /\ at[p] = "staged"
  /\ artifacts' = artifacts \cup {work[p].artifact}
  /\ Return(p)
  /\ UNCHANGED <<sets, current, lock, deaths, selected>>
-----------------------------------------------------------------------------
(* Building a unit set.                                                    *)

\* A request with another expected revision is refused here.  The set that is
\* current keeps its revision, any other gets the next one.
Generate(p, u) ==
  /\ at[p] = "idle" /\ u[1] \in artifacts
  /\ \E revision \in 1 .. MaxRevision :
       /\ revision = IF current.set = u THEN current.revision ELSE current.revision + 1
       /\ Goto(p, "generated")
       /\ work' = [work EXCEPT ![p] = [kind |-> "set", set |-> u,
                                       expected |-> current.revision,
                                       revision |-> revision]]
  /\ UNCHANGED <<artifacts, sets, current, lock, deaths, selected>>

\* LOCK_BUSY: the lock is tried once.
Busy(p) ==
  /\ at[p] = "generated" /\ lock # Nobody
  /\ Return(p)
  /\ UNCHANGED <<artifacts, sets, current, lock, deaths, selected>>

\* The revision is checked again under the lock.
Expected(p) == work[p].expected = current.revision
InPlace(p) == sets[work[p].set] # Absent

\* Mutants: a directory with the set's name is taken for the set; its revision
\* is compared with the expected one.
AnyManifest(p) == InPlace(p)
ExpectedManifest(p) == sets[work[p].set] = work[p].expected

SameManifest(p) == sets[work[p].set] = work[p].revision

\* REVISION_CONFLICT, under the lock: current.json has moved on, or the set's
\* directory has a manifest with another revision.
Conflict(p) ==
  /\ at[p] = "generated" /\ lock = Nobody
  /\ ~Expected(p) \/ (InPlace(p) /\ ~SameManifest(p))
  /\ Return(p)
  /\ UNCHANGED <<artifacts, sets, current, lock, deaths, selected>>

\* The directory is there, with this manifest: the set is current, or
\* somebody died before pointing at it.  It is validated and kept.
Adopt(p) ==
  /\ at[p] = "generated" /\ lock = Nobody
  /\ Expected(p) /\ InPlace(p) /\ SameManifest(p)
  /\ lock' = p
  /\ Goto(p, "pointing")
  /\ UNCHANGED <<artifacts, sets, current, work, deaths, selected>>

\* Mutant: the directory is written whether it is there or not.
OverWrite(p) ==
  /\ at[p] = "generated" /\ lock = Nobody
  /\ Expected(p)
  /\ lock' = p
  /\ Goto(p, "writing")
  /\ UNCHANGED <<artifacts, sets, current, work, deaths, selected>>

Write(p) ==
  /\ at[p] = "generated" /\ lock = Nobody
  /\ Expected(p) /\ ~InPlace(p)
  /\ lock' = p
  /\ Goto(p, "writing")
  /\ UNCHANGED <<artifacts, sets, current, work, deaths, selected>>

PutInPlace(p) ==
  /\ at[p] = "writing"
  /\ sets' = [sets EXCEPT ![work[p].set] = work[p].revision]
  /\ Goto(p, "pointing")
  /\ UNCHANGED <<artifacts, current, work, lock, deaths, selected>>

Select(p) ==
  /\ at[p] = "pointing"
  /\ current' = [set |-> work[p].set, revision |-> work[p].revision]
  /\ selected' = selected \cup {current'}
  /\ lock' = Nobody
  /\ Return(p)
  /\ UNCHANGED <<artifacts, sets, deaths>>

Die(p) ==
  /\ at[p] # "idle" /\ deaths < MaxDeath
  /\ deaths' = deaths + 1
  /\ lock' = IF lock = p THEN Nobody ELSE lock
  /\ Return(p)
  /\ UNCHANGED <<artifacts, sets, current, selected>>

Next ==
  \E p \in Process :
    \/ \E a \in Artifact : Stage(p, a)
    \/ \E u \in UnitSet : Generate(p, u)
    \/ PublishArtifact(p) \/ Busy(p) \/ Conflict(p) \/ Adopt(p) \/ Write(p)
    \/ PutInPlace(p) \/ Select(p) \/ Die(p)

Spec == Init /\ [][Next]_vars
-----------------------------------------------------------------------------
(* Properties.                                                             *)

\* Type correctness.
UnitTypeOK ==
  /\ artifacts \subseteq Artifact
  /\ sets \in [UnitSet -> 0 .. MaxRevision]
  /\ current \in Pointer \cup {Unpublished}
  /\ at \in [Process -> {"idle", "staged", "generated", "writing", "pointing"}]
  /\ work \in [Process -> {Nothing} \cup Preparation \cup Build]
  /\ lock \in Process \cup {Nobody}
  /\ deaths \in 0 .. MaxDeath
  /\ selected \subseteq Pointer

\* Whatever current.json has ever said, now or before the last builds and
\* crashes, still resolves: the directory of the set is in place with that
\* revision in its manifest, and so is its artifact.  A reader that has read
\* the pointer and opens the directory later never finds them disagreeing
\* (_load_set, SOURCE_CHANGED), and the references pinned in tasks and pages
\* stay good.
PointersResolve ==
  \A c \in selected : sets[c.set] = c.revision /\ c.set[1] \in artifacts

\* A revision of current.json names one unit set: of two builds that expect
\* the same revision, one is refused, whatever the order of their steps.
RevisionNamesSet ==
  \A c, d \in selected : c.revision = d.revision => c = d

\* What has been superseded does not become current again, and revisions are
\* not skipped (source-units.md: an historical unit set cannot silently
\* become current again).
NeverCurrentAgain ==
  [][current' # current => /\ current'.revision = current.revision + 1
                           /\ \A c \in selected : c.set # current'.set]_vars

\* A build that finds its directory in place with another revision, and is
\* refused for it, is one whose revision somebody has published: a crash
\* between the two steps of a publication costs nothing as long as the same
\* build comes next.  (After another build has taken the revision, the set
\* that was never current can no longer be published: README, section 6.)
OrphansComplete ==
  \A p \in Process :
    at[p] = "generated" /\ Expected(p) /\ InPlace(p) /\ ~SameManifest(p) =>
      \E c \in selected : c.revision = sets[work[p].set]
=============================================================================
