--------------------------- MODULE ConverterSlots ---------------------------
(***************************************************************************)
(* Admission and supervision of local PDF converters, supervise_mineru.py. *)
(* Every conversion is one run of the supervisor.  It waits until, under   *)
(* the admission lock, it finds a slot of the host free, writes the slot's *)
(* record, and starts the converter; at its end it removes what is left of *)
(* the converter's process tree, then the record, then lets the slot go.   *)
(* A slot is guarded twice: by a record that names its supervisor, for the *)
(* ones that come later to clean up after a dead one, and by a file lock   *)
(* whose descriptor the converter inherits, so that it is held as long as  *)
(* the supervisor or the converter itself lives.                           *)
(*                                                                         *)
(* A converter is found by a mark in its environment, which it has only    *)
(* from its exec on; processes it has detached carry the mark but not the  *)
(* lock.  Process numbers are compared with start times, so that a run is  *)
(* identified; memory and GPU admission is a choice.                       *)
(***************************************************************************)
EXTENDS Integers, FiniteSets

CONSTANTS Run,            \* runs of the supervisor, a conversion each
          MaxConcurrent,  \* slots (max_concurrent)
          MaxFault        \* bound: supervisors killed, reboots of the host, and
                          \* clean-ups that leave processes behind

ASSUME SlotAssumption == /\ IsFiniteSet(Run) /\ "nobody" \notin Run
                         /\ MaxConcurrent \in Nat \ {0}
                         /\ MaxFault \in Nat

VARIABLES at,         \* where each supervisor is
          slot,       \* the slot it has taken
          admission,  \* who holds admission.lock
          busy,       \* slots its holder has found occupied
          record,     \* slot-N.json: who wrote it, when; Torn; or NoRecord
          converter,  \* its converter: none, forked (no mark yet), running
          detached,   \* processes its converter has detached are running
          boot, kills, stuck,
          escaped     \* history: runs killed between fork and exec of the converter
supervisors == <<at, slot>>
admissions == <<admission, busy>>
trees == <<converter, detached>>
faults == <<boot, kills, stuck, escaped>>
vars == <<supervisors, admissions, record, trees, faults>>

Slot == 0 .. MaxConcurrent - 1
NoSlot == -1
Nobody == "nobody"
NoRecord == <<Nobody, -1>>
Torn == <<Nobody, -2>>
Record(s) == <<s, boot>>

Over == {"done", "failed", "killed", "withdrawn"}
Alive(s) == at[s] \notin Over \cup {"off"}

\* Processes that carry the mark of the run.
Tagged(s) == converter[s] = "running" \/ detached[s]

\* The lock of a slot: the supervisor has its descriptor from taking the slot
\* until it closes it, the converter as long as it lives.
Holding == {"recording", "admitted", "launching", "running", "cleaning", "removing", "closing"}
Locked(i) == \E s \in Run : slot[s] = i /\ (at[s] \in Holding \/ converter[s] # "none")

Init ==
    /\ at = [s \in Run |-> "off"]
    /\ slot = [s \in Run |-> NoSlot]
    /\ admission = Nobody
    /\ busy = {}
    /\ record = [i \in Slot |-> NoRecord]
    /\ converter = [s \in Run |-> "none"]
    /\ detached = [s \in Run |-> FALSE]
    /\ boot = 0 /\ kills = 0 /\ stuck = 0 /\ escaped = {}

FaultsLeft == kills + stuck + boot < MaxFault

Go(s, place) == at' = [at EXCEPT ![s] = place]

(***************************************************************************)
(* Waiting and admission.                                                  *)
(***************************************************************************)
Start(s) ==
    /\ at[s] = "off"
    /\ Go(s, "waiting")
    /\ UNCHANGED <<slot, admissions, record, trees, faults>>

\* The caller exits, the workflow is stopped, the queue time is over: seen
\* while waiting, and again between admission and launch.
Withdraw(s) ==
    /\ \/ at[s] = "waiting" /\ Go(s, "withdrawn")
       \/ at[s] = "admitted" /\ Go(s, "cleaning")
    /\ UNCHANGED <<slot, admissions, record, trees, faults>>

Enter(s) ==
    /\ at[s] = "waiting"
    /\ admission = Nobody
    /\ admission' = s
    /\ Go(s, "examining")
    /\ UNCHANGED <<slot, busy, record, trees, faults>>

Unseen == {i \in Slot \ busy : record[i] # NoRecord}

LeaveAdmission == admission' = Nobody /\ busy' = {}

Raise(s) ==
    /\ Go(s, "failed")
    /\ LeaveAdmission
    /\ UNCHANGED <<slot>>

\* A record that cannot be read raises, whoever's it was.
ReadTorn(s) ==
    /\ at[s] = "examining"
    /\ \E i \in Unseen : record[i] = Torn
    /\ Raise(s)
    /\ UNCHANGED <<record, trees, faults>>

\* The supervisor a record names is dead.
Orphaned(i) == record[i][2] = boot /\ ~Alive(record[i][1])

\* Mutant: a dead supervisor's record is removed whatever it left running.
RemovesUncleaned(s) ==
    /\ at[s] = "examining"
    /\ \E i \in Unseen :
          /\ record[i] # Torn
          /\ record[i][2] # boot \/ Orphaned(i)
          /\ record' = [record EXCEPT ![i] = NoRecord]
    /\ UNCHANGED <<supervisors, admissions, trees, faults>>

\* Mutant: the boot is not compared.
KeepsOldBoots(s) ==
    /\ at[s] = "examining"
    /\ \E i \in Unseen :
          /\ record[i] # Torn /\ Orphaned(i) /\ ~Tagged(record[i][1])
          /\ record' = [record EXCEPT ![i] = NoRecord]
    /\ UNCHANGED <<supervisors, admissions, trees, faults>>

\* The record of an earlier boot, or of a dead supervisor of which nothing
\* is left, is removed.
RemoveOld(s) ==
    /\ at[s] = "examining"
    /\ \E i \in Unseen :
          /\ record[i] # Torn
          /\ record[i][2] # boot \/ (Orphaned(i) /\ ~Tagged(record[i][1]))
          /\ record' = [record EXCEPT ![i] = NoRecord]
    /\ UNCHANGED <<supervisors, admissions, trees, faults>>

KillTagged(s) ==
    /\ converter' = [converter EXCEPT ![s] = IF @ = "running" THEN "none" ELSE @]
    /\ detached' = [detached EXCEPT ![s] = FALSE]

\* What a dead supervisor left running is killed first; if that fails, so
\* does the run that tried.
CleanOrphan(s) ==
    /\ at[s] = "examining"
    /\ \E i \in Unseen :
          /\ record[i] # Torn /\ Orphaned(i) /\ Tagged(record[i][1])
          /\ \/ KillTagged(record[i][1]) /\ UNCHANGED <<supervisors, admissions, stuck>>
             \/ FaultsLeft /\ stuck' = stuck + 1 /\ Raise(s) /\ UNCHANGED trees
    /\ UNCHANGED <<record, boot, kills, escaped>>

Occupied(s) ==
    /\ at[s] = "examining"
    /\ \E i \in Unseen :
          /\ record[i] # Torn /\ record[i][2] = boot /\ Alive(record[i][1])
          /\ busy' = busy \cup {i}
    /\ UNCHANGED <<supervisors, admission, record, trees, faults>>

\* The slots whose files nobody has locked either.
Free == {i \in Slot \ busy : ~Locked(i)}

\* The first slot that is neither occupied nor locked, if the host has room;
\* opening its record empties it.
Take(s) ==
    /\ at[s] = "examining" /\ Unseen = {}
    /\ \E i \in Free :
          /\ \A j \in Free : i <= j
          /\ slot' = [slot EXCEPT ![s] = i]
          /\ record' = [record EXCEPT ![i] = Torn]
    /\ Go(s, "recording")
    /\ UNCHANGED <<admissions, trees, faults>>

\* No slot, or no room: try again later.
Poll(s) ==
    /\ at[s] = "examining" /\ Unseen = {}
    /\ Go(s, "waiting")
    /\ LeaveAdmission
    /\ UNCHANGED <<slot, record, trees, faults>>

WriteRecord(s) ==
    /\ at[s] = "recording"
    /\ record' = [record EXCEPT ![slot[s]] = Record(s)]
    /\ LeaveAdmission
    /\ Go(s, "admitted")
    /\ UNCHANGED <<slot, trees, faults>>

(***************************************************************************)
(* The conversion.                                                         *)
(***************************************************************************)
Launch(s) ==
    /\ at[s] = "admitted"
    /\ Go(s, "launching")
    /\ converter' = [converter EXCEPT ![s] = "forked"]
    /\ UNCHANGED <<slot, admissions, record, detached, faults>>

Exec(s) ==
    /\ converter[s] = "forked"
    /\ converter' = [converter EXCEPT ![s] = "running"]
    /\ UNCHANGED <<supervisors, admissions, record, detached, faults>>

Launched(s) ==
    /\ at[s] = "launching" /\ converter[s] # "forked"
    /\ Go(s, "running")
    /\ UNCHANGED <<slot, admissions, record, trees, faults>>

Detach(s) ==
    /\ converter[s] = "running" /\ ~detached[s]
    /\ detached' = [detached EXCEPT ![s] = TRUE]
    /\ UNCHANGED <<supervisors, admissions, record, converter, faults>>

Exit(s) ==
    /\ converter[s] = "running"
    /\ converter' = [converter EXCEPT ![s] = "none"]
    /\ UNCHANGED <<supervisors, admissions, record, detached, faults>>

\* The converter has ended, is wanted no longer, or runs for too long.
Finish(s) ==
    /\ at[s] = "running"
    /\ Go(s, "cleaning")
    /\ UNCHANGED <<slot, admissions, record, trees, faults>>

\* Only if nothing of the tree is left is the record removed.
Clean(s) ==
    /\ at[s] = "cleaning"
    /\ \/ KillTagged(s) /\ Go(s, "removing") /\ UNCHANGED stuck
       \/ /\ Tagged(s) /\ FaultsLeft
          /\ stuck' = stuck + 1
          /\ Go(s, "closing")
          /\ UNCHANGED trees
    /\ UNCHANGED <<slot, admissions, record, boot, kills, escaped>>

Remove(s) ==
    /\ at[s] = "removing"
    /\ admission = Nobody
    /\ record' = [record EXCEPT ![slot[s]] = NoRecord]
    /\ Go(s, "closing")
    /\ UNCHANGED <<slot, admissions, trees, faults>>

Close(s) ==
    /\ at[s] = "closing"
    /\ Go(s, "done")
    /\ UNCHANGED <<slot, admissions, record, trees, faults>>

(***************************************************************************)
(* A supervisor is killed, which releases its locks; the host reboots.     *)
(***************************************************************************)
Kill(s) ==
    /\ Alive(s) /\ FaultsLeft
    /\ kills' = kills + 1
    /\ Go(s, "killed")
    /\ IF admission = s THEN LeaveAdmission ELSE UNCHANGED admissions
    /\ escaped' = IF converter[s] = "forked" THEN escaped \cup {s} ELSE escaped
    /\ UNCHANGED <<slot, record, trees, boot, stuck>>

Reboot ==
    /\ FaultsLeft
    /\ boot' = boot + 1
    /\ at' = [s \in Run |-> IF Alive(s) THEN "killed" ELSE at[s]]
    /\ LeaveAdmission
    /\ converter' = [s \in Run |-> "none"]
    /\ detached' = [s \in Run |-> FALSE]
    /\ UNCHANGED <<slot, record, kills, stuck, escaped>>

Examine(s) == ReadTorn(s) \/ RemoveOld(s) \/ CleanOrphan(s) \/ Occupied(s) \/ Take(s) \/ Poll(s)

Supervise(s) ==
    \/ Enter(s) \/ Examine(s) \/ WriteRecord(s) \/ Launch(s) \/ Launched(s)
    \/ Finish(s) \/ Clean(s) \/ Remove(s) \/ Close(s)

Next ==
    \/ Reboot
    \/ \E s \in Run : \/ Start(s) \/ Withdraw(s) \/ Supervise(s) \/ Kill(s)
                      \/ Exec(s) \/ Detach(s) \/ Exit(s)

Spec == Init /\ [][Next]_vars

\* A supervisor that runs keeps running (its conversion is over after an hour
\* at the latest) and gets the admission lock, which the others release between
\* their polls; a forked converter starts; the host is found to have room again
\* and again.  Converters need not end, and are not detached, by
\* themselves.
FairSpec ==
    /\ Spec
    /\ \A s \in Run : SF_vars(Supervise(s)) /\ SF_vars(Take(s)) /\ WF_vars(Exec(s))

(***************************************************************************)
(* Properties.                                                             *)
(***************************************************************************)
\* Type of every variable.
SlotTypeOK ==
    /\ at \in [Run -> Over \cup Holding \cup {"off", "waiting", "examining"}]
    /\ slot \in [Run -> Slot \cup {NoSlot}]
    /\ admission \in Run \cup {Nobody} /\ busy \subseteq Slot
    /\ record \in [Slot -> {NoRecord, Torn} \cup (Run \X (0..MaxFault))]
    /\ converter \in [Run -> {"none", "forked", "running"}]
    /\ detached \in [Run -> BOOLEAN]
    /\ boot \in 0..MaxFault /\ kills \in 0..MaxFault /\ stuck \in 0..MaxFault
    /\ escaped \subseteq Run

\* "Limits conversions across workflows": there are never more converters
\* than slots, those included whose supervisor was killed at any moment.
ConvertersBounded == Cardinality({s \in Run : converter[s] # "none"}) <= MaxConcurrent

\* Counting the processes that converters have detached as well, there are
\* never more process trees than slots: a later run removes what an earlier
\* one left behind before it starts its own.  The exception is a converter
\* whose supervisor was killed between its fork and its exec.
TreesBounded ==
    Cardinality({s \in Run \ escaped : converter[s] # "none" \/ detached[s]}) <= MaxConcurrent

\* The slots bound both, the converters and the trees they have left.
SlotsBound == ConvertersBounded /\ TreesBounded

\* A supervisor that has a slot is named by the slot's record, from its
\* admission until it has cleaned up: nobody takes it for a dead one's.
RecordNames ==
    \A s \in Run : at[s] \in {"admitted", "launching", "running", "cleaning", "removing"} =>
        record[slot[s]] = Record(s)

\* Whatever earlier runs left behind, a run that waits and stays wanted gets a
\* slot, unless it is killed itself, processes could not be killed, a
\* supervisor was killed while it wrote its record, or one between fork and exec.
SlotsComeBack ==
    \A s \in Run : at[s] = "waiting" ~>
        \/ at[s] \in Holding \cup {"done", "killed", "withdrawn"}
        \/ stuck > 0
        \/ escaped # {}
        \/ \E i \in Slot : record[i] = Torn /\ \A t \in Run : at[t] # "recording"
=============================================================================
