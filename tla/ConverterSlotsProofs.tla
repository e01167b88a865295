------------------------ MODULE ConverterSlotsProofs ------------------------
(* Proofs about ConverterSlots, for every value of its constants.           *)
EXTENDS ConverterSlots, FiniteSetTheorems, TLAPS

Tree(s) == converter[s] # "none" \/ detached[s]
Holds(s) == at[s] \in Holding \/ converter[s] # "none"

\* Whoever examines or writes records has the admission lock.
AdmissionHeld == \A s \in Run : at[s] \in {"examining", "recording"} <=> admission = s

\* A slot's lock has one holder.
SlotsApart ==
  /\ \A s \in Run : Holds(s) => slot[s] \in Slot
  /\ \A s, t \in Run : Holds(s) /\ Holds(t) /\ slot[s] = slot[t] => s = t

\* Between the two halves of writing a record the file is empty.
TornWhileRecording == \A s \in Run : at[s] = "recording" => record[slot[s]] = Torn

\* A converter without its mark belongs to a supervisor that is launching it,
\* or has escaped.
ForkedKnown == \A s \in Run : converter[s] = "forked" => at[s] = "launching" \/ s \in escaped
EscapedKilled == \A s \in escaped : at[s] = "killed"

\* A run has no processes before its launch, and none when it is about to
\* remove its record.
TreelessPlaces ==
  \A s \in Run :
    at[s] \in {"off", "waiting", "examining", "recording", "admitted", "removing"} => ~Tree(s)

\* The processes of a run that has not escaped are recorded.
TreeRecorded ==
  \A s \in Run \ escaped : Tree(s) => slot[s] \in Slot /\ record[slot[s]] = Record(s)

\* The inductive invariant.
IInv ==
  /\ SlotTypeOK
  /\ AdmissionHeld
  /\ SlotsApart
  /\ RecordNames
  /\ TornWhileRecording
  /\ ForkedKnown
  /\ EscapedKilled
  /\ TreelessPlaces
  /\ TreeRecorded

----------------------------------------------------------------------------
(* Every action keeps the invariant, conjunct by conjunct.                  *)

\* A run that begins to wait holds nothing.
LEMMA StartKeeps ==
  ASSUME IInv, NEW s \in Run, Start(s)
  PROVE  IInv'
  <1>1. SlotTypeOK'
    BY DEF IInv, Start, SlotTypeOK, Over, Holding, Go, admissions, trees, faults
  <1>2. AdmissionHeld'
    BY DEF IInv, Start, AdmissionHeld, Go, admissions, trees, faults
  <1>3. SlotsApart'
    BY DEF IInv, Start, SlotsApart, Holds, Holding, Go, admissions, trees, faults
  <1>4. RecordNames'
    BY DEF IInv, Start, RecordNames, Record, Go, admissions, trees, faults
  <1>5. TornWhileRecording'
    BY DEF IInv, Start, TornWhileRecording, Go, admissions, trees, faults
  <1>6. ForkedKnown'
    BY DEF IInv, Start, ForkedKnown, Go, admissions, trees, faults
  <1>7. EscapedKilled'
    BY DEF IInv, Start, EscapedKilled, Go, admissions, trees, faults
  <1>8. TreelessPlaces'
    BY DEF IInv, Start, TreelessPlaces, Tree, Go, admissions, trees, faults
  <1>9. TreeRecorded'
    BY DEF IInv, Start, TreeRecorded, Tree, Record, Go, admissions, trees, faults
  <1> QED
    BY <1>1, <1>2, <1>3, <1>4, <1>5, <1>6, <1>7, <1>8, <1>9 DEF IInv

\* A run that gives up has no slot yet, or cleans it up.
LEMMA WithdrawKeeps ==
  ASSUME IInv, NEW s \in Run, Withdraw(s)
  PROVE  IInv'
  <1>1. SlotTypeOK'
    BY DEF IInv, Withdraw, SlotTypeOK, Over, Holding, Go, admissions, trees, faults
  <1>2. AdmissionHeld'
    BY DEF IInv, Withdraw, AdmissionHeld, SlotTypeOK, Over, Holding, Go, admissions, trees,
       faults
  <1>3. SlotsApart'
    BY DEF IInv, Withdraw, SlotsApart, SlotTypeOK, Over, Holding, Holds, Go, admissions,
       trees, faults
  <1>4. RecordNames'
    BY DEF IInv, Withdraw, RecordNames, SlotTypeOK, Over, Holding, Record, Go, admissions,
       trees, faults
  <1>5. TornWhileRecording'
    BY DEF IInv, Withdraw, TornWhileRecording, SlotTypeOK, Over, Holding, Go, admissions,
       trees, faults
  <1>6. ForkedKnown'
    BY DEF IInv, Withdraw, ForkedKnown, SlotTypeOK, Over, Holding, Go, admissions, trees,
       faults
  <1>7. EscapedKilled'
    BY DEF IInv, Withdraw, EscapedKilled, SlotTypeOK, Over, Holding, Go, admissions, trees,
       faults
  <1>8. TreelessPlaces'
    BY DEF IInv, Withdraw, TreelessPlaces, SlotTypeOK, Over, Holding, Tree, Go, admissions,
       trees, faults
  <1>9. TreeRecorded'
    BY DEF IInv, Withdraw, TreeRecorded, Tree, Record, Go, admissions, trees, faults
  <1> QED
    BY <1>1, <1>2, <1>3, <1>4, <1>5, <1>6, <1>7, <1>8, <1>9 DEF IInv

\* The admission lock is free, so its new holder is alone.
LEMMA EnterKeeps ==
  ASSUME IInv, NEW s \in Run, Enter(s)
  PROVE  IInv'
  <1>1. SlotTypeOK'
    BY DEF IInv, Enter, SlotTypeOK, Over, Holding, Go, trees, faults
  <1>2. AdmissionHeld'
    BY SlotAssumption DEF IInv, Enter, AdmissionHeld, SlotTypeOK, Nobody, Over, Holding, Go,
       trees, faults
  <1>3. SlotsApart'
    BY DEF IInv, Enter, SlotsApart, Holds, Holding, Go, trees, faults
  <1>4. RecordNames'
    BY DEF IInv, Enter, RecordNames, Record, Go, trees, faults
  <1>5. TornWhileRecording'
    BY DEF IInv, Enter, TornWhileRecording, Go, trees, faults
  <1>6. ForkedKnown'
    BY DEF IInv, Enter, ForkedKnown, Go, trees, faults
  <1>7. EscapedKilled'
    BY DEF IInv, Enter, EscapedKilled, Go, trees, faults
  <1>8. TreelessPlaces'
    BY DEF IInv, Enter, TreelessPlaces, Tree, Go, trees, faults
  <1>9. TreeRecorded'
    BY DEF IInv, Enter, TreeRecorded, Tree, Record, Go, trees, faults
  <1> QED
    BY <1>1, <1>2, <1>3, <1>4, <1>5, <1>6, <1>7, <1>8, <1>9 DEF IInv

\* A record that cannot be read: the call raises and lets the lock go.
LEMMA ReadTornKeeps ==
  ASSUME IInv, NEW s \in Run, ReadTorn(s)
  PROVE  IInv'
  <1>1. SlotTypeOK'
    BY DEF IInv, ReadTorn, SlotTypeOK, Over, Holding, Raise, trees, faults, LeaveAdmission,
       Go
  <1>2. AdmissionHeld'
    BY SlotAssumption DEF IInv, ReadTorn, AdmissionHeld, SlotTypeOK, Nobody, Over, Holding,
       Raise, trees, faults, LeaveAdmission, Go
  <1>3. SlotsApart'
    BY DEF IInv, ReadTorn, SlotsApart, Holds, Holding, Raise, trees, faults, LeaveAdmission,
       Go
  <1>4. RecordNames'
    BY DEF IInv, ReadTorn, RecordNames, Record, Raise, trees, faults, LeaveAdmission, Go
  <1>5. TornWhileRecording'
    BY DEF IInv, ReadTorn, TornWhileRecording, Raise, trees, faults, LeaveAdmission, Go
  <1>6. ForkedKnown'
    BY DEF IInv, ReadTorn, ForkedKnown, Raise, trees, faults, LeaveAdmission, Go
  <1>7. EscapedKilled'
    BY DEF IInv, ReadTorn, EscapedKilled, Raise, trees, faults, LeaveAdmission, Go
  <1>8. TreelessPlaces'
    BY DEF IInv, ReadTorn, TreelessPlaces, Tree, Raise, trees, faults, LeaveAdmission, Go
  <1>9. TreeRecorded'
    BY DEF IInv, ReadTorn, TreeRecorded, Tree, Record, Raise, trees, faults, LeaveAdmission,
       Go
  <1> QED
    BY <1>1, <1>2, <1>3, <1>4, <1>5, <1>6, <1>7, <1>8, <1>9 DEF IInv

\* The record removed is of another boot or of a dead run without processes.
LEMMA RemoveOldKeeps ==
  ASSUME IInv, NEW s \in Run, RemoveOld(s)
  PROVE  IInv'
  <1>1. SlotTypeOK'
    BY DEF IInv, RemoveOld, SlotTypeOK, Over, Holding, Orphaned, Unseen, Tagged,
       supervisors, admissions, trees, faults, Alive
  <1>2. AdmissionHeld'
    BY DEF IInv, RemoveOld, AdmissionHeld, Orphaned, Unseen, Tagged, supervisors,
       admissions, trees, faults, Alive, Over
  <1>3. SlotsApart'
    BY DEF IInv, RemoveOld, SlotsApart, Holds, Holding, Orphaned, Unseen, Tagged,
       supervisors, admissions, trees, faults, Alive, Over
  <1>4. RecordNames'
    BY DEF IInv, RemoveOld, RecordNames, Record, Orphaned, Unseen, Tagged, supervisors,
       admissions, trees, faults, Alive, Over
  <1>5. TornWhileRecording'
    BY DEF IInv, RemoveOld, TornWhileRecording, Orphaned, Unseen, Tagged, supervisors,
       admissions, trees, faults, Alive, Over
  <1>6. ForkedKnown'
    BY DEF IInv, RemoveOld, ForkedKnown, Orphaned, Unseen, Tagged, supervisors, admissions,
       trees, faults, Alive, Over
  <1>7. EscapedKilled'
    BY DEF IInv, RemoveOld, EscapedKilled, Orphaned, Unseen, Tagged, supervisors,
       admissions, trees, faults, Alive, Over
  <1>8. TreelessPlaces'
    BY DEF IInv, RemoveOld, TreelessPlaces, Tree, Orphaned, Unseen, Tagged, supervisors,
       admissions, trees, faults, Alive, Over
  <1>9. TreeRecorded'
    BY DEF IInv, RemoveOld, TreeRecorded, SlotTypeOK, ForkedKnown, Over, Holding, Tree,
       Record, Orphaned, Unseen, Tagged, supervisors, admissions, trees, faults, Alive
  <1> QED
    BY <1>1, <1>2, <1>3, <1>4, <1>5, <1>6, <1>7, <1>8, <1>9 DEF IInv

\* A dead run's processes are gone before its record.
LEMMA CleanOrphanKeeps ==
  ASSUME IInv, NEW s \in Run, CleanOrphan(s)
  PROVE  IInv'
  <1>1. SlotTypeOK'
    <2>1. CASE UNCHANGED <<supervisors, admissions, stuck>>
      <3>1. PICK i \in Slot : KillTagged(record[i][1])
        BY <2>1, SlotAssumption DEF CleanOrphan, IInv, SlotTypeOK, FaultsLeft, Unseen
      <3> QED
        BY <2>1, <3>1 DEF IInv, CleanOrphan, KillTagged, SlotTypeOK, supervisors, admissions
    <2>2. CASE stuck' = stuck + 1 /\ FaultsLeft /\ Raise(s) /\ UNCHANGED trees
      BY <2>2, SlotAssumption DEF IInv, CleanOrphan, Raise, LeaveAdmission, Go, SlotTypeOK,
         Over, trees,
         FaultsLeft
    <2> QED
      BY <2>1, <2>2 DEF CleanOrphan
  <1>2. AdmissionHeld'
    <2>1. CASE UNCHANGED <<supervisors, admissions, stuck>>
      BY <2>1 DEF IInv, AdmissionHeld, supervisors, admissions
    <2>2. CASE Raise(s)
      BY <2>2, SlotAssumption DEF IInv, CleanOrphan, AdmissionHeld, SlotTypeOK, Raise,
         LeaveAdmission, Go,
         Nobody
    <2> QED
      BY <2>1, <2>2 DEF CleanOrphan
  <1>3. SlotsApart'
    BY DEF IInv, CleanOrphan, SlotsApart, SlotTypeOK, Over, Holding, Holds, KillTagged,
       Raise, Orphaned, FaultsLeft, Unseen, Tagged, supervisors, admissions, trees, Alive,
       LeaveAdmission, Go
  <1>4. RecordNames'
    BY DEF IInv, CleanOrphan, RecordNames, SlotTypeOK, Over, Holding, Record, KillTagged,
       Raise, Orphaned, FaultsLeft, Unseen, Tagged, supervisors, admissions, trees, Alive,
       LeaveAdmission, Go
  <1>5. TornWhileRecording'
    BY DEF IInv, CleanOrphan, TornWhileRecording, SlotTypeOK, Over, Holding, KillTagged,
       Raise, Orphaned, FaultsLeft, Unseen, Tagged, supervisors, admissions, trees, Alive,
       LeaveAdmission, Go
  <1>6. ForkedKnown'
    BY DEF IInv, CleanOrphan, ForkedKnown, SlotTypeOK, Over, Holding, KillTagged, Raise,
       Orphaned, FaultsLeft, Unseen, Tagged, supervisors, admissions, trees, Alive,
       LeaveAdmission, Go
  <1>7. EscapedKilled'
    BY DEF IInv, CleanOrphan, EscapedKilled, SlotTypeOK, Over, Holding, KillTagged, Raise,
       Orphaned, FaultsLeft, Unseen, Tagged, supervisors, admissions, trees, Alive,
       LeaveAdmission, Go
  <1>8. TreelessPlaces'
    BY DEF IInv, CleanOrphan, TreelessPlaces, SlotTypeOK, Over, Holding, Tree, KillTagged,
       Raise, Orphaned, FaultsLeft, Unseen, Tagged, supervisors, admissions, trees, Alive,
       LeaveAdmission, Go
  <1>9. TreeRecorded'
    BY DEF IInv, CleanOrphan, TreeRecorded, SlotTypeOK, Over, Holding, Tree, Record,
       KillTagged, Raise, Orphaned, FaultsLeft, Unseen, Tagged, supervisors, admissions,
       trees, Alive, LeaveAdmission, Go
  <1> QED
    BY <1>1, <1>2, <1>3, <1>4, <1>5, <1>6, <1>7, <1>8, <1>9 DEF IInv

\* A live run keeps its slot.
LEMMA OccupiedKeeps ==
  ASSUME IInv, NEW s \in Run, Occupied(s)
  PROVE  IInv'
  <1>1. SlotTypeOK'
    BY DEF IInv, Occupied, SlotTypeOK, Over, Holding, Unseen, Alive, supervisors, trees,
       faults
  <1>2. AdmissionHeld'
    BY DEF IInv, Occupied, AdmissionHeld, Unseen, Alive, supervisors, trees, faults, Over
  <1>3. SlotsApart'
    BY DEF IInv, Occupied, SlotsApart, Holds, Holding, Unseen, Alive, supervisors, trees,
       faults, Over
  <1>4. RecordNames'
    BY DEF IInv, Occupied, RecordNames, Record, Unseen, Alive, supervisors, trees, faults,
       Over
  <1>5. TornWhileRecording'
    BY DEF IInv, Occupied, TornWhileRecording, Unseen, Alive, supervisors, trees, faults,
       Over
  <1>6. ForkedKnown'
    BY DEF IInv, Occupied, ForkedKnown, Unseen, Alive, supervisors, trees, faults, Over
  <1>7. EscapedKilled'
    BY DEF IInv, Occupied, EscapedKilled, Unseen, Alive, supervisors, trees, faults, Over
  <1>8. TreelessPlaces'
    BY DEF IInv, Occupied, TreelessPlaces, Tree, Unseen, Alive, supervisors, trees, faults,
       Over
  <1>9. TreeRecorded'
    BY DEF IInv, Occupied, TreeRecorded, Tree, Record, Unseen, Alive, supervisors, trees,
       faults, Over
  <1> QED
    BY <1>1, <1>2, <1>3, <1>4, <1>5, <1>6, <1>7, <1>8, <1>9 DEF IInv

\* The slot taken is neither occupied nor locked, so it is nobody's.
LEMMA TakeKeeps ==
  ASSUME IInv, NEW s \in Run, Take(s)
  PROVE  IInv'
  <1>1. SlotTypeOK'
    BY DEF IInv, Take, SlotTypeOK, Over, Holding, Unseen, Free, Go, admissions, trees,
       faults, Locked
  <1>2. AdmissionHeld'
    BY DEF IInv, Take, AdmissionHeld, Unseen, Free, Go, admissions, trees, faults, Locked,
       Holding
  <1>3. SlotsApart'
    BY DEF IInv, Take, SlotsApart, SlotTypeOK, Over, Holding, Holds, Unseen, Free, Go,
       admissions, trees, faults, Locked
  <1>4. RecordNames'
    BY DEF IInv, Take, RecordNames, SlotTypeOK, Over, Holding, Record, Unseen, Free, Go,
       admissions, trees, faults, Locked
  <1>5. TornWhileRecording'
    BY DEF IInv, Take, TornWhileRecording, SlotTypeOK, Over, Holding, Unseen, Free, Go,
       admissions, trees, faults, Locked
  <1>6. ForkedKnown'
    BY DEF IInv, Take, ForkedKnown, Unseen, Free, Go, admissions, trees, faults, Locked,
       Holding
  <1>7. EscapedKilled'
    BY DEF IInv, Take, EscapedKilled, Unseen, Free, Go, admissions, trees, faults, Locked,
       Holding
  <1>8. TreelessPlaces'
    BY DEF IInv, Take, TreelessPlaces, Tree, Unseen, Free, Go, admissions, trees, faults,
       Locked, Holding
  <1>9. TreeRecorded'
    BY DEF IInv, Take, TreeRecorded, SlotTypeOK, TreelessPlaces, Tree, Nobody, NoRecord,
       Over, Holding, Record, Unseen, Free, Go, admissions, trees, faults, Locked
  <1> QED
    BY <1>1, <1>2, <1>3, <1>4, <1>5, <1>6, <1>7, <1>8, <1>9 DEF IInv

\* No slot: the admission lock is let go.
LEMMA PollKeeps ==
  ASSUME IInv, NEW s \in Run, Poll(s)
  PROVE  IInv'
  <1>1. SlotTypeOK'
    BY DEF IInv, Poll, SlotTypeOK, Over, Holding, LeaveAdmission, Go, trees, faults
  <1>2. AdmissionHeld'
    BY SlotAssumption DEF IInv, Poll, AdmissionHeld, SlotTypeOK, Nobody, Over, Holding,
       LeaveAdmission, Go, trees, faults
  <1>3. SlotsApart'
    BY DEF IInv, Poll, SlotsApart, Holds, Holding, LeaveAdmission, Go, trees, faults
  <1>4. RecordNames'
    BY DEF IInv, Poll, RecordNames, Record, LeaveAdmission, Go, trees, faults
  <1>5. TornWhileRecording'
    BY DEF IInv, Poll, TornWhileRecording, LeaveAdmission, Go, trees, faults
  <1>6. ForkedKnown'
    BY DEF IInv, Poll, ForkedKnown, LeaveAdmission, Go, trees, faults
  <1>7. EscapedKilled'
    BY DEF IInv, Poll, EscapedKilled, LeaveAdmission, Go, trees, faults
  <1>8. TreelessPlaces'
    BY DEF IInv, Poll, TreelessPlaces, Tree, LeaveAdmission, Go, trees, faults
  <1>9. TreeRecorded'
    BY DEF IInv, Poll, TreeRecorded, Tree, Record, LeaveAdmission, Go, trees, faults
  <1> QED
    BY <1>1, <1>2, <1>3, <1>4, <1>5, <1>6, <1>7, <1>8, <1>9 DEF IInv

\* The record is whole again when the admission ends.
LEMMA WriteRecordKeeps ==
  ASSUME IInv, NEW s \in Run, WriteRecord(s)
  PROVE  IInv'
  <1>1. SlotTypeOK'
    BY DEF IInv, WriteRecord, SlotTypeOK, Over, Holding, LeaveAdmission, Go, trees, faults,
       Record
  <1>2. AdmissionHeld'
    BY SlotAssumption DEF IInv, WriteRecord, AdmissionHeld, SlotTypeOK, Nobody, Over,
       Holding, LeaveAdmission, Go, trees, faults
  <1>3. SlotsApart'
    BY DEF IInv, WriteRecord, SlotsApart, Holds, Holding, LeaveAdmission, Go, trees, faults
  <1>4. RecordNames'
    BY DEF IInv, WriteRecord, RecordNames, SlotsApart, SlotTypeOK, Over, Holding, Holds,
       Record, LeaveAdmission, Go, trees, faults
  <1>5. TornWhileRecording'
    BY DEF IInv, WriteRecord, TornWhileRecording, AdmissionHeld, SlotTypeOK, Over, Holding,
       LeaveAdmission, Go, trees, faults
  <1>6. ForkedKnown'
    BY DEF IInv, WriteRecord, ForkedKnown, LeaveAdmission, Go, trees, faults
  <1>7. EscapedKilled'
    BY DEF IInv, WriteRecord, EscapedKilled, LeaveAdmission, Go, trees, faults
  <1>8. TreelessPlaces'
    BY DEF IInv, WriteRecord, TreelessPlaces, Tree, LeaveAdmission, Go, trees, faults
  <1>9. TreeRecorded'
    BY DEF IInv, WriteRecord, TreeRecorded, SlotTypeOK, TornWhileRecording, Torn, Nobody,
       Over, Holding, Tree, Record, LeaveAdmission, Go, trees, faults
  <1> QED
    BY <1>1, <1>2, <1>3, <1>4, <1>5, <1>6, <1>7, <1>8, <1>9 DEF IInv

\* A converter is forked by a recorded supervisor.
LEMMA LaunchKeeps ==
  ASSUME IInv, NEW s \in Run, Launch(s)
  PROVE  IInv'
  <1>1. SlotTypeOK'
    BY DEF IInv, Launch, SlotTypeOK, Over, Holding, Go, admissions, faults
  <1>2. AdmissionHeld'
    BY DEF IInv, Launch, AdmissionHeld, Go, admissions, faults
  <1>3. SlotsApart'
    BY DEF IInv, Launch, SlotsApart, Holds, Holding, Go, admissions, faults
  <1>4. RecordNames'
    BY DEF IInv, Launch, RecordNames, Record, Go, admissions, faults
  <1>5. TornWhileRecording'
    BY DEF IInv, Launch, TornWhileRecording, Go, admissions, faults
  <1>6. ForkedKnown'
    BY DEF IInv, Launch, ForkedKnown, SlotTypeOK, Over, Holding, Go, admissions, faults
  <1>7. EscapedKilled'
    BY DEF IInv, Launch, EscapedKilled, Go, admissions, faults
  <1>8. TreelessPlaces'
    BY DEF IInv, Launch, TreelessPlaces, SlotTypeOK, Over, Holding, Tree, Go, admissions,
       faults
  <1>9. TreeRecorded'
    BY DEF IInv, Launch, TreeRecorded, SlotTypeOK, RecordNames, SlotsApart, Holds, Holding,
       Record, Over, Tree, Go, admissions, faults
  <1> QED
    BY <1>1, <1>2, <1>3, <1>4, <1>5, <1>6, <1>7, <1>8, <1>9 DEF IInv

\* The supervisor knows its converter.
LEMMA LaunchedKeeps ==
  ASSUME IInv, NEW s \in Run, Launched(s)
  PROVE  IInv'
  <1>1. SlotTypeOK'
    BY DEF IInv, Launched, SlotTypeOK, Over, Holding, Go, admissions, trees, faults
  <1>2. AdmissionHeld'
    BY DEF IInv, Launched, AdmissionHeld, Go, admissions, trees, faults
  <1>3. SlotsApart'
    BY DEF IInv, Launched, SlotsApart, Holds, Holding, Go, admissions, trees, faults
  <1>4. RecordNames'
    BY DEF IInv, Launched, RecordNames, Record, Go, admissions, trees, faults
  <1>5. TornWhileRecording'
    BY DEF IInv, Launched, TornWhileRecording, Go, admissions, trees, faults
  <1>6. ForkedKnown'
    BY DEF IInv, Launched, ForkedKnown, Go, admissions, trees, faults
  <1>7. EscapedKilled'
    BY DEF IInv, Launched, EscapedKilled, Go, admissions, trees, faults
  <1>8. TreelessPlaces'
    BY DEF IInv, Launched, TreelessPlaces, Tree, Go, admissions, trees, faults
  <1>9. TreeRecorded'
    BY DEF IInv, Launched, TreeRecorded, Tree, Record, Go, admissions, trees, faults
  <1> QED
    BY <1>1, <1>2, <1>3, <1>4, <1>5, <1>6, <1>7, <1>8, <1>9 DEF IInv

\* The converter carries its mark.
LEMMA ExecKeeps ==
  ASSUME IInv, NEW s \in Run, Exec(s)
  PROVE  IInv'
  <1>1. SlotTypeOK'
    BY DEF IInv, Exec, SlotTypeOK, Over, Holding, supervisors, admissions, faults
  <1>2. AdmissionHeld'
    BY DEF IInv, Exec, AdmissionHeld, supervisors, admissions, faults
  <1>3. SlotsApart'
    BY DEF IInv, Exec, SlotsApart, Holds, Holding, supervisors, admissions, faults
  <1>4. RecordNames'
    BY DEF IInv, Exec, RecordNames, Record, supervisors, admissions, faults
  <1>5. TornWhileRecording'
    BY DEF IInv, Exec, TornWhileRecording, supervisors, admissions, faults
  <1>6. ForkedKnown'
    BY DEF IInv, Exec, ForkedKnown, supervisors, admissions, faults
  <1>7. EscapedKilled'
    BY DEF IInv, Exec, EscapedKilled, supervisors, admissions, faults
  <1>8. TreelessPlaces'
    BY DEF IInv, Exec, TreelessPlaces, Tree, supervisors, admissions, faults
  <1>9. TreeRecorded'
    BY DEF IInv, Exec, TreeRecorded, Tree, Record, supervisors, admissions, faults
  <1> QED
    BY <1>1, <1>2, <1>3, <1>4, <1>5, <1>6, <1>7, <1>8, <1>9 DEF IInv

\* What is detached belongs to the same recorded run.
LEMMA DetachKeeps ==
  ASSUME IInv, NEW s \in Run, Detach(s)
  PROVE  IInv'
  <1>1. SlotTypeOK'
    BY DEF IInv, Detach, SlotTypeOK, Over, Holding, supervisors, admissions, faults
  <1>2. AdmissionHeld'
    BY DEF IInv, Detach, AdmissionHeld, supervisors, admissions, faults
  <1>3. SlotsApart'
    BY DEF IInv, Detach, SlotsApart, Holds, Holding, supervisors, admissions, faults
  <1>4. RecordNames'
    BY DEF IInv, Detach, RecordNames, Record, supervisors, admissions, faults
  <1>5. TornWhileRecording'
    BY DEF IInv, Detach, TornWhileRecording, supervisors, admissions, faults
  <1>6. ForkedKnown'
    BY DEF IInv, Detach, ForkedKnown, supervisors, admissions, faults
  <1>7. EscapedKilled'
    BY DEF IInv, Detach, EscapedKilled, supervisors, admissions, faults
  <1>8. TreelessPlaces'
    BY DEF IInv, Detach, TreelessPlaces, Tree, supervisors, admissions, faults
  <1>9. TreeRecorded'
    BY DEF IInv, Detach, TreeRecorded, Tree, Record, supervisors, admissions, faults
  <1> QED
    BY <1>1, <1>2, <1>3, <1>4, <1>5, <1>6, <1>7, <1>8, <1>9 DEF IInv

\* A converter ends by itself.
LEMMA ExitKeeps ==
  ASSUME IInv, NEW s \in Run, Exit(s)
  PROVE  IInv'
  <1>1. SlotTypeOK'
    BY DEF IInv, Exit, SlotTypeOK, Over, Holding, supervisors, admissions, faults
  <1>2. AdmissionHeld'
    BY DEF IInv, Exit, AdmissionHeld, supervisors, admissions, faults
  <1>3. SlotsApart'
    BY DEF IInv, Exit, SlotsApart, Holds, Holding, supervisors, admissions, faults
  <1>4. RecordNames'
    BY DEF IInv, Exit, RecordNames, Record, supervisors, admissions, faults
  <1>5. TornWhileRecording'
    BY DEF IInv, Exit, TornWhileRecording, supervisors, admissions, faults
  <1>6. ForkedKnown'
    BY DEF IInv, Exit, ForkedKnown, supervisors, admissions, faults
  <1>7. EscapedKilled'
    BY DEF IInv, Exit, EscapedKilled, supervisors, admissions, faults
  <1>8. TreelessPlaces'
    BY DEF IInv, Exit, TreelessPlaces, Tree, supervisors, admissions, faults
  <1>9. TreeRecorded'
    BY DEF IInv, Exit, TreeRecorded, Tree, Record, supervisors, admissions, faults
  <1> QED
    BY <1>1, <1>2, <1>3, <1>4, <1>5, <1>6, <1>7, <1>8, <1>9 DEF IInv

\* The supervisor sees the end.
LEMMA FinishKeeps ==
  ASSUME IInv, NEW s \in Run, Finish(s)
  PROVE  IInv'
  <1>1. SlotTypeOK'
    BY DEF IInv, Finish, SlotTypeOK, Over, Holding, Go, admissions, trees, faults
  <1>2. AdmissionHeld'
    BY DEF IInv, Finish, AdmissionHeld, Go, admissions, trees, faults
  <1>3. SlotsApart'
    BY DEF IInv, Finish, SlotsApart, Holds, Holding, Go, admissions, trees, faults
  <1>4. RecordNames'
    BY DEF IInv, Finish, RecordNames, Record, Go, admissions, trees, faults
  <1>5. TornWhileRecording'
    BY DEF IInv, Finish, TornWhileRecording, Go, admissions, trees, faults
  <1>6. ForkedKnown'
    BY DEF IInv, Finish, ForkedKnown, Go, admissions, trees, faults
  <1>7. EscapedKilled'
    BY DEF IInv, Finish, EscapedKilled, Go, admissions, trees, faults
  <1>8. TreelessPlaces'
    BY DEF IInv, Finish, TreelessPlaces, Tree, Go, admissions, trees, faults
  <1>9. TreeRecorded'
    BY DEF IInv, Finish, TreeRecorded, Tree, Record, Go, admissions, trees, faults
  <1> QED
    BY <1>1, <1>2, <1>3, <1>4, <1>5, <1>6, <1>7, <1>8, <1>9 DEF IInv

\* Processes of this run only are killed.
LEMMA CleanKeeps ==
  ASSUME IInv, NEW s \in Run, Clean(s)
  PROVE  IInv'
  <1>1. SlotTypeOK'
    <2>1. CASE KillTagged(s) /\ Go(s, "removing") /\ UNCHANGED stuck
      BY <2>1 DEF IInv, Clean, KillTagged, Go, SlotTypeOK, Holding, admissions
    <2>2. CASE stuck' = stuck + 1 /\ FaultsLeft /\ Go(s, "closing") /\ UNCHANGED trees
      BY <2>2, SlotAssumption DEF IInv, Clean, Go, SlotTypeOK, Holding, admissions, trees,
         FaultsLeft
    <2> QED
      BY <2>1, <2>2 DEF Clean
  <1>2. AdmissionHeld'
    BY DEF IInv, Clean, AdmissionHeld, SlotTypeOK, Over, Holding, KillTagged, FaultsLeft,
       Go, Tagged, admissions, trees
  <1>3. SlotsApart'
    BY DEF IInv, Clean, SlotsApart, SlotTypeOK, Over, Holding, Holds, KillTagged,
       FaultsLeft, Go, Tagged, admissions, trees
  <1>4. RecordNames'
    BY DEF IInv, Clean, RecordNames, SlotTypeOK, Over, Holding, Record, KillTagged,
       FaultsLeft, Go, Tagged, admissions, trees
  <1>5. TornWhileRecording'
    BY DEF IInv, Clean, TornWhileRecording, SlotTypeOK, Over, Holding, KillTagged,
       FaultsLeft, Go, Tagged, admissions, trees
  <1>6. ForkedKnown'
    BY DEF IInv, Clean, ForkedKnown, SlotTypeOK, Over, Holding, KillTagged, FaultsLeft, Go,
       Tagged, admissions, trees
  <1>7. EscapedKilled'
    BY DEF IInv, Clean, EscapedKilled, SlotTypeOK, Over, Holding, KillTagged, FaultsLeft,
       Go, Tagged, admissions, trees
  <1>8. TreelessPlaces'
    BY DEF IInv, Clean, TreelessPlaces, ForkedKnown, EscapedKilled, SlotTypeOK, Over,
       Holding, Tree, KillTagged, FaultsLeft, Go, Tagged, admissions, trees
  <1>9. TreeRecorded'
    BY DEF IInv, Clean, TreeRecorded, SlotTypeOK, Over, Holding, Tree, Record, KillTagged,
       FaultsLeft, Go, Tagged, admissions, trees
  <1> QED
    BY <1>1, <1>2, <1>3, <1>4, <1>5, <1>6, <1>7, <1>8, <1>9 DEF IInv

\* The record goes when no process is left.
LEMMA RemoveKeeps ==
  ASSUME IInv, NEW s \in Run, Remove(s)
  PROVE  IInv'
  <1>1. SlotTypeOK'
    BY DEF IInv, Remove, SlotTypeOK, Over, Holding, Go, admissions, trees, faults
  <1>2. AdmissionHeld'
    BY DEF IInv, Remove, AdmissionHeld, Go, admissions, trees, faults
  <1>3. SlotsApart'
    BY DEF IInv, Remove, SlotsApart, Holds, Holding, Go, admissions, trees, faults
  <1>4. RecordNames'
    BY DEF IInv, Remove, RecordNames, SlotTypeOK, Over, Holding, Record, Go, admissions,
       trees, faults
  <1>5. TornWhileRecording'
    BY SlotAssumption DEF IInv, Remove, TornWhileRecording, AdmissionHeld, SlotTypeOK,
       Nobody, Over, Holding, Go, admissions, trees, faults
  <1>6. ForkedKnown'
    BY DEF IInv, Remove, ForkedKnown, Go, admissions, trees, faults
  <1>7. EscapedKilled'
    BY DEF IInv, Remove, EscapedKilled, Go, admissions, trees, faults
  <1>8. TreelessPlaces'
    BY DEF IInv, Remove, TreelessPlaces, Tree, Go, admissions, trees, faults
  <1>9. TreeRecorded'
    BY DEF IInv, Remove, TreeRecorded, SlotTypeOK, RecordNames, TreelessPlaces, Tree,
       Record, Over, Holding, Go, admissions, trees, faults
  <1> QED
    BY <1>1, <1>2, <1>3, <1>4, <1>5, <1>6, <1>7, <1>8, <1>9 DEF IInv

\* The lock goes with the file.
LEMMA CloseKeeps ==
  ASSUME IInv, NEW s \in Run, Close(s)
  PROVE  IInv'
  <1>1. SlotTypeOK'
    BY DEF IInv, Close, SlotTypeOK, Over, Holding, Go, admissions, trees, faults
  <1>2. AdmissionHeld'
    BY DEF IInv, Close, AdmissionHeld, Go, admissions, trees, faults
  <1>3. SlotsApart'
    BY DEF IInv, Close, SlotsApart, Holds, Holding, Go, admissions, trees, faults
  <1>4. RecordNames'
    BY DEF IInv, Close, RecordNames, Record, Go, admissions, trees, faults
  <1>5. TornWhileRecording'
    BY DEF IInv, Close, TornWhileRecording, Go, admissions, trees, faults
  <1>6. ForkedKnown'
    BY DEF IInv, Close, ForkedKnown, Go, admissions, trees, faults
  <1>7. EscapedKilled'
    BY DEF IInv, Close, EscapedKilled, Go, admissions, trees, faults
  <1>8. TreelessPlaces'
    BY DEF IInv, Close, TreelessPlaces, Tree, Go, admissions, trees, faults
  <1>9. TreeRecorded'
    BY DEF IInv, Close, TreeRecorded, Tree, Record, Go, admissions, trees, faults
  <1> QED
    BY <1>1, <1>2, <1>3, <1>4, <1>5, <1>6, <1>7, <1>8, <1>9 DEF IInv

\* Only the supervisor dies: its record and its processes remain.
LEMMA KillKeeps ==
  ASSUME IInv, NEW s \in Run, Kill(s)
  PROVE  IInv'
  <1>1. SlotTypeOK'
    BY SlotAssumption DEF IInv, Kill, SlotTypeOK, Over, Holding, LeaveAdmission, FaultsLeft,
       Go, Alive, admissions, trees
  <1>2. AdmissionHeld'
    BY SlotAssumption DEF IInv, Kill, AdmissionHeld, SlotTypeOK, Nobody, Over, Holding,
       LeaveAdmission, FaultsLeft, Go, Alive, admissions, trees
  <1>3. SlotsApart'
    BY DEF IInv, Kill, SlotsApart, Holds, Holding, LeaveAdmission, FaultsLeft, Go, Alive,
       admissions, trees, Over
  <1>4. RecordNames'
    BY DEF IInv, Kill, RecordNames, Record, LeaveAdmission, FaultsLeft, Go, Alive,
       admissions, trees, Over
  <1>5. TornWhileRecording'
    BY DEF IInv, Kill, TornWhileRecording, LeaveAdmission, FaultsLeft, Go, Alive,
       admissions, trees, Over
  <1>6. ForkedKnown'
    BY DEF IInv, Kill, ForkedKnown, LeaveAdmission, FaultsLeft, Go, Alive, admissions,
       trees, Over
  <1>7. EscapedKilled'
    BY DEF IInv, Kill, EscapedKilled, SlotTypeOK, Over, Holding, LeaveAdmission, FaultsLeft,
       Go, Alive, admissions, trees
  <1>8. TreelessPlaces'
    BY DEF IInv, Kill, TreelessPlaces, Tree, LeaveAdmission, FaultsLeft, Go, Alive,
       admissions, trees, Over
  <1>9. TreeRecorded'
    BY DEF IInv, Kill, TreeRecorded, Tree, Record, LeaveAdmission, FaultsLeft, Go, Alive,
       admissions, trees, Over
  <1> QED
    BY <1>1, <1>2, <1>3, <1>4, <1>5, <1>6, <1>7, <1>8, <1>9 DEF IInv

\* Nothing survives but the records of the earlier boot.
LEMMA RebootKeeps ==
  ASSUME IInv, Reboot
  PROVE  IInv'
  <1>1. SlotTypeOK'
    BY SlotAssumption DEF IInv, Reboot, SlotTypeOK, LeaveAdmission, FaultsLeft, Over
  <1>2. AdmissionHeld'
    BY SlotAssumption DEF IInv, Reboot, AdmissionHeld, SlotTypeOK, LeaveAdmission, Alive,
       Over, Nobody
  <1>3. SlotsApart'
    BY DEF IInv, Reboot, SlotsApart, Holds, SlotTypeOK, Alive, Over, Holding
  <1>4. RecordNames'
    BY DEF IInv, Reboot, RecordNames, SlotTypeOK, Alive, Over
  <1>5. TornWhileRecording'
    BY DEF IInv, Reboot, TornWhileRecording, SlotTypeOK, Alive, Over
  <1>6. ForkedKnown'
    BY DEF IInv, Reboot, ForkedKnown
  <1>7. EscapedKilled'
    BY DEF IInv, Reboot, EscapedKilled, SlotTypeOK, Alive, Over
  <1>8. TreelessPlaces'
    BY DEF IInv, Reboot, TreelessPlaces, Tree
  <1>9. TreeRecorded'
    BY DEF IInv, Reboot, TreeRecorded, Tree
  <1> QED
    BY <1>1, <1>2, <1>3, <1>4, <1>5, <1>6, <1>7, <1>8, <1>9 DEF IInv

LEMMA StutterKeeps ==
  ASSUME IInv, UNCHANGED vars
  PROVE  IInv'
  BY DEF IInv, vars, supervisors, admissions, trees, faults, SlotTypeOK, AdmissionHeld,
     SlotsApart, Holds,
     RecordNames, Record, TornWhileRecording, ForkedKnown, EscapedKilled, TreelessPlaces, Tree, TreeRecorded

LEMMA InitHolds == Init => IInv
  <1> SUFFICES ASSUME Init PROVE IInv
    OBVIOUS
  <1>1. SlotTypeOK
    BY SlotAssumption DEF Init, SlotTypeOK, Over
  <1>2. AdmissionHeld
    BY SlotAssumption DEF Init, AdmissionHeld, Nobody
  <1>3. SlotsApart /\ RecordNames /\ TornWhileRecording
    BY DEF Init, SlotsApart, Holds, Holding, RecordNames, TornWhileRecording
  <1>4. ForkedKnown /\ EscapedKilled /\ TreelessPlaces /\ TreeRecorded
    BY DEF Init, ForkedKnown, EscapedKilled, TreelessPlaces, Tree, TreeRecorded
  <1> QED
    BY <1>1, <1>2, <1>3, <1>4 DEF IInv

LEMMA StepKeeps == IInv /\ [Next]_vars => IInv'
  <1> SUFFICES ASSUME IInv, [Next]_vars PROVE IInv'
    OBVIOUS
  <1>1. CASE Reboot
    BY <1>1, RebootKeeps
  <1>2. CASE UNCHANGED vars
    BY <1>2, StutterKeeps
  <1>3. ASSUME NEW s \in Run, Supervise(s) PROVE IInv'
    BY <1>3, EnterKeeps, ReadTornKeeps, RemoveOldKeeps, CleanOrphanKeeps, OccupiedKeeps,
       TakeKeeps,
       PollKeeps, WriteRecordKeeps, LaunchKeeps, LaunchedKeeps, FinishKeeps, CleanKeeps, RemoveKeeps,
       CloseKeeps DEF Supervise, Examine
  <1>4. ASSUME NEW s \in Run, Start(s) \/ Withdraw(s) \/ Kill(s) \/ Exec(s) \/ Detach(s) \/ Exit(s)
        PROVE  IInv'
    BY <1>4, StartKeeps, WithdrawKeeps, KillKeeps, ExecKeeps, DetachKeeps, ExitKeeps
  <1> QED
    BY <1>1, <1>2, <1>3, <1>4 DEF Next

\* The inductive invariant holds, whoever is killed at whatever step.
THEOREM Invariance == Spec => []IInv
  BY InitHolds, StepKeeps, PTL DEF Spec

----------------------------------------------------------------------------
(* What the invariant implies.                                              *)

\* As many runs as slots can be told apart by a slot at most.
LEMMA ApartFit ==
  ASSUME NEW S \in SUBSET Run,
         \A s \in S : slot[s] \in Slot,
         \A s, t \in S : slot[s] = slot[t] => s = t
  PROVE  Cardinality(S) <= MaxConcurrent
  <1>1. IsFiniteSet(Slot) /\ Cardinality(Slot) = MaxConcurrent
    BY SlotAssumption, FS_Interval DEF Slot
  <1> DEFINE f == [s \in S |-> slot[s]]
  <1>2. f \in Injection(S, Slot)
    BY DEF Injection, IsInjective
  <1> QED
    BY <1>1, <1>2, FS_Injection

\* Every variable keeps its type.
THEOREM TypesHold == Spec => []SlotTypeOK
  BY Invariance, PTL DEF IInv

\* However many slots and conversions there are, and whenever supervisors
\* die: no more converters than slots.
THEOREM ConvertersFit == Spec => []ConvertersBounded
  <1>1. IInv => ConvertersBounded
    <2> SUFFICES ASSUME IInv PROVE Cardinality({s \in Run : converter[s] # "none"}) <= MaxConcurrent
      BY DEF ConvertersBounded
    <2> QED
      BY ApartFit DEF IInv, SlotsApart, Holds
  <1> QED
    BY <1>1, Invariance, PTL

\* The same of whole process trees, but for the converters that escaped.
THEOREM TreesFit == Spec => []TreesBounded
  <1>1. IInv => TreesBounded
    <2> SUFFICES ASSUME IInv PROVE Cardinality({s \in Run \ escaped : Tree(s)}) <= MaxConcurrent
      BY DEF TreesBounded, Tree
    <2>1. \A s, t \in Run \ escaped : Tree(s) /\ Tree(t) /\ slot[s] = slot[t] => s = t
      BY DEF IInv, TreeRecorded, Record
    <2> QED
      BY <2>1, ApartFit DEF IInv, TreeRecorded
  <1> QED
    BY <1>1, Invariance, PTL

\* Both bounds, as the runs check them.
THEOREM SlotsFit == Spec => []SlotsBound
  BY ConvertersFit, TreesFit, PTL DEF SlotsBound

\* A live supervisor that has a slot is named by its record.
THEOREM RecordsName == Spec => []RecordNames
  BY Invariance, PTL DEF IInv
=============================================================================
