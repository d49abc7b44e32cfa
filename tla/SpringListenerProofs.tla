------------------------ MODULE SpringListenerProofs ------------------------
(***************************************************************************)
(* The Kafka listeners of inventory-service for any number of instances,   *)
(* records, attempts and faults.  Everything hangs on the place each       *)
(* instance is at: what is below it is settled, and the owner of the       *)
(* partition is never behind the committed offset, so its commit, the only *)
(* one the broker takes, moves the group forward over settled records.     *)
(***************************************************************************)
EXTENDS SpringListener, TLAPS

Settled(o) == o \in done \cup givenUp

\* Where an instance is: in the listener, at a record that it has polled and that
\* parses; behind it, and at a record it is about to commit, all is settled.
PlacedRightly(i) ==
    /\ offset[i] <= batchEnd[i]
    /\ at[i] # "poll" => offset[i] < batchEnd[i]
    /\ \A o \in Malformed : o < offset[i] \/ batchEnd[i] <= o
    /\ \A o \in Offsets : o < offset[i] => Settled(o)
    /\ at[i] = "commit" => Settled(offset[i])

AllPlacedRightly ==
    /\ \A i \in Instances : PlacedRightly(i)
    /\ committed <= offset[owner]

ListenerInv == ListenerTypeOK /\ AllPlacedRightly /\ SettledInOrder

---------------------------------------------------------------------------
\* The start: an empty partition, every instance before its first record.
LEMMA ListenerInit_Inv == ListenerInit => ListenerInv
  BY ListenerInputs DEF ListenerInit, ListenerInv, ListenerTypeOK, AllPlacedRightly,
                        PlacedRightly, SettledInOrder, Settled, Offsets

\* The record an instance is at, once it has taken it from its batch.
LEMMA InHandIsARecord ==
    ASSUME ListenerInv, NEW i \in Instances, at[i] # "poll"
    PROVE  /\ offset[i] \in Offsets \ Malformed
           /\ offset[i] + 1 \in 0..end
           /\ offset[i] + 1 <= batchEnd[i]
<1>1. /\ offset[i] \in 0..end /\ batchEnd[i] \in 0..end /\ end \in 0..Length
      /\ offset[i] < batchEnd[i]
  BY DEF ListenerInv, ListenerTypeOK, AllPlacedRightly, PlacedRightly
<1>2. offset[i] \notin Malformed
  BY <1>1 DEF ListenerInv, AllPlacedRightly, PlacedRightly
<1> QED
  BY <1>1, <1>2, ListenerInputs DEF Offsets

\* What a poll returns.
LEMMA BatchEndsParse ==
    ASSUME ListenerTypeOK, NEW i \in Instances, NEW n \in BatchEnds(i)
    PROVE  /\ n \in 0..end /\ offset[i] < n
           /\ \A o \in Malformed : o < offset[i] \/ n <= o
<1>1. offset[i] \in 0..end /\ end \in 0..Length
  BY DEF ListenerTypeOK
<1>2. n \in (offset[i] + 1)..end /\ Malformed \cap offset[i]..(n - 1) = {}
  BY DEF BatchEnds
<1>3. \A o \in Malformed : o \in Nat /\ o \notin offset[i]..(n - 1)
  BY <1>2, ListenerInputs
<1> QED
  BY <1>1, <1>2, <1>3, ListenerInputs

---------------------------------------------------------------------------
\* Every step keeps the types.
LEMMA ListenerNext_Type == ListenerInv /\ [ListenerNext]_listenerVars => ListenerTypeOK'
<1> SUFFICES ASSUME ListenerInv, [ListenerNext]_listenerVars PROVE ListenerTypeOK'
  OBVIOUS
<1>0. ListenerTypeOK
  BY DEF ListenerInv
<1> USE ListenerInputs DEF ListenerTypeOK
<1>1. CASE Produce
  BY <1>0, <1>1 DEF Produce
<1>2. ASSUME NEW i \in Instances, Poll(i) PROVE ListenerTypeOK'
  BY <1>0, <1>2, BatchEndsParse DEF Poll, Move
<1>3. ASSUME NEW i \in Instances, NextRecord(i) PROVE ListenerTypeOK'
  BY <1>0, <1>3 DEF NextRecord, Move
<1>4. ASSUME NEW i \in Instances, ListenerReturns(i) PROVE ListenerTypeOK'
  BY <1>0, <1>4, InHandIsARecord DEF ListenerReturns, Move
<1>5. ASSUME NEW i \in Instances, SeekBack(i) PROVE ListenerTypeOK'
  BY <1>0, <1>5, InHandIsARecord DEF SeekBack, Throws, Move
<1>6. ASSUME NEW i \in Instances, Recover(i) PROVE ListenerTypeOK'
  BY <1>0, <1>6, InHandIsARecord DEF Recover, Throws, Move
<1>7. ASSUME NEW i \in Instances, Commit(i) PROVE ListenerTypeOK'
  BY <1>0, <1>7, InHandIsARecord DEF Commit, GoOn, Move
<1>8. ASSUME NEW i \in Instances, Restart(i) \/ Evict(i) PROVE ListenerTypeOK'
  BY <1>0, <1>8 DEF Restart, Evict, Assign
<1>9. CASE UNCHANGED listenerVars
  BY <1>0, <1>9 DEF listenerVars
<1> QED
  BY <1>1, <1>2, <1>3, <1>4, <1>5, <1>6, <1>7, <1>8, <1>9 DEF ListenerNext, Loop

\* Every step leaves all instances where they may be.
LEMMA ListenerNext_Placed == ListenerInv /\ [ListenerNext]_listenerVars => AllPlacedRightly'
<1> SUFFICES ASSUME ListenerInv, [ListenerNext]_listenerVars PROVE AllPlacedRightly'
  OBVIOUS
<1>0. ListenerTypeOK /\ AllPlacedRightly
  BY DEF ListenerInv
<1> USE ListenerInputs DEF ListenerTypeOK, AllPlacedRightly, PlacedRightly, Settled, Offsets
<1>1. CASE Produce
  BY <1>0, <1>1 DEF Produce
<1>2. ASSUME NEW i \in Instances, Poll(i) PROVE AllPlacedRightly'
  BY <1>0, <1>2, BatchEndsParse DEF Poll, Move
<1>3. ASSUME NEW i \in Instances, NextRecord(i) PROVE AllPlacedRightly'
  BY <1>0, <1>3 DEF NextRecord, Move
<1>4. ASSUME NEW i \in Instances, ListenerReturns(i) PROVE AllPlacedRightly'
  BY <1>0, <1>4 DEF ListenerReturns, Move
<1>5. ASSUME NEW i \in Instances, SeekBack(i) PROVE AllPlacedRightly'
  BY <1>0, <1>5, InHandIsARecord DEF SeekBack, Throws, Move
<1>6. ASSUME NEW i \in Instances, Recover(i) PROVE AllPlacedRightly'
  BY <1>0, <1>6 DEF Recover, Throws, Move
<1>7. ASSUME NEW i \in Instances, Commit(i) PROVE AllPlacedRightly'
  <2>0. /\ at[i] = "commit" /\ at' = [at EXCEPT ![i] = "poll"]
        /\ offset' = [offset EXCEPT ![i] = offset[i] + 1]
        /\ UNCHANGED <<end, owner, done, givenUp>>
    BY <1>7 DEF Commit, GoOn, Move
  <2>1. /\ batchEnd' = [batchEnd EXCEPT ![i] = IF owner = i THEN @ ELSE offset[i] + 1]
        /\ committed' = IF owner = i THEN offset[i] + 1 ELSE committed
    BY <1>7 DEF Commit, GoOn
  <2>2. offset[i] \in Nat /\ offset[i] + 1 <= batchEnd[i]
    BY <1>0, <2>0, InHandIsARecord
  <2>3. \A o \in Offsets : o < offset[i] + 1 => Settled(o)
    BY <1>0, <2>0, <2>2
  <2>4. PlacedRightly(i)'
    <3>1. offset'[i] <= batchEnd'[i] /\ at'[i] = "poll"
      BY <1>0, <2>0, <2>1, <2>2
    <3>2. \A o \in Malformed : o < offset'[i] \/ batchEnd'[i] <= o
      BY <1>0, <2>0, <2>1, <2>2
    <3>3. \A o \in Offsets : o < offset'[i] => Settled(o)'
      BY <1>0, <2>0, <2>3
    <3> QED
      BY <3>1, <3>2, <3>3
  <2>5. ASSUME NEW j \in Instances, j # i PROVE PlacedRightly(j)'
    <3>1. at'[j] = at[j] /\ offset'[j] = offset[j] /\ batchEnd'[j] = batchEnd[j]
      BY <1>0, <2>0, <2>1, <2>5
    <3> QED
      BY <1>0, <2>0, <3>1
  <2>6. committed' <= offset'[owner']
    BY <1>0, <2>0, <2>1, <2>2
  <2> QED
    BY <2>4, <2>5, <2>6
<1>8. ASSUME NEW i \in Instances, Restart(i) \/ Evict(i) PROVE AllPlacedRightly'
  BY <1>0, <1>8 DEF Restart, Evict, Assign
<1>9. CASE UNCHANGED listenerVars
  BY <1>0, <1>9 DEF listenerVars
<1> QED
  BY <1>1, <1>2, <1>3, <1>4, <1>5, <1>6, <1>7, <1>8, <1>9 DEF ListenerNext, Loop

\* A step settles no record but the one its instance is at, behind which all is
\* settled.
LEMMA ListenerNext_InOrder == ListenerInv /\ [ListenerNext]_listenerVars => SettledInOrder'
<1> SUFFICES ASSUME ListenerInv, [ListenerNext]_listenerVars PROVE SettledInOrder'
  OBVIOUS
<1>0. ListenerTypeOK /\ AllPlacedRightly /\ SettledInOrder
  BY DEF ListenerInv
<1> DEFINE All == done \cup givenUp
<1>1. \/ All' = All
      \/ \E i \in Instances : at[i] = "listener" /\ All' = All \cup {offset[i]}
  <2>1. ASSUME NEW i \in Instances, ListenerReturns(i)
        PROVE  at[i] = "listener" /\ All' = All \cup {offset[i]}
    BY <2>1 DEF ListenerReturns, Move
  <2>2. ASSUME NEW i \in Instances, Recover(i)
        PROVE  at[i] = "listener" /\ All' = All \cup {offset[i]}
    BY <2>2 DEF Recover, Throws, Move
  <2>3. ASSUME NEW i \in Instances, SeekBack(i)
        PROVE  at[i] = "listener" /\ All' \in {All, All \cup {offset[i]}}
    BY <2>3 DEF SeekBack, Throws, Move
  <2>4. ASSUME NEW i \in Instances, Poll(i) \/ NextRecord(i) \/ Commit(i) PROVE All' = All
    BY <2>4 DEF Poll, NextRecord, Commit, GoOn
  <2>5. ASSUME NEW i \in Instances, Restart(i) \/ Evict(i) PROVE All' = All
    BY <2>5 DEF Restart, Evict, Assign
  <2>6. CASE Produce \/ UNCHANGED listenerVars
    BY <2>6 DEF Produce, listenerVars
  <2> QED
    BY <2>1, <2>2, <2>3, <2>4, <2>5, <2>6 DEF ListenerNext, Loop
<1>2. CASE All' = All
  BY <1>0, <1>2 DEF SettledInOrder
<1>3. ASSUME NEW i \in Instances, at[i] = "listener", All' = All \cup {offset[i]}
      PROVE  SettledInOrder'
  <2>1. offset[i] \in Offsets
    BY <1>3, InHandIsARecord
  <2>2. \A p \in 0..offset[i] : p \in All \cup {offset[i]}
    BY <1>0, <2>1, ListenerInputs DEF AllPlacedRightly, PlacedRightly, Settled, Offsets
  <2> QED
    BY <1>0, <1>3, <2>2 DEF SettledInOrder
<1> QED
  BY <1>1, <1>2, <1>3

\* The invariant of the listeners, from which the theorems follow.
LEMMA ListenerInvHolds == ListenerSpec => []ListenerInv
<1>1. ListenerInv /\ [ListenerNext]_listenerVars => ListenerInv'
  BY ListenerNext_Type, ListenerNext_Placed, ListenerNext_InOrder DEF ListenerInv
<1> QED
  BY <1>1, ListenerInit_Inv, PTL DEF ListenerSpec

---------------------------------------------------------------------------
\* The listeners keep their types: no offset passes the end of the partition, no
\* record that does not parse is processed or given up.
THEOREM ListenerTypeCorrect == ListenerSpec => []ListenerTypeOK
<1>1. ListenerInv => ListenerTypeOK
  BY DEF ListenerInv
<1> QED
  BY <1>1, ListenerInvHolds, PTL

\* With AckMode.RECORD nothing is committed that was neither processed nor given
\* up, however often instances restart or are evicted.
THEOREM ListenersSkipNothing == ListenerSpec => []CommittedIsSettled
<1>1. ListenerInv => CommittedIsSettled
  BY ListenerInputs DEF ListenerInv, ListenerTypeOK, AllPlacedRightly, PlacedRightly,
                        CommittedIsSettled, Settled, Offsets
<1> QED
  BY <1>1, ListenerInvHolds, PTL

\* Seeking back to a failed record keeps the order in which records are settled.
THEOREM ListenersKeepTheOrder == ListenerSpec => []SettledInOrder
<1>1. ListenerInv => SettledInOrder
  BY DEF ListenerInv
<1> QED
  BY <1>1, ListenerInvHolds, PTL

\* No commit takes the group back: the owner is never behind what is committed, and
\* the broker refuses those of the others.
THEOREM CommitsMoveForward == ListenerSpec => CommittedOnlyGrows
<1>1. ListenerInv /\ [ListenerNext]_listenerVars
        => [committed' >= committed]_listenerVars
  <2> SUFFICES ASSUME ListenerInv, [ListenerNext]_listenerVars PROVE committed' >= committed
    OBVIOUS
  <2>0. /\ committed \in Nat /\ committed <= offset[owner] /\ offset[owner] \in Nat
        /\ committed >= committed
    BY ListenerInputs DEF ListenerInv, ListenerTypeOK, AllPlacedRightly
  <2>1. ASSUME NEW i \in Instances, Commit(i) PROVE committed' >= committed
    BY <2>0, <2>1 DEF Commit
  <2>2. ASSUME NEW i \in Instances,
               \/ Poll(i) \/ NextRecord(i) \/ ListenerReturns(i)
               \/ SeekBack(i) \/ Recover(i) \/ Restart(i) \/ Evict(i)
        PROVE  committed' = committed
    BY <2>2 DEF Poll, NextRecord, ListenerReturns, SeekBack, Recover, Throws, Restart,
                Evict, Assign
  <2>3. CASE Produce \/ UNCHANGED listenerVars
    BY <2>0, <2>3 DEF Produce, listenerVars
  <2> QED
    BY <2>0, <2>1, <2>2, <2>3 DEF ListenerNext, Loop
<1> QED
  BY <1>1, ListenerInvHolds, PTL DEF ListenerSpec, CommittedOnlyGrows
===========================================================================
