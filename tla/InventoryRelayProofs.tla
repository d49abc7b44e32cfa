------------------------ MODULE InventoryRelayProofs ------------------------
(***************************************************************************)
(* The relay of inventory-service for any number of instances, events,     *)
(* retries and faults.  Two instances may send and mark the same events,   *)
(* and a mark decides between FAILED and DEAD_LETTER on a count that was   *)
(* read long before; it is right all the same, as counts only grow and a   *)
(* row never counts more failures than there were.                         *)
(***************************************************************************)
EXTENDS InventoryRelay, FiniteSetTheorems, TLAPS

\* What relay() remembers between its steps is true of the events it found.
RemembersRightly(r) ==
    /\ stage[r] = "idle" => batch[r] = {}
    /\ \A event \in batch[r] :
         /\ rows[event.id] # NoRow
         /\ event.retries <= rows[event.id].retries
         /\ stage[r] = "sent" /\ First(r, event) => event.id \in topic
         /\ stage[r] = "failed" /\ First(r, event) => event.retries + 1 <= failures[event.id]

\* A transaction writes rows that exist, never lowers a count, settles for cause,
\* and leaves PROCESSING only what is still to be sent.
WritesRightly(r) ==
    /\ stage[r] \in {"idle", "found"} => writes[r] = NoWrites
    /\ \A e \in Events : writes[r][e] # Untouched =>
         /\ rows[e] # NoRow
         /\ rows[e].retries <= writes[r][e].retries
         /\ writes[r][e].status = "PROCESSING" => e \in Ids(r)
         /\ writes[r][e].status = "SENT" => e \in topic
         /\ writes[r][e].status = "DEAD_LETTER" => failures[e] >= MaxRetries

\* No two transactions have changed the same row.
LocksExclude ==
    \A e \in Events : \A r, s \in Relays :
        writes[r][e] # Untouched /\ writes[s][e] # Untouched => r = s

\* The relays that are about to mark a failure of e.
Failing(e) ==
    {r \in Relays : stage[r] = "failed" /\ \E event \in batch[r] : First(r, event) /\ event.id = e}

\* A row, as any transaction sees it, has counted no failure of those still to be
\* marked, and none that was not there.
CountsRightly ==
    \A e \in Events :
        /\ rows[e].retries + Cardinality(Failing(e)) <= failures[e]
        /\ \A r \in Relays : RowIn(r, e).retries + Cardinality(Failing(e)) <= failures[e]

RelayInv ==
    /\ InventoryRelayTypeOK
    /\ \A r \in Relays : RemembersRightly(r) /\ WritesRightly(r)
    /\ LocksExclude
    /\ CountsRightly
    /\ SettledForCause

---------------------------------------------------------------------------
\* How many relays there are of a kind.
LEMMA Counting ==
    ASSUME NEW S \in SUBSET Relays
    PROVE  /\ Cardinality(S) \in Nat
           /\ \A T \in SUBSET S : Cardinality(T) \in Nat /\ Cardinality(T) <= Cardinality(S)
           /\ \A r \in S : Cardinality(S \ {r}) = Cardinality(S) - 1
           /\ \A r \in Relays : Cardinality(S \cup {r}) <= Cardinality(S) + 1
<1>1. IsFiniteSet(S)
  BY InventoryRelayInputs, FS_Subset
<1>2. Cardinality(S) \in Nat
  BY <1>1, FS_CardinalityType
<1>3. ASSUME NEW T \in SUBSET S
      PROVE  Cardinality(T) \in Nat /\ Cardinality(T) <= Cardinality(S)
  BY <1>1, FS_Subset, FS_CardinalityType
<1>4. ASSUME NEW r \in S PROVE Cardinality(S \ {r}) = Cardinality(S) - 1
  BY <1>1, FS_RemoveElement
<1>5. ASSUME NEW r \in Relays PROVE Cardinality(S \cup {r}) <= Cardinality(S) + 1
  BY <1>1, <1>2, FS_AddElement
<1> QED
  BY <1>2, <1>3, <1>4, <1>5

\* What findPendingEvents finds is pending.
LEMMA OldestIsPending == Oldest({e \in Events : Pending(e)}) \subseteq {e \in Events : Pending(e)}
  BY DEF Oldest

\* A relay is at one event at a time, however often it found it.
LEMMA FirstIsOne ==
    ASSUME InventoryRelayTypeOK, NEW r \in Relays, NEW a, NEW b, First(r, a), First(r, b)
    PROVE  a.id = b.id /\ a.id \in Events
<1>1. a \in [id: Events, retries: Counts] /\ b \in [id: Events, retries: Counts]
  BY DEF First, InventoryRelayTypeOK
<1>2. a.id \in Events /\ b.id \in Events /\ a.id <= b.id /\ b.id <= a.id
  BY <1>1 DEF First
<1> QED
  BY <1>2, InventoryRelayInputs DEF Events

---------------------------------------------------------------------------
\* The start: an empty table, idle relays.
LEMMA RelayInit_Inv == InventoryRelayInit => RelayInv
<1> SUFFICES ASSUME InventoryRelayInit PROVE RelayInv
  OBVIOUS
<1> USE InventoryRelayInputs DEF InventoryRelayInit, NoWrites
<1>1. InventoryRelayTypeOK
  BY DEF InventoryRelayTypeOK, Committed, Written, Settled, Counts, NoRow, Untouched
<1>2. ASSUME NEW r \in Relays PROVE RemembersRightly(r) /\ WritesRightly(r)
  BY <1>2 DEF RemembersRightly, WritesRightly
<1>3. CountsRightly
  <2>1. \A e \in Events : Failing(e) = {}
    BY DEF Failing
  <2>2. Cardinality({}) = 0
    BY FS_EmptySet
  <2>3. \A e \in Events : rows[e].retries = 0 /\ failures[e] = 0
    BY DEF NoRow
  <2>4. \A e \in Events : \A r \in Relays : RowIn(r, e) = rows[e]
    BY DEF RowIn
  <2> QED
    BY <2>1, <2>2, <2>3, <2>4 DEF CountsRightly
<1>4. LocksExclude /\ SettledForCause
  BY DEF LocksExclude, SettledForCause, NoRow
<1> QED
  BY <1>1, <1>2, <1>3, <1>4 DEF RelayInv
---------------------------------------------------------------------------
\* A mark for cause: a count on a row goes with a send that failed, SENT with one
\* that did not, DEAD_LETTER with as many failures as it takes.
MarksRightly(r, event) ==
    \E status \in {"SENT", "FAILED", "DEAD_LETTER"}, failed \in {0, 1} :
        /\ Mark(r, event, status, failed)
        /\ stage[r] \in {"sent", "failed"}
        /\ failed = 1 => stage[r] = "failed"
        /\ status = "SENT" => event.id \in topic
        /\ status = "DEAD_LETTER" => failures[event.id] >= MaxRetries

\* The steps of the relays: all marks are for cause.
LEMMA Steps ==
    ASSUME RelayInv, [InventoryRelayNext]_relayVars
    PROVE  \/ \E e \in Events : Save(e)
           \/ \E r \in Relays : \/ findPendingEvents(r) \/ lockEvents(r)
                                \/ Commit(r) \/ Rollback(r)
           \/ \E r \in Relays : \E event \in batch[r] : send(r, event) \/ MarksRightly(r, event)
           \/ UNCHANGED relayVars
<1>1. ASSUME NEW r \in Relays, NEW event \in batch[r],
             \/ markAsSent(r, event) \/ markAsFailed(r, event) \/ markAsDeadLetter(r, event)
      PROVE  MarksRightly(r, event)
  <2>1. RemembersRightly(r)
    BY DEF RelayInv
  <2>2. CASE markAsSent(r, event)
    BY <2>1, <2>2 DEF markAsSent, Mark, MarksRightly, RemembersRightly
  <2>3. CASE markAsFailed(r, event)
    BY <2>1, <2>3 DEF markAsFailed, Mark, MarksRightly, RemembersRightly
  <2>4. CASE markAsDeadLetter(r, event)
    <3>1. /\ event.retries \in Nat /\ failures[event.id] \in Nat
          /\ MaxRetries <= event.retries + 1
      BY <2>4, InventoryRelayInputs
      DEF markAsDeadLetter, LastRetry, RelayInv, InventoryRelayTypeOK, Counts
    <3>2. event.retries + 1 <= failures[event.id]
      BY <2>1, <2>4 DEF markAsDeadLetter, Mark, RemembersRightly
    <3>3. failures[event.id] >= MaxRetries
      BY <3>1, <3>2, InventoryRelayInputs
    <3> QED
      BY <2>4, <3>3 DEF markAsDeadLetter, MarksRightly
  <2> QED
    BY <1>1, <2>2, <2>3, <2>4
<1> QED
  BY <1>1 DEF InventoryRelayNext, relay

---------------------------------------------------------------------------
\* What a transaction sees of a row is a row.
LEMMA RowInIsARow ==
    ASSUME InventoryRelayTypeOK, NEW r \in Relays, NEW e \in Events
    PROVE  /\ rows[e].retries \in Counts
           /\ RowIn(r, e).retries \in Counts
           /\ writes[r][e] = Untouched => RowIn(r, e) = rows[e]
           /\ writes[r][e] # Untouched => RowIn(r, e) = writes[r][e]
           /\ writes[r][e] # Untouched =>
                writes[r][e] \in [status: {"PROCESSING"}, retries: Counts] \cup Settled
  BY InventoryRelayInputs
  DEF InventoryRelayTypeOK, RowIn, Committed, Written, Settled, Counts, NoRow

\* Every step keeps the types; a COMMIT leaves no row PROCESSING.
LEMMA RelayNext_Type == RelayInv /\ [InventoryRelayNext]_relayVars => InventoryRelayTypeOK'
<1> SUFFICES ASSUME RelayInv, [InventoryRelayNext]_relayVars PROVE InventoryRelayTypeOK'
  OBVIOUS
<1>0. InventoryRelayTypeOK
  BY DEF RelayInv
<1> USE InventoryRelayInputs DEF InventoryRelayTypeOK
<1>1. ASSUME NEW e \in Events, Save(e) PROVE InventoryRelayTypeOK'
  BY <1>0, <1>1 DEF Save, Committed, Settled, NoRow, Counts
<1>2. ASSUME NEW r \in Relays, findPendingEvents(r) PROVE InventoryRelayTypeOK'
  <2>1. \A e \in Events : rows[e].retries \in Counts
    BY <1>0, RowInIsARow, <1>2
  <2> DEFINE found == Oldest({e \in Events : Pending(e)})
             read == {[id |-> e, retries |-> rows[e].retries] : e \in found}
  <2>2. read \in SUBSET [id: Events, retries: Counts]
    <3>1. found \subseteq Events
      BY OldestIsPending
    <3> HIDE DEF found
    <3>2. \A e \in found : [id |-> e, retries |-> rows[e].retries] \in [id: Events, retries: Counts]
      BY <2>1, <3>1
    <3> QED
      BY <3>2
  <2>3. batch' = [batch EXCEPT ![r] = read] /\ stage' = [stage EXCEPT ![r] = "found"]
    BY <1>2 DEF findPendingEvents
  <2>4. UNCHANGED <<rows, writes, topic, failures, faults>>
    BY <1>2 DEF findPendingEvents
  <2> HIDE DEF read
  <2> QED
    BY <1>0, <2>2, <2>3, <2>4
<1>3. ASSUME NEW r \in Relays, lockEvents(r) PROVE InventoryRelayTypeOK'
  <2>1. \A e \in Events : Pending(e) => [rows[e] EXCEPT !.status = "PROCESSING"] \in Written
    BY <1>0 DEF Pending, Committed, Settled, Written, NoRow
  <2>2. Untouched \in Written
    BY DEF Written
  <2> QED
    BY <1>0, <1>3, <2>1, <2>2 DEF lockEvents
<1>4. ASSUME NEW r \in Relays, NEW event \in batch[r], send(r, event)
      PROVE  InventoryRelayTypeOK'
  <2>1. event.id \in Events
    BY <1>0, <1>4
  <2>2. topic' \subseteq Events
    BY <1>0, <1>4, <2>1 DEF send
  <2>3. stage' \in [Relays -> {"idle", "found", "locked", "sent", "failed"}]
    BY <1>0, <1>4 DEF send
  <2>4. failures' \in [Events -> Nat]
    <3>1. CASE UNCHANGED failures
      BY <1>0, <3>1
    <3>2. CASE failures' = [failures EXCEPT ![event.id] = @ + 1]
      BY <1>0, <2>1, <3>2
    <3> QED
      BY <1>4, <3>1, <3>2 DEF send
  <2> QED
    BY <1>0, <1>4, <2>2, <2>3, <2>4 DEF send
<1>5. ASSUME NEW r \in Relays, NEW event \in batch[r], MarksRightly(r, event)
      PROVE  InventoryRelayTypeOK'
  <2>1. PICK status \in {"SENT", "FAILED", "DEAD_LETTER"}, failed \in {0, 1} :
               Mark(r, event, status, failed)
    BY <1>5 DEF MarksRightly
  <2>2. event.id \in Events /\ RowIn(r, event.id).retries + failed \in Counts
    BY <1>0, <2>1, RowInIsARow DEF Mark, Counts
  <2>3. [status |-> status, retries |-> RowIn(r, event.id).retries + failed] \in Written
    BY <2>2 DEF Written, Settled
  <2> QED
    BY <1>0, <2>1, <2>2, <2>3 DEF Mark
<1>6. ASSUME NEW r \in Relays, Commit(r) PROVE InventoryRelayTypeOK'
  <2>1. ASSUME NEW e \in Events PROVE RowIn(r, e) \in Committed
    <3>1. writes[r][e] # Untouched => writes[r][e].status # "PROCESSING"
      BY <1>6 DEF RelayInv, WritesRightly, Ids, Commit
    <3> QED
      BY <1>0, <3>1, RowInIsARow DEF Committed, Settled
  <2>2. NoWrites \in [Events -> Written]
    BY DEF NoWrites, Written
  <2> QED
    BY <1>0, <1>6, <2>1, <2>2 DEF Commit, Finish
<1>7. ASSUME NEW r \in Relays, Rollback(r) PROVE InventoryRelayTypeOK'
  <2>1. NoWrites \in [Events -> Written]
    BY DEF NoWrites, Written
  <2> QED
    BY <1>0, <1>7, <2>1 DEF Rollback, Finish
<1>8. CASE UNCHANGED relayVars
  BY <1>0, <1>8 DEF relayVars
<1> QED
  BY <1>1, <1>2, <1>3, <1>4, <1>5, <1>6, <1>7, <1>8, Steps
---------------------------------------------------------------------------
\* Every step leaves each relay with a right memory of its batch.
LEMMA RelayNext_Remembers ==
    ASSUME RelayInv, [InventoryRelayNext]_relayVars, NEW s \in Relays
    PROVE  RemembersRightly(s)'
<1>0. InventoryRelayTypeOK /\ RemembersRightly(s) /\ WritesRightly(s)
  BY DEF RelayInv
<1>T. /\ \A event \in batch[s] : event.id \in Events /\ event.retries \in Nat
      /\ \A e \in Events : rows[e].retries \in Nat /\ failures[e] \in Nat
  BY <1>0, RowInIsARow, InventoryRelayInputs DEF InventoryRelayTypeOK, Counts
<1> USE DEF InventoryRelayTypeOK
<1>1. ASSUME NEW e \in Events, Save(e) PROVE RemembersRightly(s)'
  <2>1. /\ rows[e] = NoRow /\ rows' = [rows EXCEPT ![e].status = "PENDING"]
        /\ UNCHANGED <<batch, stage, topic, failures>>
    BY <1>1 DEF Save
  <2>2. \A event \in batch[s] : rows'[event.id] = rows[event.id]
    BY <1>0, <1>T, <2>1 DEF RemembersRightly
  <2> QED
    BY <1>0, <2>1, <2>2 DEF RemembersRightly, First
<1>2. ASSUME NEW r \in Relays, findPendingEvents(r) PROVE RemembersRightly(s)'
  <2> DEFINE found == Oldest({e \in Events : Pending(e)})
  <2>1. \A e \in found : e \in Events /\ Pending(e)
    BY OldestIsPending
  <2>2. /\ batch' = [batch EXCEPT ![r] = {[id |-> e, retries |-> rows[e].retries] : e \in found}]
        /\ stage' = [stage EXCEPT ![r] = "found"] /\ UNCHANGED <<rows, topic, failures>>
    BY <1>2 DEF findPendingEvents
  <2> HIDE DEF found
  <2>3. CASE r = s
    <3>1. stage'[s] = "found"
      BY <1>0, <2>2, <2>3
    <3>2. ASSUME NEW event \in batch'[s]
          PROVE  rows[event.id] # NoRow /\ event.retries <= rows[event.id].retries
      <4>1. PICK e \in found : event = [id |-> e, retries |-> rows[e].retries]
        BY <1>0, <2>2, <2>3
      <4> QED
        BY <1>T, <2>1, <4>1 DEF Pending, NoRow
    <3> QED
      BY <2>2, <3>1, <3>2 DEF RemembersRightly
  <2>4. CASE r # s
    BY <1>0, <2>2, <2>4 DEF RemembersRightly, First
  <2> QED
    BY <2>3, <2>4
<1>3. ASSUME NEW r \in Relays, lockEvents(r) PROVE RemembersRightly(s)'
  <2>1. UNCHANGED <<rows, batch, topic, failures>> /\ stage' = [stage EXCEPT ![r] = "locked"]
    BY <1>3 DEF lockEvents
  <2> QED
    BY <1>0, <2>1 DEF RemembersRightly, First
<1>4. ASSUME NEW r \in Relays, NEW event \in batch[r], send(r, event)
      PROVE  RemembersRightly(s)'
  <2>1. /\ First(r, event) /\ topic \subseteq topic' /\ UNCHANGED <<rows, batch>>
        /\ \/ stage' = [stage EXCEPT ![r] = "sent"] /\ event.id \in topic' /\ UNCHANGED failures
           \/ /\ stage' = [stage EXCEPT ![r] = "failed"]
              /\ failures' = [failures EXCEPT ![event.id] = @ + 1]
    BY <1>4 DEF send
  <2>2. event.id \in Events
    BY <1>0
  <2>3. \A e \in Events : failures'[e] \in Nat /\ failures[e] <= failures'[e]
    BY <1>0, <1>T, <2>1, <2>2
  <2>4. CASE r # s
    <3>1. stage'[s] = stage[s] /\ batch'[s] = batch[s]
      BY <1>0, <2>1, <2>4
    <3> QED
      BY <1>0, <1>T, <2>1, <2>3, <3>1 DEF RemembersRightly, First
  <2>5. CASE r = s
    <3>1. \A other \in batch[s] : First(s, other) => other.id = event.id
      BY <1>0, <2>1, <2>5, FirstIsOne
    <3>2. rows[event.id].retries <= failures[event.id]
      <4>1. /\ rows[event.id].retries + Cardinality(Failing(event.id)) <= failures[event.id]
            /\ rows[event.id].retries \in Nat /\ failures[event.id] \in Nat
        BY <1>T, <2>2 DEF RelayInv, CountsRightly
      <4>2. Failing(event.id) \in SUBSET Relays
        BY DEF Failing
      <4>3. Cardinality(Failing(event.id)) \in Nat
        BY <4>2, Counting
      <4> QED
        BY <4>1, <4>3
    <3>3. \A other \in batch[s] :
            /\ other.id \in Events /\ rows[other.id] # NoRow
            /\ other.retries <= rows[other.id].retries
      BY <1>0, <1>T DEF RemembersRightly
    <3>4. CASE stage' = [stage EXCEPT ![r] = "sent"] /\ event.id \in topic' /\ UNCHANGED failures
      BY <1>0, <2>1, <2>5, <3>1, <3>3, <3>4 DEF RemembersRightly, First
    <3>5. CASE /\ stage' = [stage EXCEPT ![r] = "failed"]
               /\ failures' = [failures EXCEPT ![event.id] = @ + 1]
      <4>1. failures'[event.id] = failures[event.id] + 1 /\ stage'[s] = "failed"
        BY <1>0, <2>2, <2>5, <3>5
      <4>2. \A other \in batch[s] :
              First(s, other) => other.retries + 1 <= failures'[other.id]
        BY <1>T, <2>2, <3>1, <3>2, <3>3, <4>1
      <4> QED
        BY <2>1, <3>3, <4>1, <4>2 DEF RemembersRightly, First
    <3> QED
      BY <2>1, <3>4, <3>5
  <2> QED
    BY <2>4, <2>5
<1>5. ASSUME NEW r \in Relays, NEW event \in batch[r], MarksRightly(r, event)
      PROVE  RemembersRightly(s)'
  <2>1. /\ batch' = [batch EXCEPT ![r] = @ \ {event}]
        /\ stage' = [stage EXCEPT ![r] = "locked"] /\ stage[r] # "idle"
        /\ UNCHANGED <<rows, topic, failures>>
    BY <1>5 DEF MarksRightly, Mark
  <2>2. CASE r = s
    <3>1. stage'[s] = "locked" /\ batch'[s] \subseteq batch[s]
      BY <1>0, <2>1, <2>2
    <3> QED
      BY <1>0, <2>1, <3>1 DEF RemembersRightly
  <2>3. CASE r # s
    BY <1>0, <2>1, <2>3 DEF RemembersRightly, First
  <2> QED
    BY <2>2, <2>3
<1>6. ASSUME NEW r \in Relays, Commit(r) PROVE RemembersRightly(s)'
  <2>1. /\ rows' = [e \in Events |-> RowIn(r, e)]
        /\ batch' = [batch EXCEPT ![r] = {}] /\ stage' = [stage EXCEPT ![r] = "idle"]
        /\ UNCHANGED <<topic, failures>>
    BY <1>6 DEF Commit, Finish
  <2>2. \A e \in Events : rows[e] # NoRow =>
          rows'[e] # NoRow /\ rows[e].retries <= rows'[e].retries /\ rows'[e].retries \in Nat
    <3> SUFFICES ASSUME NEW e \in Events, rows[e] # NoRow
                 PROVE  /\ RowIn(r, e) # NoRow /\ rows[e].retries <= RowIn(r, e).retries
                        /\ RowIn(r, e).retries \in Nat
      BY <2>1
    <3>1. CASE writes[r][e] = Untouched
      BY <1>0, <1>T, <3>1, RowInIsARow
    <3>2. CASE writes[r][e] # Untouched
      <4>1. RowIn(r, e) = writes[r][e] /\ RowIn(r, e).retries \in Counts
        BY <1>0, <3>2, RowInIsARow
      <4>2. writes[r][e] \in [status: {"PROCESSING"}, retries: Counts] \cup Settled
        BY <1>0, <3>2, RowInIsARow
      <4>3. rows[e].retries <= writes[r][e].retries
        BY <3>2 DEF RelayInv, WritesRightly
      <4> QED
        BY <4>1, <4>2, <4>3, InventoryRelayInputs DEF NoRow, Settled, Counts
    <3> QED
      BY <3>1, <3>2
  <2>3. (stage'[s] = "idle" /\ batch'[s] = {}) \/ (stage'[s] = stage[s] /\ batch'[s] = batch[s])
    BY <1>0, <2>1
  <2> QED
    BY <1>0, <1>T, <2>1, <2>2, <2>3 DEF RemembersRightly, First
<1>7. ASSUME NEW r \in Relays, Rollback(r) PROVE RemembersRightly(s)'
  <2>1. /\ batch' = [batch EXCEPT ![r] = {}] /\ stage' = [stage EXCEPT ![r] = "idle"]
        /\ UNCHANGED <<rows, topic, failures>>
    BY <1>7 DEF Rollback, Finish
  <2> QED
    BY <1>0, <2>1 DEF RemembersRightly, First
<1>8. CASE UNCHANGED relayVars
  BY <1>0, <1>8 DEF relayVars, RemembersRightly, First
<1> QED
  BY <1>1, <1>2, <1>3, <1>4, <1>5, <1>6, <1>7, <1>8, Steps
---------------------------------------------------------------------------
\* Every step leaves each transaction with writes that are right.
LEMMA RelayNext_Writes ==
    ASSUME RelayInv, [InventoryRelayNext]_relayVars, NEW s \in Relays
    PROVE  WritesRightly(s)'
<1>0. InventoryRelayTypeOK /\ RemembersRightly(s) /\ WritesRightly(s)
  BY DEF RelayInv
<1>T. \A e \in Events : rows[e].retries \in Nat /\ failures[e] \in Nat
  BY <1>0, RowInIsARow, InventoryRelayInputs DEF InventoryRelayTypeOK, Counts
<1> USE DEF InventoryRelayTypeOK
<1>1. ASSUME NEW e \in Events, Save(e) PROVE WritesRightly(s)'
  <2>1. /\ rows[e] = NoRow /\ rows' = [rows EXCEPT ![e].status = "PENDING"]
        /\ UNCHANGED <<batch, stage, writes, topic, failures>>
    BY <1>1 DEF Save
  <2>2. \A d \in Events : writes[s][d] # Untouched => rows'[d] = rows[d]
    BY <1>0, <2>1 DEF WritesRightly
  <2> QED
    BY <1>0, <2>1, <2>2 DEF WritesRightly, Ids
<1>2. ASSUME NEW r \in Relays, findPendingEvents(r) PROVE WritesRightly(s)'
  <2>1. /\ stage[r] = "idle" /\ stage' = [stage EXCEPT ![r] = "found"]
        /\ \A q \in Relays : q # r => batch'[q] = batch[q]
        /\ UNCHANGED <<rows, writes, topic, failures>>
    BY <1>0, <1>2 DEF findPendingEvents
  <2>2. CASE r = s
    <3>1. writes'[s] = NoWrites
      BY <1>0, <2>1, <2>2 DEF WritesRightly
    <3> QED
      BY <3>1 DEF WritesRightly, NoWrites
  <2>3. CASE r # s
    BY <1>0, <2>1, <2>3 DEF WritesRightly, Ids
  <2> QED
    BY <2>2, <2>3
<1>3. ASSUME NEW r \in Relays, lockEvents(r) PROVE WritesRightly(s)'
  <2>1. /\ stage' = [stage EXCEPT ![r] = "locked"] /\ UNCHANGED <<rows, batch, topic, failures>>
        /\ writes' = [writes EXCEPT ![r] = [e \in Events |->
                IF e \in Ids(r) /\ Pending(e) THEN [rows[e] EXCEPT !.status = "PROCESSING"]
                                             ELSE Untouched]]
    BY <1>3 DEF lockEvents
  <2>2. CASE r = s
    <3>1. stage'[s] = "locked"
      BY <1>0, <2>1, <2>2
    <3>2. ASSUME NEW e \in Events, writes'[s][e] # Untouched
          PROVE  /\ e \in Ids(s) /\ rows[e] # NoRow
                 /\ writes'[s][e].status = "PROCESSING"
                 /\ writes'[s][e].retries = rows[e].retries
      <4>1. e \in Ids(s) /\ Pending(e) /\ writes'[s][e] = [rows[e] EXCEPT !.status = "PROCESSING"]
        BY <1>0, <2>1, <2>2, <3>2
      <4>2. rows[e] \in Committed
        BY <1>0
      <4> QED
        BY <4>1, <4>2 DEF Pending, Committed, Settled, NoRow
    <3> QED
      BY <1>T, <2>1, <3>1, <3>2 DEF WritesRightly, Ids
  <2>3. CASE r # s
    BY <1>0, <2>1, <2>3 DEF WritesRightly, Ids
  <2> QED
    BY <2>2, <2>3
<1>4. ASSUME NEW r \in Relays, NEW event \in batch[r], send(r, event)
      PROVE  WritesRightly(s)'
  <2>1. /\ stage[r] = "locked" /\ topic \subseteq topic' /\ UNCHANGED <<rows, batch, writes>>
        /\ \E to \in {"sent", "failed"} : stage' = [stage EXCEPT ![r] = to]
        /\ \/ failures' = failures
           \/ failures' = [failures EXCEPT ![event.id] = @ + 1]
    BY <1>4 DEF send
  <2>2. \A e \in Events : failures'[e] \in Nat /\ failures[e] <= failures'[e]
    BY <1>0, <1>T, <2>1
  <2>3. stage'[s] \in {"idle", "found"} => stage[s] \in {"idle", "found"}
    BY <1>0, <2>1
  <2> QED
    BY <1>0, <1>T, <2>1, <2>2, <2>3, InventoryRelayInputs DEF WritesRightly, Ids
<1>5. ASSUME NEW r \in Relays, NEW event \in batch[r], MarksRightly(r, event)
      PROVE  WritesRightly(s)'
  <2>1. PICK status \in {"SENT", "FAILED", "DEAD_LETTER"}, failed \in {0, 1} :
               /\ Mark(r, event, status, failed)
               /\ status = "SENT" => event.id \in topic
               /\ status = "DEAD_LETTER" => failures[event.id] >= MaxRetries
    BY <1>5 DEF MarksRightly
  <2> DEFINE e == event.id
             row == [status |-> status, retries |-> RowIn(r, e).retries + failed]
  <2>2. /\ writes' = [writes EXCEPT ![r][e] = row]
        /\ batch' = [batch EXCEPT ![r] = @ \ {event}]
        /\ stage' = [stage EXCEPT ![r] = "locked"]
        /\ UNCHANGED <<rows, topic, failures>>
    BY <2>1 DEF Mark
  <2>3. CASE r = s
    <3>1. stage'[s] = "locked" /\ e \in Events
      BY <1>0, <2>2, <2>3
    <3>2. writes'[s] = [writes[s] EXCEPT ![e] = row]
      BY <1>0, <2>2, <2>3
    <3>3. rows[e] # NoRow
      BY <1>0, <2>3 DEF RemembersRightly
    <3>4. rows[e].retries <= row.retries
      <4>1. rows[e].retries <= RowIn(s, e).retries /\ RowIn(s, e).retries \in Nat
        <5>1. CASE writes[s][e] = Untouched
          BY <1>0, <1>T, <3>1, <5>1, RowInIsARow
        <5>2. CASE writes[s][e] # Untouched
          BY <1>0, <3>1, <5>2, RowInIsARow, InventoryRelayInputs DEF WritesRightly, Counts
        <5> QED
          BY <5>1, <5>2
      <4> QED
        BY <1>T, <2>3, <3>1, <4>1
    <3>5. \A d \in Events : d # e /\ d \in Ids(s) => d \in Ids(s)'
      BY <1>0, <2>2, <2>3 DEF Ids
    <3>6. ASSUME NEW d \in Events, writes'[s][d] # Untouched
          PROVE  /\ rows[d] # NoRow
                 /\ rows[d].retries <= writes'[s][d].retries
                 /\ writes'[s][d].status = "PROCESSING" => d \in Ids(s)'
                 /\ writes'[s][d].status = "SENT" => d \in topic
                 /\ writes'[s][d].status = "DEAD_LETTER" => failures[d] >= MaxRetries
      <4>1. CASE d = e
        <5>1. writes'[s][d] = row
          BY <1>0, <3>1, <3>2, <4>1
        <5> QED
          BY <2>1, <3>3, <3>4, <4>1, <5>1
      <4>2. CASE d # e
        <5>1. writes'[s][d] = writes[s][d]
          BY <1>0, <3>2, <4>2
        <5> QED
          BY <1>0, <3>5, <3>6, <4>2, <5>1 DEF WritesRightly
      <4> QED
        BY <4>1, <4>2
    <3> QED
      BY <2>2, <3>1, <3>6 DEF WritesRightly
  <2>4. CASE r # s
    BY <1>0, <2>2, <2>4 DEF WritesRightly, Ids
  <2> QED
    BY <2>3, <2>4
<1>6. ASSUME NEW r \in Relays, Commit(r) PROVE WritesRightly(s)'
  <2>1. /\ rows' = [e \in Events |-> RowIn(r, e)] /\ writes' = [writes EXCEPT ![r] = NoWrites]
        /\ batch' = [batch EXCEPT ![r] = {}] /\ stage' = [stage EXCEPT ![r] = "idle"]
        /\ UNCHANGED <<topic, failures>>
    BY <1>6 DEF Commit, Finish
  <2>2. CASE r = s
    <3>1. writes'[s] = NoWrites
      BY <1>0, <2>1, <2>2
    <3> QED
      BY <3>1 DEF WritesRightly, NoWrites
  <2>3. CASE r # s
    <3>1. \A e \in Events : writes[s][e] # Untouched => rows'[e] = rows[e]
      BY <1>0, <2>1, <2>3, RowInIsARow DEF RelayInv, LocksExclude
    <3>2. writes'[s] = writes[s] /\ batch'[s] = batch[s] /\ stage'[s] = stage[s]
      BY <1>0, <2>1, <2>3
    <3> QED
      BY <1>0, <2>1, <3>1, <3>2 DEF WritesRightly, Ids
  <2> QED
    BY <2>2, <2>3
<1>7. ASSUME NEW r \in Relays, Rollback(r) PROVE WritesRightly(s)'
  <2>1. /\ writes' = [writes EXCEPT ![r] = NoWrites] /\ batch' = [batch EXCEPT ![r] = {}]
        /\ stage' = [stage EXCEPT ![r] = "idle"] /\ UNCHANGED <<rows, topic, failures>>
    BY <1>7 DEF Rollback, Finish
  <2>2. CASE r = s
    BY <1>0, <2>1, <2>2 DEF WritesRightly, NoWrites
  <2>3. CASE r # s
    BY <1>0, <2>1, <2>3 DEF WritesRightly, Ids
  <2> QED
    BY <2>2, <2>3
<1>8. CASE UNCHANGED relayVars
  BY <1>0, <1>8 DEF relayVars, WritesRightly, Ids
<1> QED
  BY <1>1, <1>2, <1>3, <1>4, <1>5, <1>6, <1>7, <1>8, Steps
---------------------------------------------------------------------------
\* Every step leaves a row changed by one transaction at most.
LEMMA RelayNext_Locks == RelayInv /\ [InventoryRelayNext]_relayVars => LocksExclude'
<1> SUFFICES ASSUME RelayInv, [InventoryRelayNext]_relayVars PROVE LocksExclude'
  OBVIOUS
<1>0. InventoryRelayTypeOK /\ LocksExclude
  BY DEF RelayInv
<1> USE DEF InventoryRelayTypeOK, LocksExclude
<1>1. CASE UNCHANGED writes
  BY <1>0, <1>1
<1>2. ASSUME NEW r \in Relays, NEW w, writes' = [writes EXCEPT ![r] = w],
             \A e \in Events : w[e] # Untouched => writes[r][e] # Untouched \/ ~LockedByOther(r, e)
      PROVE  LocksExclude'
  BY <1>0, <1>2 DEF LockedByOther
<1>3. ASSUME NEW r \in Relays, lockEvents(r) PROVE LocksExclude'
  <2> DEFINE w == [e \in Events |-> IF e \in Ids(r) /\ Pending(e)
                                    THEN [rows[e] EXCEPT !.status = "PROCESSING"]
                                    ELSE Untouched]
  <2>1. writes' = [writes EXCEPT ![r] = w] /\ \A e \in Ids(r) : ~LockedByOther(r, e)
    BY <1>3 DEF lockEvents
  <2>2. \A e \in Events : w[e] # Untouched => ~LockedByOther(r, e)
    BY <2>1
  <2> HIDE DEF w
  <2> QED
    BY <1>2, <2>1, <2>2
<1>4. ASSUME NEW r \in Relays, NEW event \in batch[r], MarksRightly(r, event)
      PROVE  LocksExclude'
  <2>1. PICK row : /\ writes' = [writes EXCEPT ![r][event.id] = row]
                   /\ ~LockedByOther(r, event.id)
    BY <1>4 DEF MarksRightly, Mark
  <2> DEFINE w == [writes[r] EXCEPT ![event.id] = row]
  <2>2. writes' = [writes EXCEPT ![r] = w]
    BY <2>1
  <2>3. \A e \in Events : w[e] # Untouched => writes[r][e] # Untouched \/ ~LockedByOther(r, e)
    BY <1>0, <2>1
  <2> HIDE DEF w
  <2> QED
    BY <1>2, <2>2, <2>3
<1>5. ASSUME NEW r \in Relays, Commit(r) \/ Rollback(r) PROVE LocksExclude'
  <2>1. writes' = [writes EXCEPT ![r] = NoWrites]
    BY <1>5 DEF Commit, Rollback, Finish
  <2>2. \A e \in Events : NoWrites[e] = Untouched
    BY DEF NoWrites
  <2> QED
    BY <1>2, <2>1, <2>2
<1>6. ASSUME NEW r \in Relays, findPendingEvents(r) PROVE LocksExclude'
  BY <1>1, <1>6 DEF findPendingEvents
<1> QED
  BY <1>1, <1>3, <1>4, <1>5, <1>6, Steps DEF Save, send, relayVars

---------------------------------------------------------------------------
\* A step that adds no relay to those about to mark a failure of e, and leaves what
\* every transaction sees of e as it was seen before by some, counts rightly.
LEMMA CountsStay ==
    ASSUME InventoryRelayTypeOK, CountsRightly, NEW e \in Events,
           Failing(e)' \subseteq Failing(e), UNCHANGED failures,
           \A x \in {rows[e]'} \cup {RowIn(r, e)' : r \in Relays} :
              \/ x.retries = rows[e].retries
              \/ \E r \in Relays : x.retries = RowIn(r, e).retries
    PROVE  /\ rows'[e].retries + Cardinality(Failing(e)') <= failures'[e]
           /\ \A r \in Relays : RowIn(r, e)'.retries + Cardinality(Failing(e)') <= failures'[e]
<1>1. /\ Cardinality(Failing(e)) \in Nat /\ Cardinality(Failing(e)') \in Nat
      /\ Cardinality(Failing(e)') <= Cardinality(Failing(e))
  <2>1. Failing(e) \in SUBSET Relays /\ Failing(e)' \in SUBSET Failing(e)
    BY DEF Failing
  <2> QED
    BY <2>1, Counting
<1>2. /\ failures[e] \in Nat /\ rows[e].retries \in Nat
      /\ \A r \in Relays : RowIn(r, e).retries \in Nat
  <2>1. failures[e] \in Nat /\ rows[e].retries \in Nat
    BY InventoryRelayInputs DEF InventoryRelayTypeOK, Committed, Settled, NoRow, Counts
  <2>2. ASSUME NEW r \in Relays PROVE RowIn(r, e).retries \in Nat
    BY <2>2, RowInIsARow, InventoryRelayInputs DEF Counts
  <2> QED
    BY <2>1, <2>2
<1>3. ASSUME NEW x \in {rows[e]'} \cup {RowIn(r, e)' : r \in Relays}
      PROVE  x.retries + Cardinality(Failing(e)') <= failures[e]
  <2>1. CASE x.retries = rows[e].retries
    BY <1>1, <1>2, <2>1 DEF CountsRightly
  <2>2. ASSUME NEW r \in Relays, x.retries = RowIn(r, e).retries
        PROVE  x.retries + Cardinality(Failing(e)') <= failures[e]
    BY <1>1, <1>2, <2>2 DEF CountsRightly
  <2> QED
    BY <1>3, <2>1, <2>2
<1> QED
  BY <1>3

\* Every step counts rightly: a failure is counted when a relay that was about to
\* mark one has marked it, and only then.
LEMMA RelayNext_Counts == RelayInv /\ [InventoryRelayNext]_relayVars => CountsRightly'
<1> SUFFICES ASSUME RelayInv, [InventoryRelayNext]_relayVars, NEW e \in Events
             PROVE  /\ rows'[e].retries + Cardinality(Failing(e)') <= failures'[e]
                    /\ \A q \in Relays :
                         RowIn(q, e)'.retries + Cardinality(Failing(e)') <= failures'[e]
  BY DEF CountsRightly
<1> DEFINE Right == /\ rows'[e].retries + Cardinality(Failing(e)') <= failures'[e]
                    /\ \A q \in Relays :
                         RowIn(q, e)'.retries + Cardinality(Failing(e)') <= failures'[e]
<1>0. InventoryRelayTypeOK /\ CountsRightly /\ LocksExclude
  BY DEF RelayInv
<1>T. /\ failures[e] \in Nat /\ rows[e].retries \in Nat
      /\ \A q \in Relays : RowIn(q, e).retries \in Nat
  <2>1. failures[e] \in Nat /\ rows[e].retries \in Nat
    BY <1>0, InventoryRelayInputs DEF InventoryRelayTypeOK, Committed, Settled, NoRow, Counts
  <2>2. ASSUME NEW q \in Relays PROVE RowIn(q, e).retries \in Nat
    BY <1>0, <2>2, RowInIsARow, InventoryRelayInputs DEF Counts
  <2> QED
    BY <2>1, <2>2
<1>C. Failing(e) \in SUBSET Relays /\ Cardinality(Failing(e)) \in Nat
  BY Counting DEF Failing
<1> USE DEF InventoryRelayTypeOK
<1>1. ASSUME NEW d \in Events, Save(d) PROVE Right
  <2>1. rows'[e].retries = rows[e].retries /\ UNCHANGED <<batch, stage, writes, failures>>
    BY <1>0, <1>1 DEF Save
  <2>2. Failing(e)' = Failing(e)
    BY <2>1 DEF Failing, First
  <2>3. \A q \in Relays : RowIn(q, e)'.retries = RowIn(q, e).retries
    BY <2>1 DEF RowIn
  <2> QED
    BY <1>0, <2>1, <2>2, <2>3 DEF CountsRightly
<1>2. ASSUME NEW r \in Relays, findPendingEvents(r) PROVE Right
  <2>1. /\ stage' = [stage EXCEPT ![r] = "found"] /\ UNCHANGED <<rows, writes, failures>>
        /\ \A q \in Relays : q # r => batch'[q] = batch[q]
    BY <1>0, <1>2 DEF findPendingEvents
  <2>2. Failing(e)' \subseteq Failing(e)
    BY <1>0, <2>1 DEF Failing, First
  <2>3. rows'[e] = rows[e] /\ \A q \in Relays : RowIn(q, e)' = RowIn(q, e)
    BY <2>1 DEF RowIn
  <2> QED
    BY <1>0, <2>1, <2>2, <2>3, CountsStay
<1>3. ASSUME NEW r \in Relays, lockEvents(r) PROVE Right
  <2>1. /\ stage' = [stage EXCEPT ![r] = "locked"] /\ UNCHANGED <<rows, batch, failures>>
        /\ writes' = [writes EXCEPT ![r] = [d \in Events |->
                IF d \in Ids(r) /\ Pending(d) THEN [rows[d] EXCEPT !.status = "PROCESSING"]
                                             ELSE Untouched]]
    BY <1>3 DEF lockEvents
  <2>2. Failing(e)' \subseteq Failing(e)
    BY <1>0, <2>1 DEF Failing, First
  <2>3. ASSUME NEW q \in Relays
        PROVE  \/ RowIn(q, e)'.retries = rows[e].retries
               \/ RowIn(q, e)'.retries = RowIn(q, e).retries
    <3>1. CASE q = r
      <4>1. \/ writes'[q][e] = Untouched
            \/ writes'[q][e] = [rows[e] EXCEPT !.status = "PROCESSING"]
        BY <1>0, <2>1, <3>1
      <4>2. rows[e] \in Committed /\ rows'[e] = rows[e]
        BY <1>0, <2>1
      <4> QED
        BY <4>1, <4>2 DEF RowIn, Committed, Settled, NoRow
    <3>2. CASE q # r
      BY <1>0, <2>1, <3>2 DEF RowIn
    <3> QED
      BY <3>1, <3>2
  <2> QED
    BY <1>0, <2>1, <2>2, <2>3, CountsStay
<1>4. ASSUME NEW r \in Relays, NEW event \in batch[r], send(r, event) PROVE Right
  <2>1. /\ First(r, event) /\ stage[r] = "locked" /\ UNCHANGED <<rows, batch, writes>>
        /\ \/ stage' = [stage EXCEPT ![r] = "sent"] /\ UNCHANGED failures
           \/ /\ stage' = [stage EXCEPT ![r] = "failed"]
              /\ failures' = [failures EXCEPT ![event.id] = @ + 1]
    BY <1>4 DEF send
  <2>2. rows'[e] = rows[e] /\ \A q \in Relays : RowIn(q, e)' = RowIn(q, e)
    BY <2>1 DEF RowIn
  <2>3. CASE e # event.id \/ UNCHANGED failures
    <3>1. failures'[e] = failures[e]
      BY <1>0, <2>1, <2>3
    <3>2. Failing(e)' \subseteq Failing(e)
      <4>1. \A q \in Relays : First(q, event)' = First(q, event)
        BY <2>1 DEF First
      <4>2. \A other \in batch[r] : First(r, other) => other.id = event.id
        BY <1>0, <2>1, FirstIsOne
      <4>3. CASE UNCHANGED failures /\ stage' = [stage EXCEPT ![r] = "sent"]
        BY <1>0, <2>1, <4>3 DEF Failing, First
      <4>4. CASE stage' = [stage EXCEPT ![r] = "failed"] /\ e # event.id
        <5>1. ASSUME NEW q \in Failing(e)' PROVE q \in Failing(e)
          <6>1. CASE q = r
            BY <2>1, <4>2, <4>4, <6>1 DEF Failing, First
          <6>2. CASE q # r
            BY <1>0, <2>1, <4>4, <6>2 DEF Failing, First
          <6> QED
            BY <6>1, <6>2
        <5> QED
          BY <5>1
      <4> QED
        BY <1>0, <1>T, <2>1, <2>3, <4>3, <4>4
    <3>3. Cardinality(Failing(e)') \in Nat /\ Cardinality(Failing(e)') <= Cardinality(Failing(e))
      BY <1>C, <3>2, Counting
    <3> QED
      BY <1>0, <1>T, <1>C, <2>2, <3>1, <3>3 DEF CountsRightly
  <2>4. CASE e = event.id /\ failures' = [failures EXCEPT ![event.id] = @ + 1]
    <3>1. failures'[e] = failures[e] + 1
      BY <1>0, <2>4
    <3>2. Failing(e)' \subseteq Failing(e) \cup {r}
      BY <1>0, <2>1 DEF Failing, First
    <3>3. Cardinality(Failing(e)') \in Nat /\ Cardinality(Failing(e)') <= Cardinality(Failing(e)) + 1
      <4>1. Failing(e) \cup {r} \in SUBSET Relays
        BY <1>C
      <4>2. /\ Cardinality(Failing(e) \cup {r}) \in Nat
            /\ Cardinality(Failing(e)') \in Nat
            /\ Cardinality(Failing(e)') <= Cardinality(Failing(e) \cup {r})
        BY <3>2, <4>1, Counting
      <4> QED
        BY <1>C, <4>2, Counting
    <3> QED
      BY <1>0, <1>T, <1>C, <2>2, <3>1, <3>3 DEF CountsRightly
  <2> QED
    BY <2>1, <2>3, <2>4
<1>5. ASSUME NEW r \in Relays, NEW event \in batch[r], MarksRightly(r, event) PROVE Right
  <2>1. PICK status \in {"SENT", "FAILED", "DEAD_LETTER"}, failed \in {0, 1} :
               Mark(r, event, status, failed) /\ (failed = 1 => stage[r] = "failed")
    BY <1>5 DEF MarksRightly
  <2>2. /\ First(r, event) /\ ~LockedByOther(r, event.id)
        /\ writes' = [writes EXCEPT ![r][event.id] =
                         [status |-> status, retries |-> RowIn(r, event.id).retries + failed]]
        /\ batch' = [batch EXCEPT ![r] = @ \ {event}]
        /\ stage' = [stage EXCEPT ![r] = "locked"]
        /\ UNCHANGED <<rows, failures>>
    BY <2>1 DEF Mark
  <2>3. Failing(e)' \subseteq Failing(e) \ {r}
    BY <1>0, <2>2 DEF Failing, First
  <2>4. Failing(e)' \subseteq Failing(e)
    BY <2>3
  <2>5. ASSUME NEW q \in Relays, q # r \/ e # event.id PROVE RowIn(q, e)' = RowIn(q, e)
    <3>1. writes'[q][e] = writes[q][e]
      BY <1>0, <2>2, <2>5
    <3> QED
      BY <2>2, <3>1 DEF RowIn
  <2>6. CASE e # event.id
    BY <1>0, <2>2, <2>4, <2>5, <2>6, CountsStay
  <2>7. CASE e = event.id
    <3>1. RowIn(r, e)'.retries = RowIn(r, e).retries + failed
      <4>1. writes'[r][e] = [status |-> status, retries |-> RowIn(r, e).retries + failed]
        BY <1>0, <2>2, <2>7
      <4>2. writes'[r][e] # Untouched
        BY <4>1 DEF Untouched
      <4> QED
        BY <4>1, <4>2 DEF RowIn
    <3>2. CASE failed = 0
      <4>1. \A q \in Relays : RowIn(q, e)'.retries = RowIn(q, e).retries
        BY <1>T, <2>5, <3>1, <3>2
      <4> QED
        BY <1>0, <2>2, <2>4, <4>1, CountsStay
    <3>3. CASE failed = 1
      <4>1. r \in Failing(e)
        BY <2>1, <2>2, <2>7, <3>3 DEF Failing
      <4>2. Failing(e) \ {r} \in SUBSET Relays
        BY <1>C
      <4>3. Cardinality(Failing(e)') \in Nat /\ Cardinality(Failing(e)') + 1 <= Cardinality(Failing(e))
        <5>1. Cardinality(Failing(e) \ {r}) = Cardinality(Failing(e)) - 1
          BY <1>C, <4>1, Counting
        <5>2. /\ Cardinality(Failing(e)') \in Nat
              /\ Cardinality(Failing(e)') <= Cardinality(Failing(e) \ {r})
          BY <2>3, <4>2, Counting
        <5> QED
          BY <1>C, <5>1, <5>2
      <4>4. RowIn(r, e)'.retries + Cardinality(Failing(e)') <= failures[e]
        BY <1>0, <1>T, <1>C, <3>1, <3>3, <4>3 DEF CountsRightly
      <4>5. \A q \in Relays : q # r => RowIn(q, e)'.retries + Cardinality(Failing(e)') <= failures[e]
        BY <1>0, <1>T, <1>C, <2>5, <4>3 DEF CountsRightly
      <4>6. rows[e].retries + Cardinality(Failing(e)') <= failures[e]
        BY <1>0, <1>T, <1>C, <4>3 DEF CountsRightly
      <4> QED
        BY <2>2, <4>4, <4>5, <4>6
    <3> QED
      BY <3>2, <3>3
  <2> QED
    BY <2>6, <2>7
<1>6. ASSUME NEW r \in Relays, Commit(r) \/ Rollback(r) PROVE Right
  <2>1. /\ writes' = [writes EXCEPT ![r] = NoWrites] /\ batch' = [batch EXCEPT ![r] = {}]
        /\ stage' = [stage EXCEPT ![r] = "idle"] /\ UNCHANGED failures
    BY <1>6 DEF Commit, Rollback, Finish
  <2>2. rows'[e] = rows[e] \/ rows'[e] = RowIn(r, e)
    BY <1>6 DEF Commit, Rollback
  <2>3. Failing(e)' \subseteq Failing(e)
    BY <1>0, <2>1 DEF Failing, First
  <2>4. ASSUME NEW q \in Relays
        PROVE  RowIn(q, e)' = rows'[e] \/ RowIn(q, e)' = RowIn(q, e)
    <3>1. writes'[q][e] = Untouched \/ writes'[q][e] = writes[q][e]
      BY <1>0, <2>1 DEF NoWrites
    <3> QED
      BY <3>1 DEF RowIn
  <2> QED
    BY <1>0, <2>1, <2>2, <2>3, <2>4, CountsStay
<1>7. CASE UNCHANGED relayVars
  <2>1. UNCHANGED <<rows, batch, stage, writes, failures>>
    BY <1>7 DEF relayVars
  <2>2. Failing(e)' = Failing(e) /\ \A q \in Relays : RowIn(q, e)' = RowIn(q, e)
    BY <2>1 DEF Failing, First, RowIn
  <2> QED
    BY <1>0, <2>1, <2>2 DEF CountsRightly
<1> QED
  BY <1>1, <1>2, <1>3, <1>4, <1>5, <1>6, <1>7, Steps
---------------------------------------------------------------------------
\* Every step settles a row for cause or not at all.
LEMMA RelayNext_Settled == RelayInv /\ [InventoryRelayNext]_relayVars => SettledForCause'
<1> SUFFICES ASSUME RelayInv, [InventoryRelayNext]_relayVars, NEW e \in Events
             PROVE  /\ rows'[e].status = "SENT" => e \in topic'
                    /\ rows'[e].status = "DEAD_LETTER" => failures'[e] >= MaxRetries
  BY DEF SettledForCause
<1> DEFINE Right == /\ rows'[e].status = "SENT" => e \in topic'
                    /\ rows'[e].status = "DEAD_LETTER" => failures'[e] >= MaxRetries
<1>0. InventoryRelayTypeOK /\ SettledForCause
  BY DEF RelayInv
<1> USE InventoryRelayInputs DEF InventoryRelayTypeOK
<1>1. CASE UNCHANGED <<rows, topic, failures>>
  BY <1>0, <1>1 DEF SettledForCause
<1>2. ASSUME NEW d \in Events, Save(d) PROVE Right
  BY <1>0, <1>2 DEF Save, SettledForCause
<1>3. ASSUME NEW r \in Relays, NEW event \in batch[r], send(r, event) PROVE Right
  <2>1. /\ UNCHANGED rows /\ topic \subseteq topic'
        /\ \/ UNCHANGED failures
           \/ failures' = [failures EXCEPT ![event.id] = @ + 1]
    BY <1>3 DEF send
  <2>2. failures[e] \in Nat /\ failures'[e] \in Nat /\ failures[e] <= failures'[e]
    BY <1>0, <2>1
  <2> QED
    BY <1>0, <2>1, <2>2 DEF SettledForCause
<1>4. ASSUME NEW r \in Relays, Commit(r) PROVE Right
  <2>1. rows'[e] = RowIn(r, e) /\ UNCHANGED <<topic, failures>>
    BY <1>0, <1>4 DEF Commit
  <2> QED
    BY <1>0, <2>1, RowInIsARow DEF RelayInv, WritesRightly, SettledForCause
<1> QED
  BY <1>1, <1>2, <1>3, <1>4, Steps
  DEF findPendingEvents, lockEvents, MarksRightly, Mark, Rollback, relayVars

\* The invariant of the relays, from which the theorems follow.
LEMMA RelayInvHolds == InventoryRelaySpec => []RelayInv
<1>1. RelayInv /\ [InventoryRelayNext]_relayVars => RelayInv'
  BY RelayNext_Type, RelayNext_Remembers, RelayNext_Writes, RelayNext_Locks,
     RelayNext_Counts, RelayNext_Settled DEF RelayInv
<1> QED
  BY <1>1, RelayInit_Inv, PTL DEF InventoryRelaySpec

---------------------------------------------------------------------------
\* No COMMIT leaves a row PROCESSING, which no query would find again, and none
\* violates chk_retries, whatever fails.
THEOREM InventoryRelayTypeCorrect == InventoryRelaySpec => []InventoryRelayTypeOK
<1>1. RelayInv => InventoryRelayTypeOK
  BY DEF RelayInv
<1> QED
  BY <1>1, RelayInvHolds, PTL

\* No event is committed as SENT that Kafka does not have, and none is given up
\* before max_retries sends failed, with any number of instances that take up the
\* same events and decide on counts that are old.
THEOREM InventoryRelaySettlesForCause == InventoryRelaySpec => []SettledForCause
<1>1. RelayInv => SettledForCause
  BY DEF RelayInv
<1> QED
  BY <1>1, RelayInvHolds, PTL

---------------------------------------------------------------------------
(* The relays implement the actions of Outbox.                             *)

Saved == {e \in Events : rows[e] # NoRow}
Lost  == {e \in Events : rows[e].status = "DEAD_LETTER" /\ e \notin topic}

\* A step of the relays is one of Outbox, or changes nothing the saga sees.
LEMMA RelayStep_Outbox ==
    ASSUME RelayInv, [InventoryRelayNext]_relayVars
    PROVE  [Promise!OutboxNext]_(Promise!outboxVars)
<1>0. InventoryRelayTypeOK
  BY DEF RelayInv
<1> USE DEF InventoryRelayTypeOK
<1>1. CASE UNCHANGED <<rows, topic>>
  BY <1>1 DEF Promise!outboxVars
<1>2. ASSUME NEW e \in Events, Save(e) PROVE Promise!Save(e)
  <2>1. rows[e] = NoRow /\ rows' = [rows EXCEPT ![e].status = "PENDING"] /\ UNCHANGED topic
    BY <1>2 DEF Save
  <2>2. rows'[e] # NoRow /\ rows'[e].status = "PENDING"
    BY <1>0, <2>1 DEF NoRow
  <2>3. \A d \in Events : d # e => rows'[d] = rows[d]
    BY <1>0, <2>1
  <2>4. Saved' = Saved \cup {e} /\ Lost' = Lost
    BY <2>1, <2>2, <2>3 DEF Saved, Lost, NoRow
  <2> QED
    BY <2>1, <2>4 DEF Promise!Save, Saved, Lost
<1>3. ASSUME NEW r \in Relays, NEW event \in batch[r], send(r, event)
      PROVE  (\E e \in Events : Promise!Publish(e)) \/ UNCHANGED <<rows, topic>>
  <2>1. event.id \in Saved /\ event.id \in Events
    BY <1>0, <1>3 DEF RelayInv, RemembersRightly, Saved
  <2>2. CASE topic' = topic \cup {event.id}
    <3>1. Promise!Publish(event.id)
      BY <1>3, <2>1, <2>2 DEF send, Promise!Publish, Saved
    <3> QED
      BY <2>1, <3>1
  <2>3. CASE topic' = topic
    BY <1>3, <2>3 DEF send
  <2> QED
    BY <1>3, <2>2, <2>3 DEF send
<1>4. ASSUME NEW r \in Relays, Commit(r)
      PROVE  \E es \in SUBSET Events : Promise!GiveUp(es)
  <2>1. rows' = [e \in Events |-> RowIn(r, e)] /\ UNCHANGED topic
    BY <1>4 DEF Commit
  <2>2. \A e \in Events : rows'[e] # NoRow <=> rows[e] # NoRow
    <3> SUFFICES ASSUME NEW e \in Events PROVE RowIn(r, e) # NoRow <=> rows[e] # NoRow
      BY <2>1
    <3>1. CASE writes[r][e] = Untouched
      BY <1>0, <3>1, RowInIsARow
    <3>2. CASE writes[r][e] # Untouched
      BY <1>0, <3>2, RowInIsARow DEF RelayInv, WritesRightly, Settled, NoRow
    <3> QED
      BY <3>1, <3>2
  <2>3. Saved' = Saved
    BY <2>2 DEF Saved
  <2>4. Lost' \in SUBSET Events /\ Lost' \subseteq Saved \ topic
    BY <2>1, <2>3 DEF Lost, Saved, NoRow
  <2>5. \E es \in SUBSET Events : es = Lost'
    BY <2>4
  <2> QED
    BY <2>1, <2>3, <2>4, <2>5 DEF Promise!GiveUp, Saved, Lost
<1> QED
  <2>1. \/ \E e \in Events : Save(e)
        \/ \E r \in Relays : Commit(r) \/ \E event \in batch[r] : send(r, event)
        \/ UNCHANGED <<rows, topic>>
    BY Steps DEF findPendingEvents, lockEvents, MarksRightly, Mark, Rollback, relayVars
  <2> QED
    BY <1>1, <1>2, <1>3, <1>4, <2>1 DEF Promise!OutboxNext

\* What the relays do is what Outbox allows, its liveness apart, though marks may be
\* rolled back and sends not: only saved events reach Kafka, and none that Kafka has
\* is ever counted as lost.
THEOREM InventoryRelayImplementsOutbox ==
    InventoryRelaySpec =>
        Promise!OutboxInit /\ [][Promise!OutboxNext]_(Promise!outboxVars)
<1>1. InventoryRelayInit => Promise!OutboxInit
  BY DEF InventoryRelayInit, Promise!OutboxInit, NoRow
<1>2. RelayInv /\ [InventoryRelayNext]_relayVars
        => [Promise!OutboxNext]_(Promise!outboxVars)
  BY RelayStep_Outbox
<1> QED
  BY <1>1, <1>2, RelayInvHolds, PTL DEF InventoryRelaySpec
===========================================================================
