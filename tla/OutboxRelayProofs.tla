------------------------- MODULE OutboxRelayProofs -------------------------
(***************************************************************************)
(* The outbox relay of the Go services for any number of instances, rows,  *)
(* retries and faults: rows are settled only for cause, a settled row      *)
(* stays as it is unless a relay that lost its lease holds it, and every   *)
(* step is one that Outbox allows.                                         *)
(***************************************************************************)
EXTENDS OutboxRelay, TLAPS

\* A mark depends on nothing but what its relay remembers: the relay has an
\* outcome only for the first event of its batch, "written" is true of it, and
\* what it leased are rows that exist.
RemembersRightly ==
    \A r \in Relays :
        /\ batch[r] = {} => outcome[r] = "none"
        /\ outcome[r] = "written" => \A e \in Events : First(r, e) => e \in topic
        /\ \A e \in batch[r] : status[e] # "none"

RelayInv == RelayTypeOK /\ RemembersRightly /\ SettledForCause

---------------------------------------------------------------------------
\* The start: an empty table, idle relays.
LEMMA RelayInit_Inv == RelayInit => RelayInv
  BY RelayInputs DEF RelayInit, RelayInv, RelayTypeOK, RemembersRightly, SettledForCause,
                     RowStatuses

\* What a poll leases is pending.
LEMMA OldestIsPending == Oldest({e \in Events : Pending(e)}) \subseteq {e \in Events : Pending(e)}
  BY DEF Oldest

\* A relay is at one event at a time.
LEMMA FirstIsOne ==
    ASSUME RelayTypeOK, NEW r \in Relays, NEW e \in Events, NEW d \in Events,
           First(r, e), First(r, d)
    PROVE  d = e
<1>1. d \in Nat /\ e \in Nat
  BY RelayInputs DEF Events
<1> QED
  BY <1>1 DEF First

---------------------------------------------------------------------------
\* Every step keeps the types.
LEMMA RelayNext_Type == RelayTypeOK /\ [RelayNext]_relayVars => RelayTypeOK'
<1> SUFFICES ASSUME RelayTypeOK, [RelayNext]_relayVars PROVE RelayTypeOK'
  OBVIOUS
<1> USE RelayInputs DEF RelayTypeOK, RowStatuses
<1>1. ASSUME NEW e \in Events, Save(e) PROVE RelayTypeOK'
  BY <1>1 DEF Save
<1>2. ASSUME NEW e \in Events, ExpireLease(e) PROVE RelayTypeOK'
  BY <1>2 DEF ExpireLease
<1>3. ASSUME NEW r \in Relays, FindAndLockPendingEvents(r) PROVE RelayTypeOK'
  BY <1>3, OldestIsPending DEF FindAndLockPendingEvents
<1>4. ASSUME NEW r \in Relays, NEW e \in Events, WriteMessages(r, e) PROVE RelayTypeOK'
  BY <1>4 DEF WriteMessages
<1>5. ASSUME NEW r \in Relays, NEW e \in Events, MarkEventAsSent(r, e) PROVE RelayTypeOK'
  BY <1>5 DEF MarkEventAsSent, Advance
<1>6. ASSUME NEW r \in Relays, NEW e \in Events, MarkEventAsFailed(r, e) PROVE RelayTypeOK'
  BY <1>6 DEF MarkEventAsFailed, Advance, StatusAfterFailure
<1>7. ASSUME NEW r \in Relays, NEW e \in Events, MarkFails(r, e) PROVE RelayTypeOK'
  BY <1>7 DEF MarkFails, Advance
<1>8. ASSUME NEW r \in Relays, Crash(r) PROVE RelayTypeOK'
  BY <1>8 DEF Crash
<1>9. CASE UNCHANGED relayVars
  BY <1>9 DEF relayVars
<1> QED
  BY <1>1, <1>2, <1>3, <1>4, <1>5, <1>6, <1>7, <1>8, <1>9 DEF RelayNext, poll

\* Every step leaves each relay with a right memory of its batch.
LEMMA RelayNext_Remembers ==
    RelayTypeOK /\ RemembersRightly /\ [RelayNext]_relayVars => RemembersRightly'
<1> SUFFICES ASSUME RelayTypeOK, RemembersRightly, [RelayNext]_relayVars
             PROVE  RemembersRightly'
  OBVIOUS
<1> USE DEF RemembersRightly, First
<1>1. ASSUME NEW e \in Events, Save(e) PROVE RemembersRightly'
  BY <1>1 DEF Save, RelayTypeOK
<1>2. ASSUME NEW e \in Events, ExpireLease(e) PROVE RemembersRightly'
  BY <1>2 DEF ExpireLease, RelayTypeOK
<1>3. ASSUME NEW r \in Relays, FindAndLockPendingEvents(r) PROVE RemembersRightly'
  <2> DEFINE found == Oldest({e \in Events : Pending(e)})
  <2>1. \A e \in found : e \in Events
    BY OldestIsPending
  <2>2. outcome[r] = "none" /\ UNCHANGED <<outcome, topic>>
    BY <1>3 DEF FindAndLockPendingEvents
  <2>3. batch' = [batch EXCEPT ![r] = found]
    BY <1>3 DEF FindAndLockPendingEvents
  <2>4. \A e \in Events : status'[e] # "none" \/ (e \notin found /\ status'[e] = status[e])
    BY <1>3 DEF FindAndLockPendingEvents
  <2> QED
    BY <2>1, <2>2, <2>3, <2>4 DEF RelayTypeOK
<1>4. ASSUME NEW r \in Relays, NEW e \in Events, WriteMessages(r, e)
      PROVE  RemembersRightly'
  <2>1. \A d \in Events : First(r, d) => d = e
    BY <1>4, FirstIsOne DEF WriteMessages
  <2> QED
    BY <1>4, <2>1 DEF WriteMessages, RelayTypeOK
<1>5. ASSUME NEW r \in Relays, NEW e \in Events, MarkEventAsSent(r, e)
      PROVE  RemembersRightly'
  BY <1>5 DEF MarkEventAsSent, Advance, RelayTypeOK
<1>6. ASSUME NEW r \in Relays, NEW e \in Events, MarkEventAsFailed(r, e)
      PROVE  RemembersRightly'
  BY <1>6 DEF MarkEventAsFailed, Advance, StatusAfterFailure, RelayTypeOK
<1>7. ASSUME NEW r \in Relays, NEW e \in Events, MarkFails(r, e) PROVE RemembersRightly'
  BY <1>7 DEF MarkFails, Advance, RelayTypeOK
<1>8. ASSUME NEW r \in Relays, Crash(r) PROVE RemembersRightly'
  BY <1>8 DEF Crash, RelayTypeOK
<1>9. CASE UNCHANGED relayVars
  BY <1>9 DEF relayVars
<1> QED
  BY <1>1, <1>2, <1>3, <1>4, <1>5, <1>6, <1>7, <1>8, <1>9 DEF RelayNext, poll

\* Every step settles a row for cause or not at all.
LEMMA RelayNext_Settled == RelayInv /\ [RelayNext]_relayVars => SettledForCause'
<1> SUFFICES ASSUME RelayTypeOK, RemembersRightly, SettledForCause, [RelayNext]_relayVars
             PROVE  SettledForCause'
  BY DEF RelayInv
<1> USE RelayInputs DEF SettledForCause, RelayTypeOK
<1>1. ASSUME NEW e \in Events, Save(e) PROVE SettledForCause'
  BY <1>1 DEF Save
<1>2. ASSUME NEW e \in Events, ExpireLease(e) PROVE SettledForCause'
  BY <1>2 DEF ExpireLease
<1>3. ASSUME NEW r \in Relays, FindAndLockPendingEvents(r) PROVE SettledForCause'
  BY <1>3 DEF FindAndLockPendingEvents
<1>4. ASSUME NEW r \in Relays, NEW e \in Events, WriteMessages(r, e) PROVE SettledForCause'
  BY <1>4 DEF WriteMessages
<1>5. ASSUME NEW r \in Relays, NEW e \in Events, MarkEventAsSent(r, e)
      PROVE  SettledForCause'
  BY <1>5 DEF MarkEventAsSent, RemembersRightly
<1>6. ASSUME NEW r \in Relays, NEW e \in Events, MarkEventAsFailed(r, e)
      PROVE  SettledForCause'
  BY <1>6 DEF MarkEventAsFailed, StatusAfterFailure
<1>7. ASSUME NEW r \in Relays, NEW e \in Events, MarkFails(r, e) PROVE SettledForCause'
  BY <1>7 DEF MarkFails
<1>8. ASSUME NEW r \in Relays, Crash(r) PROVE SettledForCause'
  BY <1>8 DEF Crash
<1>9. CASE UNCHANGED relayVars
  BY <1>9 DEF relayVars
<1> QED
  BY <1>1, <1>2, <1>3, <1>4, <1>5, <1>6, <1>7, <1>8, <1>9 DEF RelayNext, poll

\* The invariant of the relays, from which the theorems follow.
LEMMA RelayInvHolds == RelaySpec => []RelayInv
<1>1. RelayInv /\ [RelayNext]_relayVars => RelayInv'
  BY RelayNext_Type, RelayNext_Remembers, RelayNext_Settled DEF RelayInv
<1> QED
  BY <1>1, RelayInit_Inv, PTL DEF RelaySpec

---------------------------------------------------------------------------
\* The table's CHECK on the status is never violated, and the relays keep their
\* types, whatever fails.
THEOREM RelayTypeCorrect == RelaySpec => []RelayTypeOK
<1>1. RelayInv => RelayTypeOK
  BY DEF RelayInv
<1> QED
  BY <1>1, RelayInvHolds, PTL

\* No event is marked SENT that Kafka does not have, and none is given up before
\* max_retries failures, with any number of relays that mark over each other.
THEOREM RelaySettlesForCause == RelaySpec => []SettledForCause
<1>1. RelayInv => SettledForCause
  BY DEF RelayInv
<1> QED
  BY <1>1, RelayInvHolds, PTL

\* FindAndLockPendingEvents never leases a settled row again, so that only a relay
\* that still holds the event can change it.
THEOREM RelayLifecycle == RelaySpec => LifecycleEnds
<1> DEFINE Ends == \A e \in Events :
                     status[e] \in {"SENT", "DEAD_LETTER"} /\ ~InHand(e) =>
                         status'[e] = status[e]
<1>1. RelayInv /\ [RelayNext]_relayVars => [Ends]_relayVars
  <2> SUFFICES ASSUME RelayTypeOK, [RelayNext]_relayVars, NEW e \in Events,
                      status[e] \in {"SENT", "DEAD_LETTER"}, ~InHand(e)
               PROVE  status'[e] = status[e]
    BY DEF RelayInv
  <2> USE DEF RelayTypeOK, InHand, First
  <2>1. ASSUME NEW d \in Events, Save(d) \/ ExpireLease(d) PROVE status'[e] = status[e]
    BY <2>1 DEF Save, ExpireLease
  <2>2. ASSUME NEW r \in Relays, FindAndLockPendingEvents(r) PROVE status'[e] = status[e]
    BY <2>2, OldestIsPending DEF FindAndLockPendingEvents, Pending
  <2>3. ASSUME NEW r \in Relays, NEW d \in Events, MarkEventAsSent(r, d) \/ MarkEventAsFailed(r, d)
        PROVE  status'[e] = status[e]
    BY <2>3 DEF MarkEventAsSent, MarkEventAsFailed
  <2>4. ASSUME NEW r \in Relays, NEW d \in Events, WriteMessages(r, d) \/ MarkFails(r, d)
        PROVE  status'[e] = status[e]
    BY <2>4 DEF WriteMessages, MarkFails
  <2>5. ASSUME NEW r \in Relays, Crash(r) PROVE status'[e] = status[e]
    BY <2>5 DEF Crash
  <2>6. CASE UNCHANGED relayVars
    BY <2>6 DEF relayVars
  <2> QED
    BY <2>1, <2>2, <2>3, <2>4, <2>5, <2>6 DEF RelayNext, poll
<1> QED
  BY <1>1, RelayInvHolds, PTL DEF RelaySpec, LifecycleEnds

---------------------------------------------------------------------------
(* The relays implement the actions of Outbox.                             *)

Saved == {e \in Events : status[e] # "none"}
Lost  == {e \in Events : status[e] = "DEAD_LETTER" /\ e \notin topic}

\* A step of the relays is one of Outbox, or changes nothing the saga sees.
LEMMA RelayStep_Outbox ==
    ASSUME RelayInv, RelayInv', [RelayNext]_relayVars
    PROVE  [Promise!OutboxNext]_(Promise!outboxVars)
<1> USE DEF RelayInv, RelayTypeOK
<1> DEFINE Same == Saved' = Saved /\ topic' = topic /\ Lost' = Lost
<1>0. Same => UNCHANGED Promise!outboxVars
  BY DEF Promise!outboxVars, Saved, Lost
<1>1. ASSUME NEW e \in Events, Save(e) PROVE Promise!Save(e)
  BY <1>1 DEF Save, Promise!Save
<1>2. ASSUME NEW e \in Events, ExpireLease(e) PROVE Same
  BY <1>2 DEF ExpireLease, Saved, Lost
<1>3. ASSUME NEW r \in Relays, FindAndLockPendingEvents(r) PROVE Same
  BY <1>3, OldestIsPending DEF FindAndLockPendingEvents, Pending, Saved, Lost
<1>4. ASSUME NEW r \in Relays, NEW e \in Events, WriteMessages(r, e)
      PROVE  Promise!Publish(e) \/ Same
  <2>1. e \in Saved
    BY <1>4 DEF WriteMessages, First, RemembersRightly, Saved
  <2>2. CASE topic' = topic \cup {e}
    BY <1>4, <2>1, <2>2 DEF WriteMessages, Promise!Publish, Saved
  <2>3. CASE topic' = topic
    BY <1>4, <2>3 DEF WriteMessages, Saved, Lost
  <2> QED
    BY <1>4, <2>2, <2>3 DEF WriteMessages
<1>5. ASSUME NEW r \in Relays, NEW e \in Events, MarkEventAsSent(r, e) PROVE Same
  <2>1. e \in Saved /\ e \in topic
    BY <1>5 DEF MarkEventAsSent, First, RemembersRightly, Saved
  <2> QED
    BY <1>5, <2>1 DEF MarkEventAsSent, Saved, Lost
<1>6. ASSUME NEW r \in Relays, NEW e \in Events, MarkEventAsFailed(r, e)
      PROVE  \E es \in SUBSET Events : Promise!GiveUp(es)
  <2>1. e \in Saved
    BY <1>6 DEF MarkEventAsFailed, First, RemembersRightly, Saved
  <2>2. Saved' = Saved /\ topic' = topic
    BY <1>6, <2>1 DEF MarkEventAsFailed, StatusAfterFailure, Saved
  <2>3. Lost' \in SUBSET Events /\ Lost' \subseteq Saved \ topic
    BY <2>2 DEF Lost, Saved
  <2>4. \E es \in SUBSET Events : es = Lost'
    BY <2>3
  <2> QED
    BY <2>2, <2>3, <2>4 DEF Promise!GiveUp, Saved, Lost
<1>7. ASSUME NEW r \in Relays, NEW e \in Events, MarkFails(r, e) PROVE Same
  BY <1>7 DEF MarkFails, Saved, Lost
<1>8. ASSUME NEW r \in Relays, Crash(r) PROVE Same
  BY <1>8 DEF Crash, Saved, Lost
<1>9. CASE UNCHANGED relayVars
  BY <1>0, <1>9 DEF relayVars, Saved, Lost
<1> QED
  BY <1>0, <1>1, <1>2, <1>3, <1>4, <1>5, <1>6, <1>7, <1>8, <1>9
  DEF RelayNext, poll, Promise!OutboxNext

\* What the relays do is what Outbox allows, its liveness apart: only saved events
\* reach Kafka, and none that Kafka has is ever counted as lost.
THEOREM RelayImplementsOutbox ==
    RelaySpec => Promise!OutboxInit /\ [][Promise!OutboxNext]_(Promise!outboxVars)
<1>1. RelayInit => Promise!OutboxInit
  BY DEF RelayInit, Promise!OutboxInit
<1>2. RelayInv /\ RelayInv' /\ [RelayNext]_relayVars
        => [Promise!OutboxNext]_(Promise!outboxVars)
  BY RelayStep_Outbox
<1> QED
  BY <1>1, <1>2, RelayInvHolds, PTL DEF RelaySpec
===========================================================================
