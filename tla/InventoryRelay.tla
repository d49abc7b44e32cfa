--------------------------- MODULE InventoryRelay ---------------------------
(***************************************************************************)
(* The outbox relay of inventory-service.  Unlike the Go relays it does a  *)
(* whole batch in one transaction (Postgres, READ COMMITTED): the lease,   *)
(* the marks and the retry counts become visible together at COMMIT, or    *)
(* never, while what it sent to Kafka stays sent.  The query that finds    *)
(* the batch locks nothing, the UPDATE that locks it may match fewer rows, *)
(* and its count is ignored.                                               *)
(*                                                                         *)
(* No committed row is PROCESSING or has a locked_at (the type invariant), *)
(* so the condition on it in the query is always true and left out.        *)
(***************************************************************************)
EXTENDS Naturals, FiniteSets

CONSTANTS
    Relays,      \* the instances of the service; a @Scheduled method never overlaps itself
    Size,        \* bound: how many rows the outbox gets
    MaxRetries,  \* max_retries of a row: 5
    BatchSize,   \* the LIMIT of the query: 50
    MaxFaults    \* bound: crashes and aborted transactions in a behaviour

\* The outbox events, numbered by created_at.
Events == 1..Size

ASSUME InventoryRelayInputs ==
    /\ IsFiniteSet(Relays)
    /\ Size \in Nat
    /\ MaxRetries \in Nat \ {0}
    /\ BatchSize \in Nat \ {0}
    /\ MaxFaults \in Nat

VARIABLES
    rows,      \* per event: its row, as committed
    batch,     \* per relay: what is left of the events it found, as it found them
    stage,     \* per relay: where relay() is
    writes,    \* per relay: the rows its transaction changed, and so has locked
    topic,     \* the events Kafka stored, once or more
    failures,  \* history: how often a send of the event failed
    faults     \* history: how many faults so far

relayVars == <<rows, batch, stage, writes, topic, failures, faults>>

\* A row that does not exist yet; and one that a transaction has not changed.
NoRow     == [status |-> "none", retries |-> 0]
Untouched == [status |-> "untouched", retries |-> 0]

Counts    == 0..MaxRetries
Settled   == [status: {"SENT", "FAILED", "DEAD_LETTER"}, retries: Counts]
Committed == [status: {"PENDING"}, retries: Counts] \cup Settled \cup {NoRow}
Written   == [status: {"PROCESSING"}, retries: Counts] \cup Settled \cup {Untouched}

\* A crash leaves no row PROCESSING: nothing would ever take it up again, as
\* findPendingEvents looks for PENDING and FAILED only.
InventoryRelayTypeOK ==
    /\ rows \in [Events -> Committed]
    /\ batch \in [Relays -> SUBSET [id: Events, retries: Counts]]
    /\ stage \in [Relays -> {"idle", "found", "locked", "sent", "failed"}]
    /\ writes \in [Relays -> [Events -> Written]]
    /\ topic \subseteq Events
    /\ failures \in [Events -> Nat]
    /\ faults \in 0..MaxFaults

NoWrites == [e \in Events |-> Untouched]

InventoryRelayInit ==
    /\ rows = [e \in Events |-> NoRow]
    /\ batch = [r \in Relays |-> {}]
    /\ stage = [r \in Relays |-> "idle"]
    /\ writes = [r \in Relays |-> NoWrites]
    /\ topic = {}
    /\ failures = [e \in Events |-> 0]
    /\ faults = 0

\* The transaction of a reservation, refusal or release commits its event.
Save(e) ==
    /\ rows[e] = NoRow
    /\ \A d \in 1..(e - 1) : rows[d] # NoRow
    /\ rows' = [rows EXCEPT ![e].status = "PENDING"]
    /\ UNCHANGED <<batch, stage, writes, topic, failures, faults>>

---------------------------------------------------------------------------
\* The WHERE of findPendingEvents without its FAILED.
Pending_NotFailed(e) == rows[e].status = "PENDING"

\* The WHERE of findPendingEvents and of lockEvents.
Pending(e) == rows[e].status \in {"PENDING", "FAILED"}

\* ORDER BY created_at LIMIT.
Oldest(es) == {e \in es : Cardinality({d \in es : d < e}) < BatchSize}

\* The oldest pending events, with the retries they have now.
findPendingEvents(r) ==
    LET found == Oldest({e \in Events : Pending(e)})
    IN  /\ stage[r] = "idle"
        /\ found # {}
        /\ batch' = [batch EXCEPT ![r] = {[id |-> e, retries |-> rows[e].retries] : e \in found}]
        /\ stage' = [stage EXCEPT ![r] = "found"]
        /\ UNCHANGED <<rows, writes, topic, failures, faults>>

Ids(r) == {event.id : event \in batch[r]}

LockedByOther(r, e) == \E s \in Relays \ {r} : writes[s][e] # Untouched

\* A lease committed at once, as the Go relays do, and never looked for again.
lockEvents_CommitsLease(r) ==
    /\ stage[r] = "found"
    /\ \A e \in Ids(r) : ~LockedByOther(r, e)
    /\ rows' = [e \in Events |-> IF e \in Ids(r) /\ Pending(e)
                                 THEN [rows[e] EXCEPT !.status = "PROCESSING"]
                                 ELSE rows[e]]
    /\ stage' = [stage EXCEPT ![r] = "locked"]
    /\ UNCHANGED <<batch, writes, topic, failures, faults>>

\* The UPDATE waits for rows another transaction has changed, then looks at
\* them again.  The relay goes on with all that it found, locked or not.
lockEvents(r) ==
    /\ stage[r] = "found"
    /\ \A e \in Ids(r) : ~LockedByOther(r, e)
    /\ writes' = [writes EXCEPT ![r] =
                    [e \in Events |-> IF e \in Ids(r) /\ Pending(e)
                                      THEN [rows[e] EXCEPT !.status = "PROCESSING"]
                                      ELSE Untouched]]
    /\ stage' = [stage EXCEPT ![r] = "locked"]
    /\ UNCHANGED <<rows, batch, topic, failures, faults>>

\* The event relay r is at: it takes those of its batch one after another.
First(r, event) == event \in batch[r] /\ \A other \in batch[r] : event.id <= other.id

\* kafkaTemplate.send(record).get(); one that throws may have reached Kafka.
send(r, event) ==
    /\ stage[r] = "locked"
    /\ First(r, event)
    /\ \/ /\ topic' = topic \cup {event.id}
          /\ stage' = [stage EXCEPT ![r] = "sent"]
          /\ UNCHANGED failures
       \/ /\ topic' \in {topic, topic \cup {event.id}}
          /\ stage' = [stage EXCEPT ![r] = "failed"]
          /\ failures' = [failures EXCEPT ![event.id] = @ + 1]
    /\ UNCHANGED <<rows, batch, writes, faults>>

\* The row of e as relay r's transaction sees it.
RowIn(r, e) == IF writes[r][e] = Untouched THEN rows[e] ELSE writes[r][e]

\* UPDATE ... WHERE id = :id, and on to the next event.  It waits while another
\* transaction has changed the row.  chk_retries refuses too high a count.
Mark(r, event, status, failed) ==
    LET e     == event.id
        count == RowIn(r, e).retries + failed
    IN  /\ First(r, event)
        /\ ~LockedByOther(r, e)
        /\ count <= MaxRetries
        /\ writes' = [writes EXCEPT ![r][e] = [status |-> status, retries |-> count]]
        /\ batch' = [batch EXCEPT ![r] = @ \ {event}]
        /\ stage' = [stage EXCEPT ![r] = "locked"]
        /\ UNCHANGED <<rows, topic, failures, faults>>

\* A send whose Future nobody waits for.
markAsSent_Unconditionally(r, event) ==
    stage[r] \in {"sent", "failed"} /\ Mark(r, event, "SENT", 0)

markAsSent(r, event) == stage[r] = "sent" /\ Mark(r, event, "SENT", 0)

\* A catch block that counts this failure twice.
LastRetry_Early(event) == event.retries + 2 >= MaxRetries

\* On the count read by findPendingEvents, which may be an old one.
LastRetry(event) == event.retries + 1 >= MaxRetries

markAsFailed(r, event) ==
    stage[r] = "failed" /\ ~LastRetry(event) /\ Mark(r, event, "FAILED", 1)

\* The last failure is not counted.
markAsDeadLetter(r, event) ==
    stage[r] = "failed" /\ LastRetry(event) /\ Mark(r, event, "DEAD_LETTER", 0)

Finish(r) ==
    /\ writes' = [writes EXCEPT ![r] = NoWrites]
    /\ batch' = [batch EXCEPT ![r] = {}]
    /\ stage' = [stage EXCEPT ![r] = "idle"]

\* relay() returns: COMMIT.
Commit(r) ==
    /\ stage[r] = "locked" /\ batch[r] = {}
    /\ rows' = [e \in Events |-> RowIn(r, e)]
    /\ Finish(r)
    /\ UNCHANGED <<topic, failures, faults>>

\* A crash, a lost connection, a deadlock, or any exception of a statement or
\* of the COMMIT.
Rollback(r) ==
    /\ faults < MaxFaults
    /\ stage[r] # "idle"
    /\ Finish(r)
    /\ faults' = faults + 1
    /\ UNCHANGED <<rows, topic, failures>>

relay(r) ==
    \/ findPendingEvents(r) \/ lockEvents(r)
    \/ \E event \in batch[r] : \/ send(r, event) \/ markAsSent(r, event)
                               \/ markAsFailed(r, event) \/ markAsDeadLetter(r, event)
    \/ Commit(r)

InventoryRelayNext ==
    \/ \E e \in Events : Save(e)
    \/ \E r \in Relays : relay(r) \/ Rollback(r)

\* @Scheduled(fixedDelay = 1000) runs for as long as the service does.
InventoryRelaySpec ==
    /\ InventoryRelayInit /\ [][InventoryRelayNext]_relayVars
    /\ \A r \in Relays : WF_relayVars(relay(r))

---------------------------------------------------------------------------
\* A row is settled only for cause, though a rollback forgets marks but not sends,
\* and whether to give up is decided on a count that another instance may have
\* changed since: SENT means that Kafka has the event, DEAD_LETTER that sending it
\* failed max_retries times.
SettledForCause ==
    \A e \in Events :
        /\ rows[e].status = "SENT" => e \in topic
        /\ rows[e].status = "DEAD_LETTER" => failures[e] >= MaxRetries

\* Every saved event ends SENT or DEAD_LETTER for good, also between instances
\* that mark over each other.
EventsSettle ==
    \A e \in Events :
        rows[e] # NoRow ~> [](rows[e].status \in {"SENT", "DEAD_LETTER"})

---------------------------------------------------------------------------
\* What the saga sees of the relay.
Promise == INSTANCE Outbox WITH
    saved     <- {e \in Events : rows[e] # NoRow},
    published <- topic,
    lost      <- {e \in Events : rows[e].status = "DEAD_LETTER" /\ e \notin topic}

\* The relays implement Outbox, though their marks may be rolled back and their
\* sends not, and one may mark over the other.
KeepsPromise == Promise!OutboxSpec
===========================================================================
