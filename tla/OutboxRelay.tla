---------------------------- MODULE OutboxRelay ----------------------------
(***************************************************************************)
(* The outbox relay of the two Go services, orders-service and             *)
(* payments-service, whose code is the same but for names.  Each instance  *)
(* of a service runs one relay: it polls the table for a batch of events,  *)
(* leases them (PROCESSING, locked_at), writes them to Kafka one by one    *)
(* and marks each SENT or FAILED.  Nothing ties a mark to the lease: the   *)
(* UPDATEs name the row by its id alone.                                   *)
(*                                                                         *)
(* A database statement or transaction is a step, so is a call to Kafka.   *)
(* Crashes and failed database calls are bounded by MaxFaults.             *)
(***************************************************************************)
EXTENDS Naturals, FiniteSets

CONSTANTS
    Relays,      \* the instances of the service
    Rows,        \* bound: how many rows the outbox gets
    Unroutable,  \* the rows of an event type no Kafka writer is configured for
    MaxRetries,  \* max_retries of a row: 3 in orders-service, 5 in payments-service
    BatchSize,   \* the LIMIT of a poll
    MaxFaults    \* bound: crashes and database errors in a behaviour

\* The outbox events, numbered by created_at.
Events == 1..Rows

ASSUME RelayInputs ==
    /\ Rows \in Nat
    /\ Unroutable \subseteq Events
    /\ MaxRetries \in Nat \ {0}
    /\ BatchSize \in Nat \ {0}
    /\ MaxFaults \in Nat

VARIABLES
    status,   \* status of each row, "none" when not inserted
    retries,  \* retries_count of each row
    expired,  \* rows whose locked_at is older than 5 minutes
    batch,    \* per relay: what is left of the events it leased
    outcome,  \* per relay: what became of the write of the batch's first event
    topic,    \* the events Kafka stored, once or more
    faults    \* history: how many crashes and database errors so far

relayVars == <<status, retries, expired, batch, outcome, topic, faults>>

RowStatuses == {"none", "PENDING", "PROCESSING", "SENT", "FAILED", "DEAD_LETTER"}

RelayTypeOK ==
    /\ status \in [Events -> RowStatuses]
    /\ retries \in [Events -> Nat]
    /\ expired \subseteq Events
    /\ batch \in [Relays -> SUBSET Events]
    /\ outcome \in [Relays -> {"none", "written", "failed"}]
    /\ topic \subseteq Events
    /\ faults \in 0..MaxFaults

RelayInit ==
    /\ status = [e \in Events |-> "none"]
    /\ retries = [e \in Events |-> 0]
    /\ expired = {}
    /\ batch = [r \in Relays |-> {}]
    /\ outcome = [r \in Relays |-> "none"]
    /\ topic = {}
    /\ faults = 0

\* The transaction of a service method commits its event.
Save(e) ==
    /\ status[e] = "none"
    /\ \A d \in 1..(e - 1) : status[d] # "none"
    /\ status' = [status EXCEPT ![e] = "PENDING"]
    /\ UNCHANGED <<retries, expired, batch, outcome, topic, faults>>

\* The WHERE of the poll without its last line: leased rows are never reclaimed.
Pending_NoReclaim(e) ==
    status[e] \in {"PENDING", "FAILED"} /\ retries[e] < MaxRetries

\* The WHERE of the poll without `status IN': SENT rows are sent again.
Pending_AnyStatus(e) ==
    \/ retries[e] < MaxRetries
    \/ status[e] = "PROCESSING" /\ e \in expired

\* The WHERE of the poll: to send, or leased by a relay that did not finish.
Pending(e) ==
    \/ status[e] \in {"PENDING", "FAILED"} /\ retries[e] < MaxRetries
    \/ status[e] = "PROCESSING" /\ e \in expired

\* ORDER BY created_at LIMIT.
Oldest(es) == {e \in es : Cardinality({d \in es : d < e}) < BatchSize}

\* Lease the oldest pending rows, in one transaction (FOR UPDATE SKIP LOCKED).
FindAndLockPendingEvents(r) ==
    LET found == Oldest({e \in Events : Pending(e)})
    IN  /\ batch[r] = {}
        /\ found # {}
        /\ batch' = [batch EXCEPT ![r] = found]
        /\ status' = [e \in Events |-> IF e \in found THEN "PROCESSING" ELSE status[e]]
        /\ expired' = expired \ found
        /\ UNCHANGED <<retries, outcome, topic, faults>>

\* locked_at of a leased row becomes older than 5 minutes.
ExpireLease(e) ==
    /\ status[e] = "PROCESSING"
    /\ expired' = expired \cup {e}
    /\ UNCHANGED <<status, retries, batch, outcome, topic, faults>>

\* The event relay r is at: it sends those of its batch one after another.
First(r, e) == e \in batch[r] /\ \A d \in batch[r] : e <= d

\* No writer for the event type, or WriteMessages.  A write that reports an
\* error may have reached Kafka.
WriteMessages(r, e) ==
    /\ First(r, e)
    /\ outcome[r] = "none"
    /\ \/ /\ e \notin Unroutable
          /\ topic' = topic \cup {e}
          /\ outcome' \in {[outcome EXCEPT ![r] = "written"],
                           [outcome EXCEPT ![r] = "failed"]}
       \/ /\ outcome' = [outcome EXCEPT ![r] = "failed"]
          /\ UNCHANGED topic
    /\ UNCHANGED <<status, retries, expired, batch, faults>>

\* The relay goes on with the next event of its batch.
Advance(r, e) ==
    /\ batch' = [batch EXCEPT ![r] = @ \ {e}]
    /\ outcome' = [outcome EXCEPT ![r] = "none"]

\* MarkEventAsSent for an event whose write failed: a missing `continue'.
MarkEventAsSent_Unconditionally(r, e) ==
    /\ First(r, e)
    /\ outcome[r] # "none"
    /\ Advance(r, e)
    /\ status' = [status EXCEPT ![e] = "SENT"]
    /\ UNCHANGED <<retries, expired, topic, faults>>

MarkEventAsSent(r, e) ==
    /\ First(r, e)
    /\ outcome[r] = "written"
    /\ Advance(r, e)
    /\ status' = [status EXCEPT ![e] = "SENT"]
    /\ UNCHANGED <<retries, expired, topic, faults>>

\* The CASE after retries_count has been incremented: MySQL evaluates the
\* assignments of an UPDATE from left to right.
StatusAfterFailure_CountedFirst(e) ==
    IF retries[e] + 2 >= MaxRetries THEN "DEAD_LETTER" ELSE "FAILED"

\* The CASE with a spelling the CHECK on the column refuses.
StatusAfterFailure_Misspelt(e) ==
    IF retries[e] + 1 >= MaxRetries THEN "DEAD-LETTER" ELSE "FAILED"

\* The CASE of the UPDATE in MarkEventAsFailed.
StatusAfterFailure(e) ==
    IF retries[e] + 1 >= MaxRetries THEN "DEAD_LETTER" ELSE "FAILED"

MarkEventAsFailed(r, e) ==
    /\ First(r, e)
    /\ outcome[r] = "failed"
    /\ Advance(r, e)
    /\ status' = [status EXCEPT ![e] = StatusAfterFailure(e)]
    /\ retries' = [retries EXCEPT ![e] = @ + 1]
    /\ UNCHANGED <<expired, topic, faults>>

\* The UPDATE fails; the error is logged and the row stays as it is.
MarkFails(r, e) ==
    /\ faults < MaxFaults
    /\ First(r, e)
    /\ outcome[r] # "none"
    /\ Advance(r, e)
    /\ faults' = faults + 1
    /\ UNCHANGED <<status, retries, expired, topic>>

\* The process stops at any point of a batch and is started again.  Just after
\* the lease this is also the transaction whose COMMIT was not acknowledged.
Crash(r) ==
    /\ faults < MaxFaults
    /\ batch[r] # {}
    /\ batch' = [batch EXCEPT ![r] = {}]
    /\ outcome' = [outcome EXCEPT ![r] = "none"]
    /\ faults' = faults + 1
    /\ UNCHANGED <<status, retries, expired, topic>>

\* What relay r does when nothing goes wrong but Kafka.
poll(r) ==
    \/ FindAndLockPendingEvents(r)
    \/ \E e \in Events :
          WriteMessages(r, e) \/ MarkEventAsSent(r, e) \/ MarkEventAsFailed(r, e)

RelayNext ==
    \/ \E e \in Events : Save(e) \/ ExpireLease(e)
    \/ \E r \in Relays, e \in Events : MarkFails(r, e)
    \/ \E r \in Relays : poll(r) \/ Crash(r)

\* The ticker polls for as long as the process runs, and time passes.
RelaySpec ==
    /\ RelayInit /\ [][RelayNext]_relayVars
    /\ \A r \in Relays : WF_relayVars(poll(r))
    /\ \A e \in Events : WF_relayVars(ExpireLease(e))

---------------------------------------------------------------------------
\* A row is settled only for cause, whatever crashed, timed out or was done twice:
\* SENT means that Kafka has the event, so that none is dropped silently, and
\* DEAD_LETTER that it failed max_retries times.
SettledForCause ==
    \A e \in Events :
        /\ status[e] = "SENT" => e \in topic
        /\ status[e] = "DEAD_LETTER" => retries[e] >= MaxRetries

InHand(e) == \E r \in Relays : e \in batch[r]

\* The life cycle of a row ends at SENT or DEAD_LETTER.  Only a relay that lost its
\* lease, and still holds the event, can write over either.
LifecycleEnds ==
    [][\A e \in Events :
          status[e] \in {"SENT", "DEAD_LETTER"} /\ ~InHand(e) =>
              status'[e] = status[e]]_relayVars

\* Every saved event is eventually settled, SENT or DEAD_LETTER, for good: no
\* row is forgotten in PROCESSING by a crash or a failed UPDATE, and no event
\* that always fails holds the others up.
SettlesForGood ==
    \A e \in Events :
        status[e] # "none" ~> [](status[e] \in {"SENT", "DEAD_LETTER"})

---------------------------------------------------------------------------
\* What the saga sees of the relay.
Promise == INSTANCE Outbox WITH
    saved     <- {e \in Events : status[e] # "none"},
    published <- topic,
    lost      <- {e \in Events : status[e] = "DEAD_LETTER" /\ e \notin topic}

\* The relays implement Outbox: through crashes, lost marks and stale leases, each
\* saved event is published or given up, an event once published is never lost
\* again, and nothing reaches Kafka that no transaction committed.
KeepsPromise == Promise!OutboxSpec
===========================================================================
