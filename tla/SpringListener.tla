--------------------------- MODULE SpringListener ---------------------------
(***************************************************************************)
(* The Kafka listeners of inventory-service: one partition, and the        *)
(* listener threads of the instances, one of which it is assigned to.      *)
(* KafkaConfig asks for AckMode.RECORD, so each record is committed after  *)
(* its listener; spring-kafka is external, and what KafkaConfig leaves at  *)
(* its default is too: an exception seeks back to the record, after ten    *)
(* attempts in a row it is given up and committed.                         *)
(*                                                                         *)
(* A value that JsonDeserializer cannot parse makes poll() itself throw,   *)
(* and no ErrorHandlingDeserializer is configured: the position does not   *)
(* move and no step past the record exists.                                *)
(***************************************************************************)
EXTENDS Naturals, FiniteSets

CONSTANTS
    Instances,    \* the listener threads for this partition's topic
    Length,       \* bound: how many records are produced
    Malformed,    \* the offsets of the records that do not parse
    MaxAttempts,  \* ten
    MaxFaults     \* bound: restarts and evictions in a behaviour

ASSUME ListenerInputs ==
    /\ Length \in Nat
    /\ Malformed \subseteq 0..(Length - 1)
    /\ MaxAttempts \in Nat \ {0}
    /\ MaxFaults \in Nat

VARIABLES
    end,        \* how many records the partition holds
    committed,  \* the offset the group has committed
    owner,      \* the instance the group has assigned the partition to
    at,         \* per instance: polling, in the listener, or about to commit
    offset,     \* per instance: the offset it is at
    batchEnd,   \* per instance: where the records it has polled end
    attempts,   \* per instance: failed attempts at that offset, in memory
    done,       \* offsets a listener has processed
    givenUp,    \* offsets the error handler has passed over
    faults      \* history: how many faults so far

listenerVars == <<end, committed, owner, at, offset, batchEnd, attempts, done,
                  givenUp, faults>>

Offsets == 0..(Length - 1)

ListenerTypeOK ==
    /\ end \in 0..Length
    /\ committed \in 0..end
    /\ owner \in Instances
    /\ at \in [Instances -> {"poll", "listener", "commit"}]
    /\ offset \in [Instances -> 0..end]
    /\ batchEnd \in [Instances -> 0..end]
    /\ attempts \in [Instances -> 0..(MaxAttempts - 1)]
    /\ done \subseteq Offsets \ Malformed
    /\ givenUp \subseteq Offsets \ Malformed
    /\ faults \in 0..MaxFaults

ListenerInit ==
    /\ end = 0
    /\ committed = 0
    /\ owner \in Instances
    /\ at = [i \in Instances |-> "poll"]
    /\ offset = [i \in Instances |-> 0]
    /\ batchEnd = [i \in Instances |-> 0]
    /\ attempts = [i \in Instances |-> 0]
    /\ done = {}
    /\ givenUp = {}
    /\ faults = 0

Produce ==
    /\ end < Length
    /\ end' = end + 1
    /\ UNCHANGED <<committed, owner, at, offset, batchEnd, attempts, done, givenUp, faults>>

\* Instance i goes from one point of its loop to another.
Move(i, from, to) ==
    /\ at[i] = from
    /\ at' = [at EXCEPT ![i] = to]

\* The batches poll() may return: it stops before a record that does not parse.
BatchEnds(i) == {n \in (offset[i] + 1)..end : Malformed \cap offset[i]..(n - 1) = {}}

\* ENABLE_AUTO_COMMIT: what poll() returns counts as processed.
Poll_AutoCommit(i) ==
    /\ owner = i
    /\ offset[i] = batchEnd[i]
    /\ Move(i, "poll", "listener")
    /\ \E n \in BatchEnds(i) : batchEnd' = [batchEnd EXCEPT ![i] = n] /\ committed' = n
    /\ UNCHANGED <<end, owner, offset, attempts, done, givenUp, faults>>

\* poll() returns one record or more; the first goes to the listener.
Poll(i) ==
    /\ owner = i
    /\ offset[i] = batchEnd[i]
    /\ Move(i, "poll", "listener")
    /\ \E n \in BatchEnds(i) : batchEnd' = [batchEnd EXCEPT ![i] = n]
    /\ UNCHANGED <<end, committed, owner, offset, attempts, done, givenUp, faults>>

\* The next record of the batch, also when the partition is another's by now.
NextRecord(i) ==
    /\ offset[i] < batchEnd[i]
    /\ Move(i, "poll", "listener")
    /\ UNCHANGED <<end, committed, owner, offset, batchEnd, attempts, done, givenUp, faults>>

\* consume() returns: its transaction is committed, or there was nothing to do.
ListenerReturns(i) ==
    /\ Move(i, "listener", "commit")
    /\ done' = done \cup {offset[i]}
    /\ UNCHANGED <<end, committed, owner, offset, batchEnd, attempts, givenUp, faults>>

\* An exception; the transaction may have been committed all the same.
Throws(i) ==
    /\ done' \in {done, done \cup {offset[i]}}
    /\ UNCHANGED <<end, committed, owner, faults>>

\* A back-off without limit.
SeekBack_Forever(i) ==
    /\ Move(i, "listener", "poll")
    /\ batchEnd' = [batchEnd EXCEPT ![i] = offset[i]]
    /\ UNCHANGED <<end, committed, owner, offset, attempts, done, givenUp, faults>>

\* A back-off that counts one attempt too few.
SeekBack_OneMore(i) ==
    /\ attempts[i] < MaxAttempts
    /\ Move(i, "listener", "poll")
    /\ Throws(i)
    /\ batchEnd' = [batchEnd EXCEPT ![i] = offset[i]]
    /\ attempts' = [attempts EXCEPT ![i] = @ + 1]
    /\ UNCHANGED <<offset, givenUp>>

\* A loop that goes on with the batch, as that of the Go services does.
SeekBack_GoesOn(i) ==
    /\ attempts[i] + 1 < MaxAttempts
    /\ Move(i, "listener", "poll")
    /\ Throws(i)
    /\ offset' = [offset EXCEPT ![i] = @ + 1]
    /\ attempts' = [attempts EXCEPT ![i] = @ + 1]
    /\ UNCHANGED <<batchEnd, givenUp>>

\* DefaultErrorHandler: the consumer seeks back to the failed record, and the rest
\* of the batch is polled again.
SeekBack(i) ==
    /\ attempts[i] + 1 < MaxAttempts
    /\ Move(i, "listener", "poll")
    /\ Throws(i)
    /\ batchEnd' = [batchEnd EXCEPT ![i] = offset[i]]
    /\ attempts' = [attempts EXCEPT ![i] = @ + 1]
    /\ UNCHANGED <<offset, givenUp>>

\* After the last attempt the record is logged, and committed like any other.
Recover(i) ==
    /\ attempts[i] + 1 = MaxAttempts
    /\ Move(i, "listener", "commit")
    /\ Throws(i)
    /\ givenUp' = givenUp \cup {offset[i]}
    /\ UNCHANGED <<offset, batchEnd, attempts>>

\* On to the next record; after a refused commit, of the batch nothing is left.
GoOn(i) ==
    /\ Move(i, "commit", "poll")
    /\ offset' = [offset EXCEPT ![i] = @ + 1]
    /\ batchEnd' = [batchEnd EXCEPT ![i] = IF owner = i THEN @ ELSE offset[i] + 1]
    /\ UNCHANGED <<end, owner, done, givenUp, faults>>

\* A broker that takes the commit of a member it has evicted.
Commit_AnyMember(i) ==
    /\ GoOn(i)
    /\ committed' = offset[i] + 1
    /\ attempts' = [attempts EXCEPT ![i] = 0]

\* AckMode.RECORD.  The broker refuses the commit of an instance that was evicted.
Commit(i) ==
    /\ GoOn(i)
    /\ committed' = IF owner = i THEN offset[i] + 1 ELSE committed
    /\ attempts' = [attempts EXCEPT ![i] = 0]

\* Instance i takes the partition up, from the committed offset.
Assign(i) ==
    /\ faults < MaxFaults
    /\ owner' = i
    /\ at' = [at EXCEPT ![i] = "poll"]
    /\ offset' = [offset EXCEPT ![i] = committed]
    /\ batchEnd' = [batchEnd EXCEPT ![i] = committed]
    /\ attempts' = [attempts EXCEPT ![i] = 0]
    /\ faults' = faults + 1
    /\ UNCHANGED <<end, committed, done, givenUp>>

\* The owner restarts, at any point.
Restart(i) == i = owner /\ Assign(i)

\* The owner sends no heartbeat for session.timeout.ms or does not poll for
\* max.poll.interval.ms.  It does not know, and finishes the record it is at or,
\* between two records, the next; it joins the group again only when it polls.
Evict(i) == i # owner /\ at[i] = "poll" /\ offset[i] = batchEnd[i] /\ Assign(i)

Loop(i) ==
    \/ Poll(i) \/ NextRecord(i)
    \/ ListenerReturns(i) \/ SeekBack(i) \/ Recover(i)
    \/ Commit(i)

ListenerNext ==
    Produce \/ \E i \in Instances : Loop(i) \/ Restart(i) \/ Evict(i)

\* A container polls for as long as its instance runs.
ListenerSpec ==
    /\ ListenerInit /\ [][ListenerNext]_listenerVars
    /\ \A i \in Instances : WF_listenerVars(Loop(i))

---------------------------------------------------------------------------
\* Through restarts and evictions, every record below the committed offset was
\* processed or given up; in particular none that does not parse is ever passed.
CommittedIsSettled == \A o \in Offsets : o < committed => o \in done \cup givenUp

\* A failed record is not overtaken: those behind it, of the same key perhaps, are
\* processed only when it was processed or given up.
SettledInOrder ==
    \A o \in done \cup givenUp : \A p \in 0..o : p \in done \cup givenUp

\* The late commit of an evicted instance does not take the group back.
CommittedOnlyGrows == [][committed' >= committed]_listenerVars

\* Every record with none before it that does not parse is eventually processed or
\* given up, though an exception may come every time.
RecordsSettle ==
    \A o \in Offsets : (\A p \in Malformed : o < p) =>
        (o < end ~> o \in done \cup givenUp)
===========================================================================
