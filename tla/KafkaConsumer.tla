--------------------------- MODULE KafkaConsumer ---------------------------
(***************************************************************************)
(* The consume loop of the Go services: orders-service has three, payments *)
(* has one, all the same but for the handler.  One partition of the topic  *)
(* and the reader it is assigned to.  kafka-go is external: FetchMessage   *)
(* returns the messages one after another from a position the reader keeps *)
(* in memory; the committed offset is only read when the reader joins the  *)
(* group, on a start or a rebalance.                                       *)
(***************************************************************************)
EXTENDS Naturals, FiniteSets

CONSTANTS
    Length,     \* bound: how many messages are produced
    Malformed,  \* the offsets of the messages whose JSON does not parse
    MaxFaults   \* bound: handler errors, commit errors, restarts in a behaviour

ASSUME ConsumerInputs ==
    /\ Length \in Nat
    /\ Malformed \subseteq 0..(Length - 1)
    /\ MaxFaults \in Nat

VARIABLES
    end,        \* how many messages the partition holds
    position,   \* the offset FetchMessage returns next
    committed,  \* the offset the group has committed
    inHand,     \* the offset processMessage was called with
    stage,      \* where the loop is: it fetches, handles or commits
    done,       \* offsets a handler has processed
    failed,     \* offsets a handler has returned an error for
    faults      \* history: how many faults so far

consumerVars == <<end, position, committed, inHand, stage, done, failed, faults>>

Offsets == 0..(Length - 1)

ConsumerTypeOK ==
    /\ end \in 0..Length
    /\ position \in 0..end
    /\ committed \in 0..end
    /\ inHand \in 0..Length
    /\ stage \in {"fetch", "handle", "commit"}
    /\ stage # "fetch" => inHand < end
    /\ done \subseteq Offsets \ Malformed
    /\ failed \subseteq Offsets \ Malformed
    /\ faults \in 0..MaxFaults

ConsumerInit ==
    /\ end = 0
    /\ position = 0
    /\ committed = 0
    /\ inHand = 0
    /\ stage = "fetch"
    /\ done = {}
    /\ failed = {}
    /\ faults = 0

\* A relay writes a message to the topic.
Produce ==
    /\ end < Length
    /\ end' = end + 1
    /\ UNCHANGED <<position, committed, inHand, stage, done, failed, faults>>

FetchMessage ==
    /\ stage = "fetch"
    /\ position < end
    /\ inHand' = position
    /\ position' = position + 1
    /\ stage' = "handle"
    /\ UNCHANGED <<end, committed, done, failed, faults>>

\* A malformed message that is not skipped: tried over and over.
DiscardMalformed_Retries ==
    /\ stage = "handle"
    /\ inHand \in Malformed
    /\ UNCHANGED consumerVars

\* json.Unmarshal fails: "commit to skip malformed message".
DiscardMalformed ==
    /\ stage = "handle"
    /\ inHand \in Malformed
    /\ stage' = "commit"
    /\ UNCHANGED <<end, position, committed, inHand, done, failed, faults>>

\* A handler whose offset is committed before it has run.
Handle_CommitsFirst ==
    /\ stage = "handle"
    /\ inHand \notin Malformed
    /\ \/ committed # inHand + 1 /\ committed' = inHand + 1 /\ UNCHANGED <<stage, done>>
       \/ /\ committed = inHand + 1 /\ UNCHANGED committed
          /\ done' = done \cup {inHand}
          /\ stage' = "fetch"
    /\ UNCHANGED <<end, position, inHand, failed, faults>>

\* ConfirmOrder, CancelOrder or ProcessPayment returns nil.
Handle ==
    /\ stage = "handle"
    /\ inHand \notin Malformed
    /\ done' = done \cup {inHand}
    /\ stage' = "commit"
    /\ UNCHANGED <<end, position, committed, inHand, failed, faults>>

\* It returns an error: rolled back, or committed with the answer lost.  The
\* offset is not committed and the loop fetches the next message.
HandleFails ==
    /\ faults < MaxFaults
    /\ stage = "handle"
    /\ inHand \notin Malformed
    /\ done' \in {done, done \cup {inHand}}
    /\ failed' = failed \cup {inHand}
    /\ stage' = "fetch"
    /\ faults' = faults + 1
    /\ UNCHANGED <<end, position, committed, inHand>>

\* Commit the offset after the next one: CommitMessages adds one by itself.
commitMessage_OneTooFar ==
    /\ stage = "commit"
    /\ committed' = inHand + 2
    /\ stage' = "fetch"
    /\ UNCHANGED <<end, position, inHand, done, failed, faults>>

\* Synchronous (CommitInterval 0).  The group's offset becomes the next one,
\* whatever it was before.
commitMessage ==
    /\ stage = "commit"
    /\ committed' = inHand + 1
    /\ stage' = "fetch"
    /\ UNCHANGED <<end, position, inHand, done, failed, faults>>

\* CommitMessages returns an error, which is logged; the group may have it.
CommitFails ==
    /\ faults < MaxFaults
    /\ stage = "commit"
    /\ committed' \in {committed, inHand + 1}
    /\ stage' = "fetch"
    /\ faults' = faults + 1
    /\ UNCHANGED <<end, position, inHand, done, failed>>

\* The service stops, at any point, and starts again.
Restart ==
    /\ faults < MaxFaults
    /\ position' = committed
    /\ stage' = "fetch"
    /\ faults' = faults + 1
    /\ UNCHANGED <<end, committed, inHand, done, failed>>

\* The group gets another generation; a message in hand stays in hand.
Rebalance ==
    /\ faults < MaxFaults
    /\ position' = committed
    /\ faults' = faults + 1
    /\ UNCHANGED <<end, committed, inHand, stage, done, failed>>

\* The loop of Start, when nothing fails.
ConsumerLoop == FetchMessage \/ DiscardMalformed \/ Handle \/ commitMessage

ConsumerNext ==
    Produce \/ ConsumerLoop \/ HandleFails \/ CommitFails \/ Restart \/ Rebalance

\* The goroutine runs for as long as the service does.
ConsumerSpec ==
    ConsumerInit /\ [][ConsumerNext]_consumerVars /\ WF_consumerVars(ConsumerLoop)

---------------------------------------------------------------------------
\* The committed offset never runs ahead of the work: below it there are only
\* messages processed, malformed, or whose handler failed and was logged,
\* whatever restart, rebalance or late commit came in between.
CommittedIsHandled ==
    \A o \in Offsets : o < committed => o \in done \cup Malformed \cup failed

\* Every message produced is eventually handed to the handler: neither a
\* malformed message nor a failing one blocks those behind it.
EveryMessageIsHandled ==
    \A o \in Offsets : o < end ~> o \in done \cup Malformed \cup failed

\* "don't commit - message will be redelivered": a message whose handler failed
\* stays above the committed offset until it has been processed.
FailedStaysUncommitted ==
    \A o \in failed \ done : committed <= o
===========================================================================
