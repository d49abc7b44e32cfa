------------------------ MODULE KafkaConsumerProofs ------------------------
(***************************************************************************)
(* Proofs about the consume loop of the Go services, for any number of     *)
(* messages and of faults.  That nothing unhandled is ever committed       *)
(* depends on where the loop stands: a message is committed together with  *)
(* all those before it, so they must have been handled when it was         *)
(* fetched, also when a rebalance has moved the reader back meanwhile.     *)
(***************************************************************************)
EXTENDS KafkaConsumer, TLAPS

Settled(o) == o \in done \cup Malformed \cup failed

\* What is behind the loop: below the offset the group has, below the one fetched
\* next, save the message in hand, and below the message in hand itself.
Behind ==
    /\ CommittedIsHandled
    /\ \A o \in Offsets : o < position => Settled(o) \/ (stage = "handle" /\ o = inHand)
    /\ stage # "fetch" => \A o \in Offsets : o < inHand => Settled(o)
    /\ stage = "commit" => Settled(inHand)

ConsumerInv == ConsumerTypeOK /\ Behind

---------------------------------------------------------------------------
\* The start: an empty partition, nothing committed.
LEMMA ConsumerInit_Inv == ConsumerInit => ConsumerInv
  BY ConsumerInputs DEF ConsumerInit, ConsumerInv, ConsumerTypeOK, Behind,
                        CommittedIsHandled, Settled, Offsets

\* The message in hand is one of the partition.
LEMMA InHandIsAnOffset ==
    ConsumerTypeOK /\ stage # "fetch" => inHand \in Offsets /\ inHand + 1 \in 0..end
  BY ConsumerInputs DEF ConsumerTypeOK, Offsets

\* Every step keeps the types.
LEMMA ConsumerNext_Type ==
    ConsumerTypeOK /\ [ConsumerNext]_consumerVars => ConsumerTypeOK'
<1> SUFFICES ASSUME ConsumerTypeOK, [ConsumerNext]_consumerVars PROVE ConsumerTypeOK'
  OBVIOUS
<1> USE ConsumerInputs DEF ConsumerTypeOK, Offsets
<1>1. CASE Produce
  BY <1>1 DEF Produce
<1>2. CASE FetchMessage
  BY <1>2 DEF FetchMessage
<1>3. CASE DiscardMalformed
  BY <1>3 DEF DiscardMalformed
<1>4. CASE Handle
  BY <1>4, InHandIsAnOffset DEF Handle
<1>5. CASE commitMessage
  BY <1>5, InHandIsAnOffset DEF commitMessage
<1>6. CASE HandleFails
  BY <1>6, InHandIsAnOffset DEF HandleFails
<1>7. CASE CommitFails
  BY <1>7, InHandIsAnOffset DEF CommitFails
<1>8. CASE Restart
  BY <1>8 DEF Restart
<1>9. CASE Rebalance
  BY <1>9 DEF Rebalance
<1>10. CASE UNCHANGED consumerVars
  BY <1>10 DEF consumerVars
<1>11. QED
  BY <1>1, <1>2, <1>3, <1>4, <1>5, <1>6, <1>7, <1>8, <1>9, <1>10
  DEF ConsumerNext, ConsumerLoop

\* Every step keeps what is behind the loop settled.
LEMMA ConsumerNext_Behind ==
    ConsumerInv /\ [ConsumerNext]_consumerVars => Behind'
<1> SUFFICES ASSUME ConsumerTypeOK, Behind, [ConsumerNext]_consumerVars PROVE Behind'
  BY DEF ConsumerInv
<1> USE InHandIsAnOffset DEF Behind, CommittedIsHandled, Settled
<1>0. position \in Nat /\ committed \in Nat /\ inHand \in Nat /\ \A o \in Offsets : o \in Nat
  BY ConsumerInputs DEF ConsumerTypeOK, Offsets
<1>1. CASE Produce
  BY <1>1 DEF Produce
<1>2. CASE FetchMessage
  BY <1>0, <1>2 DEF FetchMessage
<1>3. CASE DiscardMalformed
  BY <1>0, <1>3 DEF DiscardMalformed
<1>4. CASE Handle
  BY <1>0, <1>4 DEF Handle
<1>5. CASE commitMessage
  BY <1>0, <1>5 DEF commitMessage
<1>6. CASE HandleFails
  BY <1>0, <1>6 DEF HandleFails
<1>7. CASE CommitFails
  BY <1>0, <1>7 DEF CommitFails
<1>8. CASE Restart
  BY <1>0, <1>8 DEF Restart
<1>9. CASE Rebalance
  BY <1>0, <1>9 DEF Rebalance
<1>10. CASE UNCHANGED consumerVars
  BY <1>10 DEF consumerVars
<1>11. QED
  BY <1>1, <1>2, <1>3, <1>4, <1>5, <1>6, <1>7, <1>8, <1>9, <1>10
  DEF ConsumerNext, ConsumerLoop

\* The invariant of the loop, from which the theorems follow.
LEMMA ConsumerInvHolds == ConsumerSpec => []ConsumerInv
<1>1. ConsumerInv /\ [ConsumerNext]_consumerVars => ConsumerInv'
  BY ConsumerNext_Type, ConsumerNext_Behind DEF ConsumerInv
<1>2. QED
  BY <1>1, ConsumerInit_Inv, PTL DEF ConsumerSpec

---------------------------------------------------------------------------
\* The offsets of reader and group stay within the partition, whatever fails.
THEOREM ConsumerTypeCorrect == ConsumerSpec => []ConsumerTypeOK
<1>1. ConsumerInv => ConsumerTypeOK
  BY DEF ConsumerInv
<1>2. QED
  BY <1>1, ConsumerInvHolds, PTL

\* commitMessage never commits, with its own message, one before it that was not
\* handled, malformed or logged as failed.
THEOREM NothingIsSkippedSilently == ConsumerSpec => []CommittedIsHandled
<1>1. ConsumerInv => CommittedIsHandled
  BY DEF ConsumerInv, Behind
<1>2. QED
  BY <1>1, ConsumerInvHolds, PTL
===========================================================================
