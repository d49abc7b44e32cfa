------------------------------- MODULE Outbox -------------------------------
(***************************************************************************)
(* What a service's outbox and its relay promise together, whatever        *)
(* crashes: an event that was saved is published, once or more, or given   *)
(* up for good, and nothing else is ever published.  This is all that the  *)
(* saga may build on.  OutboxRelay and InventoryRelay implement it.        *)
(***************************************************************************)
CONSTANT Events

VARIABLES
    saved,      \* events some transaction committed
    published,  \* events Kafka has
    lost        \* events given up that never reached Kafka

outboxVars == <<saved, published, lost>>

OutboxInit == saved = {} /\ published = {} /\ lost = {}

Save(e) ==
    /\ e \notin saved
    /\ saved' = saved \cup {e}
    /\ UNCHANGED <<published, lost>>

\* An event given up may still be in another relay's hands.
Publish(e) ==
    /\ e \in saved
    /\ published' = published \cup {e}
    /\ lost' = lost \ {e}
    /\ UNCHANGED saved

\* A relay may give up several in one transaction, and leave to be tried again what
\* another has given up.
GiveUp(es) ==
    /\ es \subseteq saved \ published
    /\ lost' = es
    /\ UNCHANGED <<saved, published>>

OutboxNext ==
    \/ \E e \in Events : Save(e) \/ Publish(e)
    \/ \E es \in SUBSET Events : GiveUp(es)

\* Every saved event is published or given up in the end, for good.
SavedIsSettled == \A e \in Events : e \in saved ~> [](e \in published \cup lost)

OutboxSpec == OutboxInit /\ [][OutboxNext]_outboxVars /\ SavedIsSettled
===========================================================================
