-------------------------- MODULE EventPublication --------------------------
(***************************************************************************)
(* What a transactional outbox promises its service: an event recorded in  *)
(* the table is handed to Kafka at least once, and is retired (never       *)
(* looked at again) only after it was.  Publishing again changes nothing.  *)
(***************************************************************************)
CONSTANT Recordable     \* the events the service may record

VARIABLES recorded, published, retired

pubVars == <<recorded, published, retired>>

PubInit == recorded = {} /\ published = {} /\ retired = {}

Record(e) ==
    /\ e \notin recorded
    /\ recorded' = recorded \cup {e}
    /\ UNCHANGED <<published, retired>>

Publish(e) ==
    /\ e \in recorded
    /\ published' = published \cup {e}
    /\ UNCHANGED <<recorded, retired>>

(* A relay may retire the events of a whole batch at once. *)
Retire(S) ==
    /\ S \subseteq published
    /\ retired' = retired \cup S
    /\ UNCHANGED <<recorded, published>>

PubNext ==
    \/ \E e \in Recordable : Record(e) \/ Publish(e)
    \/ \E S \in SUBSET published : Retire(S)

SafePublication == PubInit /\ [][PubNext]_pubVars

Publication ==
    /\ SafePublication
    /\ \A e \in Recordable : WF_pubVars(Publish(e)) /\ WF_pubVars(Retire({e}))
=============================================================================
