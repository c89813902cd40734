------------------------------- MODULE Broker -------------------------------
(* The topics avatar.uploaded and avatar.deleted, with the one consumer group *)
(* that reads them.  Messages are keyed by avatar and a partition is ordered, *)
(* so a topic is one queue per avatar, in every interleaving: this allows     *)
(* whatever the three real partitions allow.  A queue holds what the group    *)
(* has not committed: Fetch reads its head, Commit removes it, and after a    *)
(* restart the group starts again at the head.                                *)
EXTENDS Domain, Sequences

VARIABLE topic      \* topic[kind][a]: the sizes each uncommitted event names

BrokerInit == topic = [kind \in EventKinds |-> [a \in Avatars |-> << >>]]

BrokerTypeOK == topic \in [EventKinds -> [Avatars -> Seq(SUBSET AllowedSizes)]]

Pending(kind, a) == topic[kind][a] # << >>

(* Publish and Commit are at-least-once towards their caller: an error may   *)
(* hide a success.                                                           *)
Publish(e) == topic' = [topic EXCEPT ![e.kind][e.avatar] = Append(@, e.sizes)]

PublishFails(e) == Publish(e) \/ UNCHANGED topic

Fetched(kind, a) == Head(topic[kind][a])

Commit(kind, a) == topic' = [topic EXCEPT ![kind][a] = Tail(@)]

CommitFails(kind, a) == Commit(kind, a) \/ UNCHANGED topic
=============================================================================
