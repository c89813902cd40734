----------------------------- MODULE ObjectStore -----------------------------
(* The S3 bucket behind internal/storage: the set of keys it holds.  Images  *)
(* are not modelled, an object's bytes are a function of its key (a retry of *)
(* a thumbnail writes the same bytes again).                                 *)
EXTENDS Domain

VARIABLE objects

ObjectStoreInit == objects = {}

ObjectStoreTypeOK == objects \subseteq ObjectKeys

Stored(key) == key \in objects

Put(key) == objects' = objects \cup {key}

(* RemoveObject on a key that is not there succeeds. *)
Remove(key) == objects' = objects \ {key}

(* A call that reported an error (a timeout, a lost answer) may have reached *)
(* the store.                                                                *)
PutFails(key) == Put(key) \/ UNCHANGED objects
RemoveFails(key) == Remove(key) \/ UNCHANGED objects
=============================================================================
