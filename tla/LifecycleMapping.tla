--------------------------- MODULE LifecycleMapping ---------------------------
(* How the state of the system maps to the state of AvatarLifecycle: the row  *)
(* of an avatar gives its phase, and the bucket what is kept of it.           *)
EXTENDS GophProfile

phaseOf(a) ==
  IF ~Exists(a) THEN "unknown"
  ELSE IF rows[a].deleted THEN "deleted"
  ELSE IF rows[a].thumbs = {} THEN "accepted" ELSE "ready"

keptOf(a) == {size \in AllowedSizes : <<a, size>> \in objects}

phases == [a \in Avatars |-> phaseOf(a)]
owners == [a \in Avatars |-> rows[a].owner]
keptSizes == [a \in Avatars |-> keptOf(a)]

Lifecycle ==
  INSTANCE AvatarLifecycle
    WITH phase <- phases, owner <- owners, promised <- acked, kept <- keptSizes

(* Server and worker together, whatever interleaves and whatever fails, do   *)
(* to an avatar only what AvatarLifecycle allows: phases never go back (a    *)
(* late FailProcessing takes no recorded thumbnail away), a compensating     *)
(* Delete takes only originals nobody was promised, and the delete consumer  *)
(* clears only what is deleted.                                              *)
ImplementsLifecycle == Lifecycle!Spec
=============================================================================
