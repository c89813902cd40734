--------------------------- MODULE AvatarLifecycle ---------------------------
(* What the service promises about an avatar, with nothing of how it is done: *)
(* no requests, no outbox, no broker, no worker and no failures.  An avatar   *)
(* is unknown, then accepted, then possibly ready (its thumbnails are         *)
(* recorded), then possibly deleted, and never goes back.  The images kept of *)
(* it only grow while it is accepted or ready; the one exception is the       *)
(* original of an upload that was not acknowledged.                           *)
EXTENDS Domain

VARIABLES phase,      \* phase[a]: how far the avatar has come
          owner,      \* owner[a]: who uploaded it
          promised,   \* the avatars whose upload was acknowledged
          kept        \* kept[a]: the sizes kept of it

lifecycleVars == <<phase, owner, promised, kept>>

Init ==
  /\ phase = [a \in Avatars |-> "unknown"]
  /\ owner = [a \in Avatars |-> NoUser]
  /\ promised = {}
  /\ kept = [a \in Avatars |-> {}]

Keep(a, sizes) == kept' = [kept EXCEPT ![a] = sizes]

Advance(a, next) == phase' = [phase EXCEPT ![a] = next]

(* The original of an upload arrives. *)
Arrive(a) ==
  /\ phase[a] = "unknown"
  /\ Keep(a, kept[a] \cup {SizeOriginal})
  /\ UNCHANGED <<phase, owner, promised>>

(* The avatar becomes known, with its original; its uploader is told so, or  *)
(* not.                                                                      *)
Accept(a, user) ==
  /\ phase[a] = "unknown"
  /\ SizeOriginal \in kept[a]
  /\ Advance(a, "accepted")
  /\ owner' = [owner EXCEPT ![a] = user]
  /\ promised' \in {promised, promised \cup {a}}
  /\ UNCHANGED kept

(* The original goes again; never that of an acknowledged upload. *)
Withdraw(a) ==
  /\ a \notin promised
  /\ Keep(a, kept[a] \ {SizeOriginal})
  /\ UNCHANGED <<phase, owner, promised>>

(* A thumbnail is stored; it may come after the deletion. *)
StoreThumbnail(a, size) ==
  /\ phase[a] # "unknown"
  /\ Keep(a, kept[a] \cup {size})
  /\ UNCHANGED <<phase, owner, promised>>

(* The thumbnails are recorded, once all of them are kept. *)
MakeReady(a) ==
  /\ phase[a] = "accepted"
  /\ ThumbnailSizes \subseteq kept[a]
  /\ Advance(a, "ready")
  /\ UNCHANGED <<owner, promised, kept>>

Delete(a) ==
  /\ phase[a] \in {"accepted", "ready"}
  /\ Advance(a, "deleted")
  /\ UNCHANGED <<owner, promised, kept>>

(* Only what was deleted is cleared away. *)
Clear(a, size) ==
  /\ phase[a] = "deleted"
  /\ Keep(a, kept[a] \ {size})
  /\ UNCHANGED <<phase, owner, promised>>

Next ==
  \E a \in Avatars :
    \/ Arrive(a)
    \/ \E user \in Users : Accept(a, user)
    \/ Withdraw(a)
    \/ \E size \in ThumbnailSizes : StoreThumbnail(a, size)
    \/ MakeReady(a)
    \/ Delete(a)
    \/ \E size \in AllowedSizes : Clear(a, size)

Spec == Init /\ [][Next]_lifecycleVars
=============================================================================
