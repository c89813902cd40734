------------------------------- MODULE Domain -------------------------------
(* The vocabulary of internal/domain: avatars, the keys of the objects in the *)
(* bucket and the two kinds of outbox events.                                 *)
EXTENDS Naturals, Sizes

CONSTANTS Users,
          NoUser,        \* the owner of an avatar that has no row
          MaxAvatars,    \* how many uploads get as far as an id
          Truncated      \* the avatars whose header is readable (the upload
                         \* accepts them) and whose pixels are not

ASSUME UsersAssumption == NoUser \notin Users
ASSUME MaxAvatarsAssumption == MaxAvatars \in Nat

(* uuid.New() never returns the same id twice, and created_at is read just   *)
(* before it: the number of an avatar is its identity and its age.           *)
Avatars == 1..MaxAvatars
NoAvatar == 0

ASSUME TruncatedAssumption == Truncated \subseteq Avatars

(* An object key names the avatar and the size; the extension and the owner  *)
(* in the path are functions of the avatar.                                  *)
OriginalObjectKey(a) == <<a, SizeOriginal>>
ThumbnailObjectKey(a, size) == <<a, size>>

ObjectKeys == Avatars \X AllowedSizes

KeysOf(a, sizes) == {<<a, size>> : size \in sizes}

OutboxUpload == "upload"
OutboxDelete == "delete"
EventKinds == {OutboxUpload, OutboxDelete}

(* An event id is "upload:<avatar>" or "delete:<avatar>", so the kind and    *)
(* the avatar of an event identify it; the object keys it carries are kept   *)
(* as the sizes they name.                                                   *)
Event(kind, a, sizes) == [kind |-> kind, avatar |-> a, sizes |-> sizes]

SameEventID(e, f) == e.kind = f.kind /\ e.avatar = f.avatar

UploadEvent(a) == Event(OutboxUpload, a, {SizeOriginal})

(* Mutant of DeleteEvent: the original is forgotten. *)
DeleteEvent_ThumbsOnly(a, thumbs) == Event(OutboxDelete, a, thumbs)

(* deleteOutboxEvent: the original and the thumbnails of the row as it was   *)
(* read.                                                                     *)
DeleteEvent(a, thumbs) == Event(OutboxDelete, a, {SizeOriginal} \cup thumbs)
=============================================================================
