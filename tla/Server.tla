------------------------------- MODULE Server -------------------------------
(* The HTTP server: the requests in flight of the avatar handlers and, for   *)
(* each, the calls AvatarService makes to the repository and to the object   *)
(* store, one step per call.  A request that fails validation, names no live *)
(* avatar or the avatar of somebody else is answered without a write: it is  *)
(* a step that changes nothing and is left out.                              *)
EXTENDS Environment, Repository, ObjectStore, Integers

CONSTANT Requests   \* how many requests the server handles at a time

VARIABLES req,      \* the requests in flight
          nextID,   \* the next avatar id
          acked,    \* the avatars whose upload was answered with 201
          storageUsage   \* the gauge observability.StorageUsage, with every
                         \* image of size one: it lives in the process

serverVars == <<req, nextID, acked, storageUsage>>

Request == [pc     : {"idle", "create", "compensate", "get", "delete", "download"},
            user   : Users \cup {NoUser},
            avatar : Avatars \cup {NoAvatar},
            sizes  : SUBSET AllowedSizes]

IdleRequest == [pc |-> "idle", user |-> NoUser, avatar |-> NoAvatar, sizes |-> {}]

ServerInit ==
  /\ req = [r \in Requests |-> IdleRequest]
  /\ nextID = 1
  /\ acked = {}
  /\ storageUsage = 0

ServerTypeOK ==
  /\ req \in [Requests -> Request]
  /\ nextID \in 1..(MaxAvatars + 1)
  /\ acked \subseteq Avatars
  /\ storageUsage \in Int

Answer(r) == req' = [req EXCEPT ![r] = IdleRequest]

Continue(r, pc, user, a, sizes) ==
  req' = [req EXCEPT ![r] = [pc |-> pc, user |-> user, avatar |-> a, sizes |-> sizes]]

-----------------------------------------------------------------------------

(* upload, up to the PutObject of the original.  When that call fails the    *)
(* request is answered with the error and nothing is undone.                 *)
UploadPut(r, user) ==
  /\ req[r].pc = "idle"
  /\ nextID <= MaxAvatars
  /\ nextID' = nextID + 1
  /\ \/ /\ Healthy
        /\ Put(OriginalObjectKey(nextID))
        /\ Continue(r, "create", user, nextID, {SizeOriginal})
     \/ /\ Fault("s3")
        /\ PutFails(OriginalObjectKey(nextID))
        /\ UNCHANGED req
  /\ UNCHANGED <<repositoryVars, acked, storageUsage>>

(* upload, the transaction that inserts the row and the outbox event.  Every *)
(* error leads to the compensating Delete of the original, also that of a    *)
(* transaction which the database did commit.                                *)
UploadCreate(r) ==
  LET a == req[r].avatar
  IN /\ req[r].pc = "create"
     /\ \/ /\ Healthy
           /\ CreateWithOutbox(a, req[r].user)
           /\ acked' = acked \cup {a}
           /\ storageUsage' = storageUsage + 1
           /\ Answer(r)
        \/ /\ \/ Fault("db") /\ UNCHANGED repositoryVars
              \/ Fault("commit") /\ CreateWithOutbox(a, req[r].user)
           /\ Continue(r, "compensate", req[r].user, a, req[r].sizes)
           /\ UNCHANGED <<acked, storageUsage>>
     /\ UNCHANGED <<objects, nextID>>

(* upload, `_ = s.objects.Delete`: its own error is dropped. *)
UploadCompensate(r) ==
  /\ req[r].pc = "compensate"
  /\ \/ Healthy /\ Remove(OriginalObjectKey(req[r].avatar))
     \/ Fault("s3") /\ RemoveFails(OriginalObjectKey(req[r].avatar))
  /\ Answer(r)
  /\ UNCHANGED <<repositoryVars, nextID, acked, storageUsage>>

-----------------------------------------------------------------------------

(* delete, after its GetByID: the delete event is built from the row as it   *)
(* is now, and used by a later transaction.                                  *)
Snapshot(r, user, a) ==
  Continue(r, "delete", user, a, DeleteEvent(a, rows[a].thumbs).sizes)

(* DELETE /avatars/{id} by its owner. *)
DeleteByID(r, user) ==
  /\ req[r].pc = "idle"
  /\ \E a \in LiveOf(user) : Snapshot(r, user, a)
  /\ Healthy
  /\ UNCHANGED <<repositoryVars, objects, nextID, acked, storageUsage>>

(* DELETE /users/{id}/avatar: DeleteLatest looks the avatar up ... *)
DeleteLatest(r, user) ==
  /\ req[r].pc = "idle"
  /\ \E a \in Avatars : IsLatest(a, user) /\ Continue(r, "get", user, a, {})
  /\ Healthy
  /\ UNCHANGED <<repositoryVars, objects, nextID, acked, storageUsage>>

(* ... and deletes it by id, as above. *)
DeleteGet(r) ==
  /\ req[r].pc = "get"
  /\ \/ /\ Healthy
        /\ IF Deletable(req[r].avatar, req[r].user)
           THEN Snapshot(r, req[r].user, req[r].avatar)
           ELSE Answer(r)
     \/ Fault("db") /\ Answer(r)
  /\ UNCHANGED <<repositoryVars, objects, nextID, acked, storageUsage>>

(* Mutant of UsageAfterDelete: a deletion that found no row is counted too. *)
UsageAfterDelete_Always(a, user) == storageUsage - 1

(* StorageUsage.Sub, only after a transaction that deleted the row. *)
UsageAfterDelete(a, user) ==
  IF Deletable(a, user) THEN storageUsage - 1 ELSE storageUsage

(* delete, the transaction that sets deleted_at and inserts the delete event. *)
DeleteSoft(r) ==
  LET a == req[r].avatar
      effect == IF Deletable(a, req[r].user)
                THEN SoftDeleteOwnedWithOutbox(a, req[r].sizes \ {SizeOriginal})
                ELSE UNCHANGED repositoryVars
  IN /\ req[r].pc = "delete"
     /\ \/ /\ Healthy
           /\ effect
           /\ storageUsage' = UsageAfterDelete(a, req[r].user)
        \/ Fault("db") /\ UNCHANGED <<repositoryVars, storageUsage>>
        \/ Fault("commit") /\ effect /\ UNCHANGED storageUsage
     /\ Answer(r)
     /\ UNCHANGED <<objects, nextID, acked>>

-----------------------------------------------------------------------------

(* Mutant of ImageSize: no fallback to the original. *)
ImageSize_NoFallback(a, size) == size

(* FetchImage: the thumbnail if the row that was read names it, otherwise    *)
(* the original.                                                             *)
ImageSize(a, size) == IF size \in rows[a].thumbs THEN size ELSE SizeOriginal

(* GET of an image, the read of the row.  GetByUser reads the latest row of  *)
(* a user, which is one of these.                                            *)
GetImage(r) ==
  /\ req[r].pc = "idle"
  /\ \E a \in Avatars, size \in AllowedSizes :
       /\ Live(a)
       /\ Continue(r, "download", NoUser, a, {ImageSize(a, size)})
  /\ Healthy
  /\ UNCHANGED <<repositoryVars, objects, nextID, acked, storageUsage>>

(* GET of an image, the read of the object; the answer is the image or, if   *)
(* the object is not there or the call fails, an error.                      *)
DownloadImage(r) ==
  /\ req[r].pc = "download"
  /\ Answer(r)
  /\ Healthy
  /\ UNCHANGED <<repositoryVars, objects, nextID, acked, storageUsage>>

-----------------------------------------------------------------------------

(* The request's context is cancelled: whatever call comes next fails before *)
(* it is sent, and so does the compensating Delete, which is given the same  *)
(* context.                                                                  *)
RequestCancelled(r) ==
  /\ req[r].pc # "idle"
  /\ Fault("cancel")
  /\ Answer(r)
  /\ UNCHANGED <<repositoryVars, objects, nextID, acked, storageUsage>>

(* The process dies with all its requests, and the gauge starts at zero in   *)
(* the next one; it keeps no other state.                                    *)
ServerCrash ==
  /\ storageUsage # 0 \/ \E r \in Requests : req[r].pc # "idle"
  /\ Fault("crash")
  /\ req' = [r \in Requests |-> IdleRequest]
  /\ storageUsage' = 0
  /\ UNCHANGED <<repositoryVars, objects, nextID, acked>>

(* The steps of a request that is under way. *)
RequestStep(r) ==
  \/ UploadCreate(r)
  \/ UploadCompensate(r)
  \/ DeleteGet(r)
  \/ DeleteSoft(r)
  \/ DownloadImage(r)

ServerNext ==
  \/ \E r \in Requests, user \in Users :
       UploadPut(r, user) \/ DeleteByID(r, user) \/ DeleteLatest(r, user)
  \/ \E r \in Requests : GetImage(r) \/ RequestStep(r) \/ RequestCancelled(r)
  \/ ServerCrash
=============================================================================
