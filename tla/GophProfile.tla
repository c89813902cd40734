----------------------------- MODULE GophProfile -----------------------------
(* The whole system: the HTTP server and the worker, which never talk to     *)
(* each other and meet in the database, in the bucket and, through the       *)
(* outbox, in the broker.                                                    *)
EXTENDS Server, Worker

vars == <<budget, rows, outbox, objects, topic, serverVars, workerVars>>

Init ==
  /\ EnvironmentInit
  /\ RepositoryInit
  /\ ObjectStoreInit
  /\ BrokerInit
  /\ ServerInit
  /\ WorkerInit

Next ==
  \/ ServerNext /\ UNCHANGED <<topic, workerVars>>
  \/ WorkerNext /\ UNCHANGED serverVars

Spec == Init /\ [][Next]_vars

(* Every request and every goroutine that can go on eventually does, an      *)
(* ended worker process is started again (a Deployment restarts its pod) and *)
(* time passes.  Nothing is assumed of clients: no upload or deletion has to *)
(* happen.                                                                   *)
Fairness ==
  /\ \A r \in Requests : WF_vars(RequestStep(r) /\ UNCHANGED <<topic, workerVars>>)
  /\ WF_vars(UploadConsumer /\ UNCHANGED serverVars)
  /\ WF_vars(DeleteConsumer /\ UNCHANGED serverVars)
  /\ WF_vars(MaintenanceLoop /\ UNCHANGED serverVars)
  /\ WF_vars(WorkerRestart /\ UNCHANGED serverVars)
  /\ \A a \in Avatars :
       WF_vars(ClaimExpires(a) /\ Holders(a) = {} /\ UNCHANGED serverVars)

FairSpec == Spec /\ Fairness

-----------------------------------------------------------------------------

TypeOK ==
  /\ EnvironmentTypeOK
  /\ RepositoryTypeOK
  /\ ObjectStoreTypeOK
  /\ BrokerTypeOK
  /\ ServerTypeOK
  /\ WorkerTypeOK

Events(kind, a) == {i \in DOMAIN outbox : outbox[i].kind = kind /\ outbox[i].avatar = a}

(* Every avatar row has exactly one upload event in the outbox and every     *)
(* deleted one exactly one delete event, and there are no others: the event  *)
(* is written by the transaction that writes the row, and ON CONFLICT in     *)
(* insertOutbox never has to merge the events of two requests.               *)
OutboxMatchesRows ==
  /\ \A i, j \in DOMAIN outbox : SameEventID(outbox[i], outbox[j]) => i = j
  /\ \A a \in Avatars : /\ Exists(a) <=> Events(OutboxUpload, a) # {}
                        /\ rows[a].deleted <=> Events(OutboxDelete, a) # {}

(* An upload that was answered with 201 can be fetched until it is deleted:  *)
(* neither a compensating Delete nor the delete consumer removes the         *)
(* original of a live, acknowledged avatar, whatever fails.                  *)
AckedOriginalPresent ==
  \A a \in acked : Live(a) => Stored(OriginalObjectKey(a))

(* The thumbnails a live row names are in the bucket, and a completed row    *)
(* names all of them: processUpload stores first and records afterwards, and *)
(* nothing it records is removed before the row is deleted.                  *)
ThumbnailsPresent ==
  \A a \in Avatars :
    Live(a) => /\ KeysOf(a, rows[a].thumbs) \subseteq objects
               /\ rows[a].status = "completed" => rows[a].thumbs = ThumbnailSizes

(* The key a reader took from a row is still there when it is downloaded,    *)
(* unless the avatar was deleted in between or never acknowledged: a reader  *)
(* is not affected by processing that goes on under it.                      *)
ReadersFindObject ==
  \A r \in Requests :
    LET a == req[r].avatar
    IN req[r].pc = "download" /\ Live(a) /\ a \in acked
         => KeysOf(a, req[r].sizes) \subseteq objects

(* At most one processor works on an avatar that is live: the claim of       *)
(* MarkProcessing excludes the other, as long as nobody holds one for more   *)
(* than two minutes.                                                         *)
ClaimExclusive == \A a \in Avatars : Live(a) => \A p, q \in Holders(a) : p = q

(* An avatar that is completed stays completed, and keeps its thumbnails:    *)
(* no late FailProcessing or second MarkProcessing takes it back.            *)
CompletedStable ==
  [][\A a \in Avatars :
       rows[a].status = "completed"
         => rows'[a].status = "completed" /\ rows[a].thumbs \subseteq rows'[a].thumbs]_vars

(* What is still on its way to the delete consumer for an avatar. *)
DeleteUnderWay(a) ==
  \/ \E i \in Events(OutboxDelete, a) : ~outbox[i].published
  \/ Pending(OutboxDelete, a)

(* A deleted avatar whose original is still in the bucket has its delete     *)
(* event in the outbox, unpublished, or in the topic, uncommitted: FlushMark *)
(* comes after the publish and the offset commit after the removal.          *)
DeleteNotLost ==
  \A a \in Avatars :
    rows[a].deleted /\ Stored(OriginalObjectKey(a)) => DeleteUnderWay(a)

(* The sizes that the delete event of an avatar names. *)
Named(a) ==
  {size \in AllowedSizes : \E i \in Events(OutboxDelete, a) : size \in outbox[i].sizes}

(* Once a deletion is carried through, no object that its event names is in  *)
(* the bucket: no retry of ProcessDelete skips a key, no crash between two   *)
(* removals lets the offset be committed, and no processUpload that is still *)
(* at work stores a thumbnail again after its removal.                       *)
DeletionComplete ==
  \A a \in Avatars : ~DeleteUnderWay(a) => objects \cap KeysOf(a, Named(a)) = {}

(* Whenever no request is under way, the gauge of a server that was never    *)
(* restarted is what the live avatars take: of two deletions of one avatar   *)
(* at a time only one is subtracted, and an upload is added with its row.    *)
(* What the code adds and subtracts is the original; thumbnails it never     *)
(* counts.                                                                   *)
UsageMatchesRows ==
  (\A r \in Requests : req[r].pc = "idle")
    => storageUsage = Cardinality({a \in Avatars : Live(a)})

-----------------------------------------------------------------------------
(* What the repository's documents and tests say of the program and the      *)
(* program does not do; a run shows a counterexample to each.                *)

(* The topic avatar.deleted is documented as the deletion of the avatar's    *)
(* objects: once the deletion has been carried through and nobody works on   *)
(* the avatar, the bucket holds nothing of it.                               *)
DeletedObjectsGone ==
  \A a \in Avatars :
    rows[a].deleted /\ ~DeleteUnderWay(a) /\ del.avatar # a /\ Holders(a) = {}
      => objects \cap KeysOf(a, AllowedSizes) = {}

(* A failed create leaves no original behind: an original without a row      *)
(* belongs to a request that will yet create the row or remove the object.   *)
(* A cancelled request breaks it; failures of the transaction alone do not.  *)
NoOrphanOriginal ==
  \A a \in Avatars :
    Stored(OriginalObjectKey(a)) /\ ~Exists(a)
      => \E r \in Requests : req[r].avatar = a /\ req[r].pc \in {"create", "compensate"}

-----------------------------------------------------------------------------

(* An acknowledged avatar is eventually completed, unless it is deleted or   *)
(* its image cannot be decoded.                                              *)
EventuallyCompleted ==
  \A a \in Avatars \ Truncated :
    (a \in acked) ~> (rows[a].status = "completed" \/ rows[a].deleted)

(* The original of a deleted avatar eventually leaves the bucket. *)
EventuallyRemoved ==
  \A a \in Avatars : rows[a].deleted ~> ~Stored(OriginalObjectKey(a))
=============================================================================
