-------------------------- MODULE GophProfile_proofs --------------------------
(* Proofs, for every set of users and requests, every number of avatars and  *)
(* every set of failures, of the safety properties of GophProfile.           *)
EXTENDS GophProfile, TLAPS

(* A processor that is in the middle of a call of processUpload, or of the   *)
(* commit that follows it.                                                   *)
Busy(p) == proc[p].pc \notin {"idle", "exited"}

(* The ids of uploads in flight belong to one request each, and are not yet  *)
(* the ids of acknowledged avatars.                                          *)
Uploading(r) == req[r].pc \in {"create", "compensate"}

RequestInv ==
  /\ \A r \in Requests :
       /\ req[r].pc # "idle" => req[r].avatar \in Avatars /\ req[r].avatar < nextID
       /\ Uploading(r) => req[r].avatar \notin acked
       /\ req[r].pc = "create" => /\ ~Exists(req[r].avatar)
                                  /\ Stored(OriginalObjectKey(req[r].avatar))
       /\ req[r].pc \in {"delete", "download"} => Exists(req[r].avatar)
  /\ \A r, s \in Requests :
       Uploading(r) /\ Uploading(s) /\ r # s => req[r].avatar # req[s].avatar
  /\ \A a \in Avatars : Exists(a) => a < nextID
  /\ \A a \in acked : Exists(a)

(* A deleted row exists; events, messages and work under way are about rows  *)
(* that exist, those of a deletion about rows that are deleted.              *)
WorkInv ==
  /\ \A a \in Avatars : rows[a].deleted => Exists(a)
  /\ \A kind \in EventKinds, a \in Avatars :
       Pending(kind, a) => Exists(a) /\ (kind = OutboxDelete => rows[a].deleted)
  /\ \A p \in Processors : Busy(p) => proc[p].avatar \in Avatars /\ Exists(proc[p].avatar)
  /\ Busy("consumer") => Pending(OutboxUpload, proc["consumer"].avatar)
  /\ del.pc \in {"remove", "commit"} =>
       del.avatar \in Avatars /\ Pending(OutboxDelete, del.avatar)
  /\ maint.batch \subseteq DOMAIN outbox
  /\ \A a \in maint.stuck : Exists(a)

(* The thumbnails a processor has stored are in the bucket for as long as    *)
(* the avatar is live, and it has stored all of them when it completes.      *)
ProcessorInv ==
  \A p \in Processors :
    /\ Busy(p) /\ Live(proc[p].avatar)
         => KeysOf(proc[p].avatar, proc[p].done) \subseteq objects
    /\ proc[p].pc = "complete" => proc[p].done = ThumbnailSizes

(* The size a reader chose is the original or one the row still names. *)
ReaderInv ==
  \A r \in Requests :
    req[r].pc = "download" =>
      req[r].sizes \subseteq {SizeOriginal} \cup rows[req[r].avatar].thumbs

SafetyInv ==
  /\ TypeOK
  /\ RequestInv
  /\ WorkInv
  /\ OutboxMatchesRows
  /\ AckedOriginalPresent
  /\ ThumbnailsPresent
  /\ ProcessorInv
  /\ ReaderInv
-----------------------------------------------------------------------------
(* Frame lemmas: what a step that does not touch a part's variables leaves   *)
(* alone.                                                                    *)

(* A step that leaves the tables, the bucket and the requests alone.         *)
LEMMA RequestFrame ==
  ASSUME RequestInv, UNCHANGED <<rows, objects, req, nextID, acked>>
  PROVE  RequestInv'
BY DEF RequestInv, Uploading, Exists, Stored

(* A step that leaves the tables, the topics and the goroutines alone. *)
LEMMA WorkFrame ==
  ASSUME WorkInv, UNCHANGED <<rows, outbox, topic, proc, del, maint>>
  PROVE  WorkInv'
BY DEF WorkInv, Exists, Pending, Busy

(* A step that leaves both tables alone. *)
LEMMA OutboxFrame ==
  ASSUME OutboxMatchesRows, UNCHANGED <<rows, outbox>>
  PROVE  OutboxMatchesRows'
BY DEF OutboxMatchesRows, Exists, Events, SameEventID

(* A step that leaves the avatars alone and removes no object. *)
LEMMA ThumbnailsFrame ==
  ASSUME ThumbnailsPresent, UNCHANGED rows, objects \subseteq objects'
  PROVE  ThumbnailsPresent'
BY DEF ThumbnailsPresent, Live, Exists

(* A step that acknowledges no upload, writes no row, removes no object. *)
LEMMA AckedFrame ==
  ASSUME AckedOriginalPresent, UNCHANGED <<rows, acked>>, objects \subseteq objects'
  PROVE  AckedOriginalPresent'
BY DEF AckedOriginalPresent, Live, Exists, Stored

(* A step that leaves processUpload alone and removes no object. *)
LEMMA ProcessorFrame ==
  ASSUME ProcessorInv, UNCHANGED <<rows, proc>>, objects \subseteq objects'
  PROVE  ProcessorInv'
BY DEF ProcessorInv, Busy, Live, Exists

(* A step that leaves the avatars and the requests alone. *)
LEMMA ReaderFrame ==
  ASSUME ReaderInv, UNCHANGED <<rows, req>>
  PROVE  ReaderInv'
BY DEF ReaderInv

-----------------------------------------------------------------------------
(* The server.                                                               *)

(* upload takes a new id and stores the original under it: no row, event or  *)
(* request knows that id yet.                                                *)
LEMMA UploadPutSafe ==
  ASSUME SafetyInv, NEW r \in Requests, NEW user \in Users,
         UploadPut(r, user), UNCHANGED <<topic, workerVars>>
  PROVE  SafetyInv'
<1> USE DEF SafetyInv
<1>a. /\ nextID \in Avatars
      /\ UNCHANGED <<rows, outbox, acked, proc, del, maint, stopping>>
  BY DEF UploadPut, TypeOK, ServerTypeOK, Avatars, repositoryVars, workerVars
<1>b. objects \subseteq objects' /\ objects' \subseteq objects \cup {OriginalObjectKey(nextID)}
  BY DEF UploadPut, Put, PutFails
<1>1. TypeOK'
  <2>1. EnvironmentTypeOK'
    BY MaxFaultsAssumption DEF UploadPut, Healthy, Fault, TypeOK, EnvironmentTypeOK
  <2>2. RepositoryTypeOK' /\ BrokerTypeOK' /\ WorkerTypeOK'
    BY <1>a DEF TypeOK, RepositoryTypeOK, BrokerTypeOK, WorkerTypeOK
  <2>3. ObjectStoreTypeOK'
    BY <1>a, <1>b DEF TypeOK, ObjectStoreTypeOK, ObjectKeys, OriginalObjectKey, AllowedSizes
  <2>4. ServerTypeOK'
    BY <1>a, MaxAvatarsAssumption DEF UploadPut, TypeOK, ServerTypeOK, Continue, Request, Avatars, AllowedSizes
  <2> QED BY <2>1, <2>2, <2>3, <2>4 DEF TypeOK
<1>2. RequestInv'
  BY <1>a, <1>b DEF RequestInv, UploadPut, Continue, Uploading, Exists, Stored, TypeOK, ServerTypeOK, Put, Avatars, OriginalObjectKey
<1>3. WorkInv' /\ OutboxMatchesRows'
  BY <1>a, WorkFrame, OutboxFrame
<1>4. AckedOriginalPresent' /\ ThumbnailsPresent' /\ ProcessorInv'
  BY <1>a, <1>b, AckedFrame, ThumbnailsFrame, ProcessorFrame
<1>5. ReaderInv'
  BY <1>a DEF UploadPut, ReaderInv, Continue, TypeOK, ServerTypeOK
<1> QED BY <1>1, <1>2, <1>3, <1>4, <1>5

(* A step in which requests only end, or go on to read or delete an avatar   *)
(* whose row exists.                                                         *)
LEMMA RequestMoves ==
  ASSUME SafetyInv, EnvironmentTypeOK',
         UNCHANGED <<rows, outbox, objects, nextID, acked, topic, workerVars>>,
         req' \in [Requests -> Request],
         storageUsage' \in Int,
         \A r \in Requests :
           \/ req'[r] = req[r]
           \/ req'[r].pc = "idle"
           \/ /\ req'[r].pc \in {"get", "delete", "download"}
              /\ req'[r].avatar \in Avatars
              /\ Exists(req'[r].avatar)
              /\ req'[r].pc = "download" =>
                   req'[r].sizes \subseteq {SizeOriginal} \cup rows[req'[r].avatar].thumbs
  PROVE  SafetyInv'
<1> USE DEF SafetyInv
<1>a. UNCHANGED <<proc, del, maint, stopping>>
  BY DEF workerVars
<1>1. TypeOK'
  BY <1>a DEF TypeOK, RepositoryTypeOK, ObjectStoreTypeOK, BrokerTypeOK, ServerTypeOK, WorkerTypeOK
<1>2. RequestInv'
  BY DEF RequestInv, Uploading, Exists, Stored
<1>3. WorkInv' /\ OutboxMatchesRows' /\ AckedOriginalPresent' /\ ThumbnailsPresent' /\ ProcessorInv'
  BY <1>a, WorkFrame, OutboxFrame, AckedFrame, ThumbnailsFrame, ProcessorFrame
<1>4. ReaderInv'
  BY DEF ReaderInv
<1> QED BY <1>1, <1>2, <1>3, <1>4

(* The steps of the server that write nothing. *)
LEMMA RequestReadSafe ==
  ASSUME SafetyInv, NEW r \in Requests, NEW user \in Users \cup {NoUser},
         \/ DeleteByID(r, user)
         \/ DeleteLatest(r, user)
         \/ DeleteGet(r)
         \/ GetImage(r)
         \/ DownloadImage(r)
         \/ RequestCancelled(r),
         UNCHANGED <<topic, workerVars>>
  PROVE  SafetyInv'
<1> USE DEF SafetyInv
<1>a. UNCHANGED <<rows, outbox, objects, nextID, acked>>
  BY DEF DeleteByID, DeleteLatest, DeleteGet, GetImage, DownloadImage, RequestCancelled,
         repositoryVars
<1>b. EnvironmentTypeOK'
  BY MaxFaultsAssumption DEF TypeOK, EnvironmentTypeOK, DeleteByID, DeleteLatest, DeleteGet,
     GetImage, DownloadImage, RequestCancelled, Healthy, Fault
<1> DEFINE Reads(x) == /\ x \in Request
                       /\ x.pc \in {"get", "delete", "download"}
                       /\ x.avatar \in Avatars
                       /\ Exists(x.avatar)
                       /\ x.pc = "download" =>
                            x.sizes \subseteq {SizeOriginal} \cup rows[x.avatar].thumbs
<1>c. IdleRequest \in Request /\ IdleRequest.pc = "idle"
  BY DEF IdleRequest, Request
<1>d. \/ req' = [req EXCEPT ![r] = IdleRequest]
      \/ \E x : Reads(x) /\ req' = [req EXCEPT ![r] = x]
  <2>2. CASE DownloadImage(r) \/ RequestCancelled(r)
    BY <2>2 DEF DownloadImage, RequestCancelled, Answer
  <2>3. CASE GetImage(r)
    <3>1. PICK a \in Avatars, size \in AllowedSizes :
             Live(a) /\ Continue(r, "download", NoUser, a, {ImageSize(a, size)})
      BY <2>3 DEF GetImage
    <3> DEFINE x == [pc |-> "download", user |-> NoUser, avatar |-> a,
                     sizes |-> {ImageSize(a, size)}]
    <3>2. ImageSize(a, size) \in {SizeOriginal} \cup rows[a].thumbs
      BY DEF ImageSize
    <3>3. ImageSize(a, size) \in AllowedSizes
      BY DEF ImageSize, AllowedSizes
    <3>4. Reads(x)
      BY <3>1, <3>2, <3>3 DEF Request, Live
    <3>5. req' = [req EXCEPT ![r] = x]
      BY <3>1 DEF Continue
    <3> QED BY <3>4, <3>5
  <2>4. CASE DeleteLatest(r, user)
    <3>1. PICK a \in Avatars : IsLatest(a, user) /\ Continue(r, "get", user, a, {})
      BY <2>4 DEF DeleteLatest
    <3> DEFINE x == [pc |-> "get", user |-> user, avatar |-> a, sizes |-> {}]
    <3>2. Reads(x)
      BY <3>1 DEF Request, IsLatest, LiveOf, Live
    <3>3. req' = [req EXCEPT ![r] = x]
      BY <3>1 DEF Continue
    <3> QED BY <3>2, <3>3
  <2>5. ASSUME NEW u \in Users \cup {NoUser}, NEW a \in Avatars, Live(a), Snapshot(r, u, a)
        PROVE  \E x : Reads(x) /\ req' = [req EXCEPT ![r] = x]
    <3> DEFINE x == [pc |-> "delete", user |-> u, avatar |-> a,
                     sizes |-> DeleteEvent(a, rows[a].thumbs).sizes]
    <3>1. x.sizes \subseteq AllowedSizes
      BY DEF DeleteEvent, Event, AllowedSizes, TypeOK, RepositoryTypeOK, Row
    <3>2. Reads(x)
      BY <2>5, <3>1 DEF Request, Live
    <3>3. req' = [req EXCEPT ![r] = x]
      BY <2>5 DEF Snapshot, Continue
    <3> QED BY <3>2, <3>3
  <2>6. CASE DeleteByID(r, user)
    BY <2>5, <2>6 DEF DeleteByID, LiveOf
  <2>7. CASE DeleteGet(r)
    <3>1. req[r].avatar \in Avatars /\ req[r].user \in Users \cup {NoUser}
      BY <2>7 DEF DeleteGet, RequestInv, TypeOK, ServerTypeOK, Request
    <3> QED BY <2>5, <2>7, <3>1 DEF DeleteGet, Deletable, Answer
  <2> QED BY <2>2, <2>3, <2>4, <2>6, <2>7
<1>e. req' \in [Requests -> Request]
  BY <1>c, <1>d DEF TypeOK, ServerTypeOK
<1>f. \A s \in Requests : req'[s] = req[s] \/ req'[s].pc = "idle" \/ Reads(req'[s])
  BY <1>c, <1>d DEF TypeOK, ServerTypeOK
<1>g. storageUsage' \in Int
  BY DEF TypeOK, ServerTypeOK, DeleteByID, DeleteLatest, DeleteGet, GetImage, DownloadImage,
         RequestCancelled
<1> QED BY <1>a, <1>b, <1>e, <1>f, <1>g, RequestMoves

(* A dying server takes its requests and the gauge with it. *)
LEMMA ServerCrashSafe ==
  ASSUME SafetyInv, ServerCrash, UNCHANGED <<topic, workerVars>>
  PROVE  SafetyInv'
<1>1. UNCHANGED <<rows, outbox, objects, nextID, acked>> /\ storageUsage' \in Int
  BY DEF ServerCrash, repositoryVars
<1>2. EnvironmentTypeOK'
  BY MaxFaultsAssumption DEF SafetyInv, TypeOK, EnvironmentTypeOK, ServerCrash, Fault
<1>3. req' \in [Requests -> Request] /\ \A r \in Requests : req'[r].pc = "idle"
  BY DEF ServerCrash, IdleRequest, Request
<1> QED BY <1>1, <1>2, <1>3, RequestMoves
-----------------------------------------------------------------------------
(* The two transactions that write the outbox.                               *)

(* The insert of an event whose id is new appends it. *)
LEMMA InsertNewEvent ==
  ASSUME RepositoryTypeOK, NEW kind \in EventKinds, NEW a \in Avatars,
         NEW sizes \in SUBSET AllowedSizes,
         Events(kind, a) = {}, insertOutbox(Event(kind, a, sizes))
  PROVE  /\ outbox' \in Seq(OutboxEvent)
         /\ DOMAIN outbox' = DOMAIN outbox \cup {Len(outbox) + 1}
         /\ Len(outbox) + 1 \notin DOMAIN outbox
         /\ \A i \in DOMAIN outbox : outbox'[i] = outbox[i]
         /\ outbox'[Len(outbox) + 1].kind = kind
         /\ outbox'[Len(outbox) + 1].avatar = a
         /\ outbox'[Len(outbox) + 1].sizes = sizes
         /\ ~outbox'[Len(outbox) + 1].published
<1> DEFINE e == [kind |-> kind, avatar |-> a, sizes |-> sizes, published |-> FALSE]
<1>1. outbox' = Append(outbox, e)
  BY DEF insertOutbox, Event, Events, SameEventID
<1>2. e \in OutboxEvent
  BY DEF OutboxEvent
<1>3. outbox \in Seq(OutboxEvent)
  BY DEF RepositoryTypeOK
<1> HIDE DEF e
<1>4. outbox' \in Seq(OutboxEvent) /\ Len(outbox') = Len(outbox) + 1
  BY <1>1, <1>2, <1>3
<1>5. /\ DOMAIN outbox' = DOMAIN outbox \cup {Len(outbox) + 1}
      /\ Len(outbox) + 1 \notin DOMAIN outbox
  BY <1>3, <1>4
<1>6. /\ \A i \in DOMAIN outbox : outbox'[i] = outbox[i]
      /\ outbox'[Len(outbox) + 1] = e
  BY <1>1, <1>2, <1>3
<1> QED BY <1>4, <1>5, <1>6 DEF e

(* CreateWithOutbox, on an id without a row: it adds the row and its one     *)
(* upload event.                                                             *)
LEMMA CreateEffect ==
  ASSUME RepositoryTypeOK, WorkInv, OutboxMatchesRows,
         NEW a \in Avatars, NEW user \in Users \cup {NoUser},
         ~Exists(a), CreateWithOutbox(a, user)
  PROVE  /\ RepositoryTypeOK'
         /\ OutboxMatchesRows'
         /\ \A b \in Avatars : b # a => rows'[b] = rows[b]
         /\ rows'[a].status = "pending" /\ ~rows'[a].deleted /\ rows'[a].thumbs = {}
         /\ DOMAIN outbox \subseteq DOMAIN outbox'
<1> DEFINE row == [NoRow EXCEPT !.status = "pending", !.owner = user]
<1>1. row \in Row
  BY DEF NoRow, Row, ProcessingStatuses
<1>2. rows' = [rows EXCEPT ![a] = row]
  BY DEF CreateWithOutbox
<1>3. row.status = "pending" /\ ~row.deleted /\ row.thumbs = {}
  BY DEF NoRow
<1> HIDE DEF row
<1>4. /\ rows' \in [Avatars -> Row]
      /\ rows'[a] = row
      /\ \A b \in Avatars : b # a => rows'[b] = rows[b]
  BY <1>1, <1>2 DEF RepositoryTypeOK
<1>5. Events(OutboxUpload, a) = {} /\ Events(OutboxDelete, a) = {}
  BY DEF OutboxMatchesRows, WorkInv
<1>6. /\ outbox' \in Seq(OutboxEvent)
      /\ DOMAIN outbox' = DOMAIN outbox \cup {Len(outbox) + 1}
      /\ Len(outbox) + 1 \notin DOMAIN outbox
      /\ \A i \in DOMAIN outbox : outbox'[i] = outbox[i]
      /\ outbox'[Len(outbox) + 1].kind = OutboxUpload
      /\ outbox'[Len(outbox) + 1].avatar = a
  <2>1. insertOutbox(Event(OutboxUpload, a, {SizeOriginal}))
    BY DEF CreateWithOutbox, UploadEvent
  <2>2. OutboxUpload \in EventKinds /\ {SizeOriginal} \in SUBSET AllowedSizes
    BY DEF EventKinds, AllowedSizes
  <2> QED BY <1>5, <2>1, <2>2, InsertNewEvent
<1>7. OutboxMatchesRows'
  <2>1. \A i, j \in DOMAIN outbox' : SameEventID(outbox'[i], outbox'[j]) => i = j
    BY <1>5, <1>6 DEF OutboxMatchesRows, Events, SameEventID
  <2>2. ASSUME NEW b \in Avatars
        PROVE  /\ Exists(b)' <=> Events(OutboxUpload, b)' # {}
               /\ rows'[b].deleted <=> Events(OutboxDelete, b)' # {}
    <3>1. CASE b = a
      BY <1>3, <1>4, <1>5, <1>6, <3>1 DEF Exists, Events, OutboxUpload, OutboxDelete
    <3>2. CASE b # a
      <4>1. Events(OutboxUpload, b)' = Events(OutboxUpload, b)
        BY <1>6, <3>2 DEF Events
      <4>2. Events(OutboxDelete, b)' = Events(OutboxDelete, b)
        BY <1>6, <3>2 DEF Events
      <4> QED BY <1>4, <3>2, <4>1, <4>2 DEF OutboxMatchesRows, Exists
    <3> QED BY <3>1, <3>2
  <2> QED BY <2>1, <2>2 DEF OutboxMatchesRows, SameEventID
<1> QED BY <1>3, <1>4, <1>6, <1>7 DEF RepositoryTypeOK

(* SoftDeleteOwnedWithOutbox, on a live row: the row is deleted and has its  *)
(* one delete event.                                                         *)
LEMMA SoftDeleteEffect ==
  ASSUME RepositoryTypeOK, OutboxMatchesRows,
         NEW a \in Avatars, NEW thumbs \in SUBSET AllowedSizes,
         Live(a), SoftDeleteOwnedWithOutbox(a, thumbs)
  PROVE  /\ RepositoryTypeOK'
         /\ OutboxMatchesRows'
         /\ \A b \in Avatars : b # a => rows'[b] = rows[b]
         /\ rows'[a].status # "absent" /\ rows'[a].deleted /\ rows'[a].thumbs = rows[a].thumbs
         /\ DOMAIN outbox \subseteq DOMAIN outbox'
<1>1. rows' = [rows EXCEPT ![a].deleted = TRUE, ![a].stale = FALSE]
  BY DEF SoftDeleteOwnedWithOutbox
<1>2. /\ rows' \in [Avatars -> Row]
      /\ \A b \in Avatars : b # a => rows'[b] = rows[b]
      /\ rows'[a].status = rows[a].status
      /\ rows'[a].thumbs = rows[a].thumbs
      /\ rows'[a].deleted
  BY <1>1 DEF RepositoryTypeOK, Row
<1>3. Events(OutboxDelete, a) = {}
  BY DEF OutboxMatchesRows, Live
<1>4. /\ outbox' \in Seq(OutboxEvent)
      /\ DOMAIN outbox' = DOMAIN outbox \cup {Len(outbox) + 1}
      /\ Len(outbox) + 1 \notin DOMAIN outbox
      /\ \A i \in DOMAIN outbox : outbox'[i] = outbox[i]
      /\ outbox'[Len(outbox) + 1].kind = OutboxDelete
      /\ outbox'[Len(outbox) + 1].avatar = a
  <2> DEFINE sizes == {SizeOriginal} \cup thumbs
  <2>1. insertOutbox(Event(OutboxDelete, a, sizes))
    BY DEF SoftDeleteOwnedWithOutbox, DeleteEvent
  <2>2. OutboxDelete \in EventKinds /\ sizes \in SUBSET AllowedSizes
    BY DEF EventKinds, AllowedSizes
  <2> HIDE DEF sizes
  <2> QED BY <1>3, <2>1, <2>2, InsertNewEvent
<1>5. OutboxMatchesRows'
  <2>1. \A i, j \in DOMAIN outbox' : SameEventID(outbox'[i], outbox'[j]) => i = j
    BY <1>3, <1>4 DEF OutboxMatchesRows, Events, SameEventID
  <2>2. ASSUME NEW b \in Avatars
        PROVE  /\ Exists(b)' <=> Events(OutboxUpload, b)' # {}
               /\ rows'[b].deleted <=> Events(OutboxDelete, b)' # {}
    <3>1. Events(OutboxUpload, b)' = Events(OutboxUpload, b)
      BY <1>4 DEF Events, OutboxUpload, OutboxDelete
    <3>2. Exists(b)' <=> Exists(b)
      BY <1>2 DEF Exists
    <3>3. CASE b = a
      BY <1>2, <1>4, <3>1, <3>2, <3>3 DEF OutboxMatchesRows, Events
    <3>4. CASE b # a
      <4>1. Events(OutboxDelete, b)' = Events(OutboxDelete, b)
        BY <1>4, <3>4 DEF Events
      <4> QED BY <1>2, <3>1, <3>2, <3>4, <4>1 DEF OutboxMatchesRows
    <3> QED BY <3>3, <3>4
  <2> QED BY <2>1, <2>2 DEF OutboxMatchesRows, SameEventID
<1> QED BY <1>2, <1>4, <1>5 DEF RepositoryTypeOK, Exists, Live

(* Rows that come into being or are deleted do not disturb what is under way. *)
LEMMA WorkRows ==
  ASSUME WorkInv, UNCHANGED <<topic, proc, del, maint>>,
         DOMAIN outbox \subseteq DOMAIN outbox',
         \A a \in Avatars : /\ Exists(a) => Exists(a)'
                            /\ rows[a].deleted => rows'[a].deleted
                            /\ rows'[a].deleted => Exists(a)',
         maint.stuck \subseteq Avatars
  PROVE  WorkInv'
BY DEF WorkInv, Exists, Pending, Busy, Processors
-----------------------------------------------------------------------------
(* The steps of the server that write.                                       *)

(* The create transaction of upload, with a row under an id that only this   *)
(* request knows; if it reports an error the upload is not acknowledged.     *)
LEMMA UploadCreateSafe ==
  ASSUME SafetyInv, NEW r \in Requests, UploadCreate(r), UNCHANGED <<topic, workerVars>>
  PROVE  SafetyInv'
<1> USE DEF SafetyInv
<1> DEFINE a == req[r].avatar
<1>a. /\ a \in Avatars /\ ~Exists(a) /\ a \notin acked /\ a < nextID
      /\ Stored(OriginalObjectKey(a))
      /\ req[r].user \in Users \cup {NoUser} /\ req[r].pc = "create"
  BY DEF UploadCreate, RequestInv, Uploading, TypeOK, ServerTypeOK, Request
<1>b. UNCHANGED <<objects, nextID, topic, proc, del, maint, stopping>>
  BY DEF UploadCreate, workerVars
<1>c. EnvironmentTypeOK' /\ ObjectStoreTypeOK' /\ BrokerTypeOK' /\ WorkerTypeOK'
  BY <1>b, MaxFaultsAssumption DEF TypeOK, EnvironmentTypeOK, ObjectStoreTypeOK, BrokerTypeOK,
     WorkerTypeOK, UploadCreate, Healthy, Fault
<1>d. IdleRequest \in Request /\ IdleRequest.pc = "idle"
  BY DEF IdleRequest, Request
<1>1. ServerTypeOK'
  BY <1>a, <1>b, <1>d DEF UploadCreate, TypeOK, ServerTypeOK, Answer, Continue, Request
<1>2. CASE UNCHANGED repositoryVars /\ acked' = acked
           /\ req' = [req EXCEPT ![r] = [pc |-> "compensate", user |-> req[r].user,
                                         avatar |-> a, sizes |-> req[r].sizes]]
  <2>a. UNCHANGED <<rows, outbox, acked>>
    BY <1>2 DEF repositoryVars
  <2>1. TypeOK'
    BY <1>c, <1>1, <2>a DEF TypeOK, RepositoryTypeOK
  <2>2. RequestInv'
    BY <1>a, <1>b, <1>2, <2>a DEF RequestInv, Uploading, Exists, Stored, TypeOK, ServerTypeOK
  <2>3. WorkInv' /\ OutboxMatchesRows' /\ AckedOriginalPresent' /\ ThumbnailsPresent' /\ ProcessorInv'
    BY <1>b, <2>a, WorkFrame, OutboxFrame, AckedFrame, ThumbnailsFrame, ProcessorFrame
  <2>4. ReaderInv'
    BY <1>2, <2>a DEF ReaderInv, TypeOK, ServerTypeOK
  <2> QED BY <2>1, <2>2, <2>3, <2>4
<1>3. CASE /\ CreateWithOutbox(a, req[r].user)
           /\ \/ acked' = acked \cup {a} /\ Answer(r)
              \/ acked' = acked /\ Continue(r, "compensate", req[r].user, a, req[r].sizes)
  <2>a. /\ RepositoryTypeOK'
        /\ OutboxMatchesRows'
        /\ \A b \in Avatars : b # a => rows'[b] = rows[b]
        /\ rows'[a].status = "pending" /\ ~rows'[a].deleted /\ rows'[a].thumbs = {}
        /\ DOMAIN outbox \subseteq DOMAIN outbox'
    BY <1>a, <1>3, CreateEffect DEF TypeOK
  <2>b. acked' \subseteq acked \cup {a}
    BY <1>3
  <2>c. \A s \in Requests : s # r => req'[s] = req[s]
    BY <1>3 DEF Answer, Continue, TypeOK, ServerTypeOK
  <2>d. \/ req'[r].pc = "idle"
        \/ req'[r].pc = "compensate" /\ req'[r].avatar = a /\ acked' = acked
    BY <1>3, <1>d DEF Answer, Continue, TypeOK, ServerTypeOK
  <2>e. \A b \in Avatars : /\ Exists(b) => b # a /\ Exists(b)'
                           /\ Exists(b)' => b = a \/ Exists(b)
                           /\ b # a => (Live(b)' <=> Live(b))
    BY <1>a, <2>a DEF Exists, Live
  <2>1. TypeOK'
    BY <1>c, <1>1, <2>a DEF TypeOK
  <2>2. RequestInv'
    <3>1. ASSUME NEW s \in Requests
          PROVE  /\ req'[s].pc # "idle" => req'[s].avatar \in Avatars /\ req'[s].avatar < nextID'
                 /\ Uploading(s)' => req'[s].avatar \notin acked'
                 /\ req'[s].pc = "create" => /\ ~Exists(req[s].avatar)'
                                             /\ Stored(OriginalObjectKey(req[s].avatar))'
                 /\ req'[s].pc \in {"delete", "download"} => Exists(req[s].avatar)'
      <4>1. CASE s = r
        BY <1>a, <1>b, <2>d, <4>1 DEF Uploading
      <4>2. CASE s # r
        <5>1. Uploading(s) => req[s].avatar # a
          BY <1>a, <4>2 DEF RequestInv, Uploading
        <5> QED BY <1>a, <1>b, <2>b, <2>c, <2>e, <4>2, <5>1 DEF RequestInv, Uploading, Stored
      <4> QED BY <4>1, <4>2
    <3>2. \A s, t \in Requests :
            Uploading(s)' /\ Uploading(t)' /\ s # t => req'[s].avatar # req'[t].avatar
      BY <1>a, <2>c, <2>d DEF RequestInv, Uploading
    <3>3. \A b \in Avatars : Exists(b)' => b < nextID'
      BY <1>a, <1>b, <2>e DEF RequestInv
    <3>4. \A b \in acked' : Exists(b)'
      BY <1>a, <2>a, <2>b, <2>e DEF RequestInv, Exists, TypeOK, ServerTypeOK
    <3> QED BY <3>1, <3>2, <3>3, <3>4 DEF RequestInv
  <2>3. WorkInv'
    <3>1. \A b \in Avatars : /\ Exists(b) => Exists(b)'
                             /\ rows[b].deleted => rows'[b].deleted
                             /\ rows'[b].deleted => Exists(b)'
      BY <1>a, <2>a, <2>e DEF WorkInv
    <3>2. maint.stuck \subseteq Avatars
      BY DEF TypeOK, WorkerTypeOK, Maintenance
    <3> QED BY <1>b, <2>a, <3>1, <3>2, WorkRows
  <2>4. AckedOriginalPresent'
    BY <1>a, <1>b, <2>b, <2>e DEF AckedOriginalPresent, Stored, TypeOK, ServerTypeOK
  <2>5. ThumbnailsPresent'
    BY <1>b, <2>a, <2>e DEF ThumbnailsPresent, KeysOf
  <2>6. ProcessorInv'
    <3>1. \A p \in Processors : Busy(p)
            => proc[p].avatar \in Avatars /\ proc[p].avatar # a
      BY <1>a DEF WorkInv, Busy
    <3> QED BY <1>b, <2>e, <3>1 DEF ProcessorInv, Busy
  <2>7. ReaderInv'
    BY <1>a, <2>a, <2>c, <2>d DEF ReaderInv, RequestInv
  <2> QED BY <2>1, <2>2, <2>3, <2>4, <2>5, <2>6, <2>7, <2>a
<1> QED BY <1>2, <1>3 DEF UploadCreate, Continue

(* The compensating Delete removes the original of an upload that was not,   *)
(* and will not be, acknowledged.                                            *)
LEMMA UploadCompensateSafe ==
  ASSUME SafetyInv, NEW r \in Requests, UploadCompensate(r), UNCHANGED <<topic, workerVars>>
  PROVE  SafetyInv'
<1> USE DEF SafetyInv
<1> DEFINE a == req[r].avatar
<1>a. a \in Avatars /\ a \notin acked /\ Uploading(r)
  BY DEF UploadCompensate, RequestInv, Uploading
<1>b. UNCHANGED <<rows, outbox, nextID, acked, storageUsage, topic, proc, del, maint, stopping>>
  BY DEF UploadCompensate, workerVars, repositoryVars
<1>c. objects' \subseteq objects /\ objects \subseteq objects' \cup {OriginalObjectKey(a)}
  BY DEF UploadCompensate, Remove, RemoveFails
<1>d. /\ req'[r].pc = "idle" /\ \A s \in Requests : s # r => req'[s] = req[s]
      /\ req' \in [Requests -> Request]
  BY DEF UploadCompensate, Answer, IdleRequest, Request, TypeOK, ServerTypeOK
<1>e. \A b \in Avatars, sizes \in SUBSET ThumbnailSizes :
        KeysOf(b, sizes) \subseteq objects => KeysOf(b, sizes) \subseteq objects'
  BY <1>c DEF KeysOf, OriginalObjectKey, ThumbnailSizes, Size100, Size300, SizeOriginal
<1>f. \A b \in Avatars : b # a /\ Stored(OriginalObjectKey(b)) => Stored(OriginalObjectKey(b))'
  BY <1>c DEF Stored, OriginalObjectKey
<1>1. TypeOK'
  <2>1. EnvironmentTypeOK'
    BY MaxFaultsAssumption DEF UploadCompensate, Healthy, Fault, TypeOK, EnvironmentTypeOK
  <2> QED BY <1>b, <1>c, <1>d, <2>1 DEF TypeOK, RepositoryTypeOK, ObjectStoreTypeOK, BrokerTypeOK,
             ServerTypeOK, WorkerTypeOK
<1>2. RequestInv'
  <2>1. \A s \in Requests : s # r /\ Uploading(s) => req[s].avatar # a
    BY <1>a DEF RequestInv
  <2> QED BY <1>b, <1>d, <1>f, <2>1 DEF RequestInv, Uploading, Exists
<1>3. WorkInv' /\ OutboxMatchesRows'
  BY <1>b, WorkFrame, OutboxFrame
<1>4. AckedOriginalPresent'
  BY <1>a, <1>b, <1>f DEF AckedOriginalPresent, Live, Exists, TypeOK, ServerTypeOK
<1>5. ThumbnailsPresent'
  BY <1>b, <1>e DEF ThumbnailsPresent, Live, Exists, TypeOK, RepositoryTypeOK, Row
<1>6. ProcessorInv'
  BY <1>b, <1>e DEF ProcessorInv, Live, Exists, WorkInv, Busy, TypeOK, WorkerTypeOK, Processor
<1>7. ReaderInv'
  BY <1>b, <1>d DEF ReaderInv
<1> QED BY <1>1, <1>2, <1>3, <1>4, <1>5, <1>6, <1>7

(* The delete transaction: of two requests that delete an avatar only one    *)
(* finds it live, and only that one writes an event.                         *)
LEMMA DeleteSoftSafe ==
  ASSUME SafetyInv, NEW r \in Requests, DeleteSoft(r), UNCHANGED <<topic, workerVars>>
  PROVE  SafetyInv'
<1> USE DEF SafetyInv
<1> DEFINE a == req[r].avatar
<1>a. a \in Avatars /\ Exists(a) /\ req[r].sizes \in SUBSET AllowedSizes
  BY DEF DeleteSoft, RequestInv, TypeOK, ServerTypeOK, Request
<1>b. UNCHANGED <<objects, nextID, acked, topic, proc, del, maint, stopping>>
  BY DEF DeleteSoft, workerVars
<1>c. EnvironmentTypeOK'
  BY MaxFaultsAssumption DEF DeleteSoft, Healthy, Fault, TypeOK, EnvironmentTypeOK
<1>d. /\ req'[r].pc = "idle" /\ \A s \in Requests : s # r => req'[s] = req[s]
      /\ req' \in [Requests -> Request]
  BY DEF DeleteSoft, Answer, IdleRequest, Request, TypeOK, ServerTypeOK
<1>e. storageUsage' \in Int
  BY DEF DeleteSoft, UsageAfterDelete, TypeOK, ServerTypeOK
<1>1. CASE UNCHANGED repositoryVars
  <2>1. UNCHANGED <<rows, outbox>>
    BY <1>1 DEF repositoryVars
  <2>2. \A s \in Requests : req'[s] = req[s] \/ req'[s].pc = "idle"
    BY <1>d
  <2> QED BY <1>b, <1>c, <1>d, <1>e, <2>1, <2>2, RequestMoves
<1>2. CASE Live(a) /\ SoftDeleteOwnedWithOutbox(a, req[r].sizes \ {SizeOriginal})
  <2>a. /\ RepositoryTypeOK'
        /\ OutboxMatchesRows'
        /\ \A b \in Avatars : b # a => rows'[b] = rows[b]
        /\ rows'[a].status # "absent" /\ rows'[a].deleted /\ rows'[a].thumbs = rows[a].thumbs
        /\ DOMAIN outbox \subseteq DOMAIN outbox'
    <3>1. (req[r].sizes \ {SizeOriginal}) \in SUBSET AllowedSizes
      BY <1>a
    <3> QED BY <1>a, <1>2, <3>1, SoftDeleteEffect DEF TypeOK
  <2>b. \A b \in Avatars : /\ Exists(b)' <=> Exists(b)
                           /\ Live(b)' => Live(b)
                           /\ Live(b)' => rows'[b] = rows[b]
                           /\ rows'[b].thumbs = rows[b].thumbs
    BY <1>a, <2>a DEF Exists, Live
  <2>1. TypeOK'
    BY <1>b, <1>c, <1>d, <1>e, <2>a DEF TypeOK, ObjectStoreTypeOK, BrokerTypeOK, ServerTypeOK, WorkerTypeOK
  <2>2. RequestInv'
    BY <1>b, <1>d, <2>b DEF RequestInv, Uploading, Stored, TypeOK, ServerTypeOK
  <2>3. WorkInv'
    <3>1. \A b \in Avatars : /\ Exists(b) => Exists(b)'
                             /\ rows[b].deleted => rows'[b].deleted
                             /\ rows'[b].deleted => Exists(b)'
      BY <1>a, <2>a, <2>b DEF WorkInv
    <3>2. maint.stuck \subseteq Avatars
      BY DEF TypeOK, WorkerTypeOK, Maintenance
    <3> QED BY <1>b, <2>a, <3>1, <3>2, WorkRows
  <2>4. AckedOriginalPresent' /\ ThumbnailsPresent'
    BY <1>b, <2>b DEF AckedOriginalPresent, ThumbnailsPresent, Stored, TypeOK, ServerTypeOK
  <2>5. ProcessorInv'
    BY <1>b, <2>b DEF ProcessorInv, WorkInv, Busy
  <2>6. ReaderInv'
    BY <1>d, <2>b DEF ReaderInv, RequestInv
  <2> QED BY <2>1, <2>2, <2>3, <2>4, <2>5, <2>6, <2>a
<1> QED BY <1>1, <1>2 DEF DeleteSoft, Deletable
-----------------------------------------------------------------------------
(* The worker.  What its steps may do to a row: change its status and its    *)
(* age, and record more thumbnails.                                          *)
RowsKept ==
  \A a \in Avatars : /\ Exists(a)' <=> Exists(a)
                     /\ rows'[a].deleted <=> rows[a].deleted
                     /\ rows[a].thumbs \subseteq rows'[a].thumbs

(* ... and to the state of processUpload in processor p. *)
ProcessorMoves(p) ==
  /\ proc' \in [Processors -> Processor]
  /\ \A q \in Processors : q # p => proc'[q] = proc[q]
  /\ proc'[p].pc \in {"idle", "exited"} \/ proc'[p].avatar = proc[p].avatar
  /\ maint' \in Maintenance
  /\ maint'.batch = maint.batch
  /\ maint'.stuck \subseteq maint.stuck

(* A step of the worker that keeps the rows and removes no object does not   *)
(* disturb the requests in flight.                                           *)
LEMMA ServerPartsKept ==
  ASSUME SafetyInv, RowsKept, UNCHANGED serverVars, objects \subseteq objects'
  PROVE  RequestInv' /\ AckedOriginalPresent' /\ ReaderInv'
<1> USE DEF SafetyInv
<1>a. UNCHANGED <<req, nextID, acked, storageUsage>>
  BY DEF serverVars
<1>b. \A a \in Avatars : (Exists(a)' <=> Exists(a)) /\ (Live(a)' => Live(a))
  BY DEF RowsKept, Live
<1>1. RequestInv'
  BY <1>a, <1>b DEF RequestInv, Uploading, Stored, TypeOK, ServerTypeOK
<1>2. AckedOriginalPresent'
  BY <1>a, <1>b DEF AckedOriginalPresent, Stored, TypeOK, ServerTypeOK
<1>3. ReaderInv'
  BY <1>a DEF ReaderInv, RequestInv, RowsKept
<1> QED BY <1>1, <1>2, <1>3

(* Nor does it disturb the agreement of rows and events. *)
LEMMA OutboxKept ==
  ASSUME OutboxMatchesRows, RowsKept, UNCHANGED outbox
  PROVE  OutboxMatchesRows'
<1>1. \A kind, a : Events(kind, a)' = Events(kind, a)
  BY DEF Events
<1> QED BY <1>1 DEF OutboxMatchesRows, RowsKept, SameEventID

(* A step of processUpload is safe if it keeps the rows, if the rows still   *)
(* name nothing but stored thumbnails, and if it counts only what it stored. *)
LEMMA ProcessorStep ==
  ASSUME SafetyInv, NEW p \in Processors, Busy(p),
         UNCHANGED <<outbox, topic, del, stopping, serverVars>>,
         EnvironmentTypeOK', ObjectStoreTypeOK', rows' \in [Avatars -> Row],
         RowsKept, ThumbnailsPresent', objects \subseteq objects', ProcessorMoves(p),
         Busy(p)' /\ Live(proc[p].avatar)
           => KeysOf(proc'[p].avatar, proc'[p].done) \subseteq objects',
         proc'[p].pc = "complete" => proc'[p].done = ThumbnailSizes
  PROVE  SafetyInv'
<1> USE DEF SafetyInv
<1>1. TypeOK'
  BY DEF TypeOK, RepositoryTypeOK, BrokerTypeOK, ServerTypeOK, WorkerTypeOK, serverVars, ProcessorMoves
<1>2. RequestInv' /\ AckedOriginalPresent' /\ ReaderInv'
  BY ServerPartsKept
<1>3. OutboxMatchesRows'
  BY OutboxKept
<1>4. WorkInv'
  <2>1. \A a \in Avatars : /\ Exists(a)' <=> Exists(a)
                           /\ rows'[a].deleted <=> rows[a].deleted
    BY DEF RowsKept
  <2>2. \A q \in Processors : Busy(q)' => Busy(q) /\ proc'[q].avatar = proc[q].avatar
    BY DEF ProcessorMoves, Busy
  <2>3. \A a \in Avatars : rows'[a].deleted => Exists(a)'
    BY <2>1 DEF WorkInv
  <2>4. \A kind \in EventKinds, a \in Avatars :
          Pending(kind, a)' => Exists(a)' /\ (kind = OutboxDelete => rows'[a].deleted)
    BY <2>1 DEF WorkInv, Pending
  <2>5. \A q \in Processors :
          Busy(q)' => proc'[q].avatar \in Avatars /\ Exists(proc[q].avatar)'
    BY <2>1, <2>2 DEF WorkInv
  <2>6. Busy("consumer")' => Pending(OutboxUpload, proc["consumer"].avatar)'
    BY <2>2 DEF WorkInv, Pending, Processors
  <2>7. del'.pc \in {"remove", "commit"} =>
          del'.avatar \in Avatars /\ Pending(OutboxDelete, del.avatar)'
    BY DEF WorkInv, Pending
  <2>8. maint'.batch \subseteq DOMAIN outbox' /\ \A a \in maint'.stuck : Exists(a)'
    BY <2>1 DEF WorkInv, ProcessorMoves, TypeOK, WorkerTypeOK, Maintenance
  <2> QED BY <2>3, <2>4, <2>5, <2>6, <2>7, <2>8 DEF WorkInv
<1>5. ProcessorInv'
  <2>1. \A a \in Avatars : Live(a)' <=> Live(a)
    BY DEF RowsKept, Live
  <2>2. \A q \in Processors : Busy(q)' => proc'[q].avatar = proc[q].avatar /\ proc[q].avatar \in Avatars
    BY DEF ProcessorMoves, Busy, WorkInv
  <2>3. ASSUME NEW q \in Processors
        PROVE  /\ Busy(q)' /\ Live(proc[q].avatar)'
                    => KeysOf(proc'[q].avatar, proc'[q].done) \subseteq objects'
               /\ proc'[q].pc = "complete" => proc'[q].done = ThumbnailSizes
    <3>1. CASE q = p
      BY <2>1, <2>2, <3>1
    <3>2. CASE q # p
      BY <2>1, <2>2, <3>2 DEF ProcessorInv, ProcessorMoves, Busy
    <3> QED BY <3>1, <3>2
  <2> QED BY <2>3 DEF ProcessorInv, KeysOf
<1> QED BY <1>1, <1>2, <1>3, <1>4, <1>5

(* How a step of processUpload can go on: at another place, with an error,   *)
(* or by returning.  First at another place.                                 *)
LEMMA GotoMoves ==
  ASSUME WorkerTypeOK, NEW p \in Processors,
         NEW pc \in {"mark", "download", "thumb"}, Goto(p, pc)
  PROVE  /\ ProcessorMoves(p)
         /\ proc'[p].avatar = proc[p].avatar /\ proc'[p].done = proc[p].done
         /\ proc'[p].pc = pc
BY DEF Goto, WorkerTypeOK, ProcessorMoves, Processor

(* With an error: FailProcessing comes next. *)
LEMMA AbortMoves ==
  ASSUME WorkerTypeOK, NEW p \in Processors,
         NEW err \in {"transient", "permanent"}, Abort(p, err)
  PROVE  /\ ProcessorMoves(p)
         /\ proc'[p].avatar = proc[p].avatar /\ proc'[p].done = proc[p].done
         /\ proc'[p].pc = "fail"
BY DEF Abort, WorkerTypeOK, ProcessorMoves, Processor

(* By returning: the next avatar of RecoverStuck, a retry within the limit,  *)
(* or the commit of the message.                                             *)
LEMMA ReturnMoves ==
  ASSUME WorkerTypeOK, NEW p \in Processors, proc[p].avatar \in Avatars, NEW err, Return(p, err)
  PROVE  /\ ProcessorMoves(p)
         /\ proc'[p].done = {}
         /\ proc'[p].pc # "complete"
<1>0. Attempts \in Nat /\ Attempts # 0
  BY LimitsAssumption
<1>1. CASE p = "recovery" /\ proc' = [proc EXCEPT ![p] = IdleProcessor]
           /\ maint' = [maint EXCEPT !.stuck = @ \ {proc[p].avatar}]
  <2>1. IdleProcessor \in Processor /\ IdleProcessor.pc = "idle" /\ IdleProcessor.done = {}
    BY <1>0 DEF IdleProcessor, Processor
  <2>2. /\ maint' \in Maintenance /\ maint'.batch = maint.batch /\ maint'.stuck \subseteq maint.stuck
    BY <1>1 DEF WorkerTypeOK, Maintenance
  <2> QED BY <1>1, <2>1, <2>2 DEF ProcessorMoves, WorkerTypeOK
<1>2. ASSUME NEW x \in Processor, x.avatar = proc[p].avatar, x.done = {}, x.pc # "complete",
             proc' = [proc EXCEPT ![p] = x], UNCHANGED maint
      PROVE  /\ ProcessorMoves(p)
             /\ proc'[p].done = {}
             /\ proc'[p].pc # "complete"
  BY <1>2 DEF ProcessorMoves, WorkerTypeOK
<1>3. CASE /\ proc[p].attempt < Attempts
           /\ proc' = [proc EXCEPT ![p] = Begin(@.avatar, @.attempt + 1)]
           /\ UNCHANGED maint
  <2> DEFINE x == Begin(proc[p].avatar, proc[p].attempt + 1)
  <2>1. x \in Processor /\ x.avatar = proc[p].avatar /\ x.done = {} /\ x.pc # "complete"
    BY <1>0, <1>3 DEF Begin, Processor, WorkerTypeOK
  <2>2. proc' = [proc EXCEPT ![p] = x]
    BY <1>3
  <2> QED BY <1>2, <1>3, <2>1, <2>2
<1>4. CASE /\ proc' = [proc EXCEPT ![p] = [Begin(@.avatar, @.attempt) EXCEPT !.pc = "commit"]]
           /\ UNCHANGED maint
  <2> DEFINE x == [Begin(proc[p].avatar, proc[p].attempt) EXCEPT !.pc = "commit"]
  <2>1. x \in Processor /\ x.avatar = proc[p].avatar /\ x.done = {} /\ x.pc # "complete"
    BY <1>0, <1>4 DEF Begin, Processor, WorkerTypeOK
  <2>2. proc' = [proc EXCEPT ![p] = x]
    BY <1>4
  <2> QED BY <1>2, <1>4, <2>1, <2>2
<1> QED BY <1>1, <1>3, <1>4 DEF Return
(* One write to a row: MarkProcessing, CompleteProcessing with all the       *)
(* thumbnails stored, FailProcessing or the passing of time.  The row keeps  *)
(* naming stored thumbnails only.                                            *)
LEMMA RowWrites ==
  ASSUME SafetyInv, NEW a \in Avatars, Exists(a), objects \subseteq objects',
         \/ UNCHANGED repositoryVars
         \/ MarkProcessing(a)
         \/ /\ CompleteProcessing(a, ThumbnailSizes)
            /\ Live(a) => KeysOf(a, ThumbnailSizes) \subseteq objects
         \/ FailProcessing(a)
         \/ BecomeStale(a)
  PROVE  /\ rows' \in [Avatars -> Row]
         /\ UNCHANGED outbox
         /\ RowsKept
         /\ ThumbnailsPresent'
<1> USE DEF SafetyInv
<1>a. rows \in [Avatars -> Row]
  BY DEF TypeOK, RepositoryTypeOK
<1>b. UNCHANGED outbox
  BY DEF repositoryVars, MarkProcessing, CompleteProcessing, FailProcessing, BecomeStale
<1>1. CASE UNCHANGED rows
  BY <1>a, <1>b, <1>1, ThumbnailsFrame DEF RowsKept, Exists
<1>2. ASSUME NEW x \in Row, rows' = [rows EXCEPT ![a] = x],
             x.status # "absent", x.deleted = rows[a].deleted, rows[a].thumbs \subseteq x.thumbs,
             Live(a) => /\ KeysOf(a, x.thumbs) \subseteq objects
                        /\ x.status = "completed" => x.thumbs = ThumbnailSizes
      PROVE  /\ rows' \in [Avatars -> Row]
             /\ RowsKept
             /\ ThumbnailsPresent'
  <2>1. rows' \in [Avatars -> Row] /\ rows'[a] = x /\ \A b \in Avatars : b # a => rows'[b] = rows[b]
    BY <1>a, <1>2
  <2>2. RowsKept
    BY <1>2, <2>1 DEF RowsKept, Exists
  <2>3. \A b \in Avatars : Live(b)' => Live(b)
    BY <2>2 DEF RowsKept, Live
  <2>4. ThumbnailsPresent'
    BY <1>2, <2>1, <2>3 DEF ThumbnailsPresent, KeysOf
  <2> QED BY <2>1, <2>2, <2>4
<1>c. /\ rows[a] \in Row
      /\ Live(a) => KeysOf(a, rows[a].thumbs) \subseteq objects
  BY <1>a DEF ThumbnailsPresent
<1>3. CASE MarkProcessing(a)
  <2> DEFINE x == [rows[a] EXCEPT !.status = "processing", !.stale = FALSE]
  <2>1. /\ x \in Row /\ x.status = "processing" /\ x.deleted = rows[a].deleted
        /\ x.thumbs = rows[a].thumbs
    BY <1>c DEF Row, ProcessingStatuses
  <2>2. rows' = [rows EXCEPT ![a] = x]
    BY <1>a, <1>3 DEF MarkProcessing
  <2> QED BY <1>2, <1>b, <1>c, <2>1, <2>2
<1>4. CASE /\ CompleteProcessing(a, ThumbnailSizes)
           /\ Live(a)
           /\ KeysOf(a, ThumbnailSizes) \subseteq objects
  <2> DEFINE x == [rows[a] EXCEPT !.status = "completed", !.thumbs = ThumbnailSizes, !.stale = FALSE]
  <2>1. /\ x \in Row /\ x.status = "completed" /\ x.deleted = rows[a].deleted
        /\ x.thumbs = ThumbnailSizes /\ rows[a].thumbs \subseteq ThumbnailSizes
    BY <1>c DEF Row, ProcessingStatuses
  <2>2. rows' = [rows EXCEPT ![a] = x]
    BY <1>a, <1>4 DEF CompleteProcessing
  <2> QED BY <1>2, <1>4, <1>b, <2>1, <2>2
<1>5. CASE FailProcessing(a) /\ Live(a)
  <2> DEFINE x == [rows[a] EXCEPT !.status = "failed", !.stale = FALSE]
  <2>1. /\ x \in Row /\ x.status = "failed" /\ x.deleted = rows[a].deleted
        /\ x.thumbs = rows[a].thumbs
    BY <1>c DEF Row, ProcessingStatuses
  <2>2. rows' = [rows EXCEPT ![a] = x]
    BY <1>a, <1>5 DEF FailProcessing
  <2> QED BY <1>2, <1>b, <1>c, <2>1, <2>2
<1>6. CASE BecomeStale(a)
  <2> DEFINE x == [rows[a] EXCEPT !.stale = TRUE]
  <2>1. /\ x \in Row /\ x.status = "processing" /\ x.deleted = rows[a].deleted
        /\ x.thumbs = rows[a].thumbs
    BY <1>c, <1>6 DEF Row, BecomeStale
  <2>2. rows' = [rows EXCEPT ![a] = x]
    BY <1>a, <1>6 DEF BecomeStale
  <2> QED BY <1>2, <1>b, <1>c, <2>1, <2>2
<1> QED BY <1>1, <1>3, <1>4, <1>5, <1>6 DEF repositoryVars, CompleteProcessing, FailProcessing

(* Spending the budget keeps it in its range. *)
LEMMA BudgetTyped ==
  ASSUME EnvironmentTypeOK, NEW class, Fault(class) \/ Healthy \/ Fails(class)
  PROVE  EnvironmentTypeOK'
BY MaxFaultsAssumption DEF EnvironmentTypeOK, Fault, Healthy, Fails

(* The steps of processUpload, in either processor. *)
LEMMA ProcessUploadSafe ==
  ASSUME SafetyInv, NEW p \in Processors, ProcessUpload(p), UNCHANGED serverVars
  PROVE  SafetyInv'
<1> USE DEF SafetyInv
<1> DEFINE a == proc[p].avatar
<1>a. Busy(p)
  BY DEF ProcessUpload, ProcessGet, ProcessMark, ProcessDownload, ProcessThumb, ProcessComplete,
         ProcessFail, At, Busy
<1>b. a \in Avatars /\ Exists(a) /\ WorkerTypeOK /\ proc[p] \in Processor /\ EnvironmentTypeOK
  BY <1>a DEF WorkInv, TypeOK, WorkerTypeOK
<1>c. Live(a) => KeysOf(a, proc[p].done) \subseteq objects
  BY <1>a DEF ProcessorInv
<1>d. EnvironmentTypeOK'
  BY <1>b, BudgetTyped DEF ProcessUpload, ProcessGet, ProcessMark, ProcessDownload, ProcessThumb,
     ProcessComplete, ProcessFail
<1>e. UNCHANGED <<topic, del, stopping>>
  BY DEF ProcessUpload, ProcessGet, ProcessMark, ProcessDownload, ProcessThumb,
         ProcessComplete, ProcessFail
<1>f. KeysOf(a, {}) = {}
  BY DEF KeysOf
<1>1. CASE ProcessGet(p)
  <2>1. UNCHANGED repositoryVars /\ UNCHANGED objects
    BY <1>1 DEF ProcessGet
  <2>2. Goto(p, "mark") \/ Return(p, "none") \/ Return(p, "transient")
    BY <1>1 DEF ProcessGet
  <2>3. /\ ProcessorMoves(p) /\ proc'[p].pc # "complete"
        /\ proc'[p].done = {} \/ (proc'[p].done = proc[p].done /\ proc'[p].avatar = a)
    BY <1>b, <2>2, GotoMoves, ReturnMoves
  <2>4. rows' \in [Avatars -> Row] /\ UNCHANGED outbox /\ RowsKept /\ ThumbnailsPresent'
    BY <1>b, <2>1, RowWrites
  <2> QED BY <1>a, <1>c, <1>d, <1>e, <2>1, <2>3, <2>4, ProcessorStep DEF TypeOK, ObjectStoreTypeOK, KeysOf
<1>2. CASE ProcessMark(p)
  <2>1. UNCHANGED objects /\ (UNCHANGED repositoryVars \/ MarkProcessing(a))
    BY <1>2 DEF ProcessMark
  <2>2. Goto(p, "download") \/ Return(p, "none") \/ Return(p, "transient")
    BY <1>2 DEF ProcessMark
  <2>3. /\ ProcessorMoves(p) /\ proc'[p].pc # "complete"
        /\ proc'[p].done = {} \/ (proc'[p].done = proc[p].done /\ proc'[p].avatar = a)
    BY <1>b, <2>2, GotoMoves, ReturnMoves
  <2>4. rows' \in [Avatars -> Row] /\ UNCHANGED outbox /\ RowsKept /\ ThumbnailsPresent'
    BY <1>b, <2>1, RowWrites
  <2> QED BY <1>a, <1>c, <1>d, <1>e, <2>1, <2>3, <2>4, ProcessorStep DEF TypeOK, ObjectStoreTypeOK, KeysOf
<1>3. CASE ProcessDownload(p)
  <2>1. UNCHANGED repositoryVars /\ UNCHANGED objects
    BY <1>3 DEF ProcessDownload
  <2>2. Goto(p, "thumb") \/ Abort(p, "transient")
    BY <1>3 DEF ProcessDownload
  <2>3. /\ ProcessorMoves(p) /\ proc'[p].pc # "complete"
        /\ proc'[p].done = proc[p].done /\ proc'[p].avatar = a
    BY <1>b, <2>2, GotoMoves, AbortMoves
  <2>4. rows' \in [Avatars -> Row] /\ UNCHANGED outbox /\ RowsKept /\ ThumbnailsPresent'
    BY <1>b, <2>1, RowWrites
  <2> QED BY <1>a, <1>c, <1>d, <1>e, <2>1, <2>3, <2>4, ProcessorStep DEF TypeOK, ObjectStoreTypeOK, KeysOf
<1>4. CASE ProcessThumb(p)
  <2> DEFINE size == NextSize(proc[p].done)
             key == ThumbnailObjectKey(a, size)
  <2>0. size \in ThumbnailSizes /\ (size = Size300 => proc[p].done \cup {size} = ThumbnailSizes)
    BY <1>b DEF NextSize, ThumbnailSizes, Processor, Size100, Size300
  <2>1. /\ UNCHANGED repositoryVars /\ objects \subseteq objects'
        /\ objects' \subseteq objects \cup {key}
    BY <1>4 DEF ProcessThumb, Put, PutFails
  <2>2. ObjectStoreTypeOK'
    BY <1>b, <2>0, <2>1 DEF TypeOK, ObjectStoreTypeOK, ObjectKeys, ThumbnailObjectKey, AllowedSizes
  <2>4. rows' \in [Avatars -> Row] /\ UNCHANGED outbox /\ RowsKept /\ ThumbnailsPresent'
    BY <1>b, <2>1, RowWrites
  <2>5. CASE Abort(p, "permanent") \/ Abort(p, "transient")
    <3>1. /\ ProcessorMoves(p) /\ proc'[p].pc # "complete"
          /\ proc'[p].done = proc[p].done /\ proc'[p].avatar = a
      BY <1>b, <2>5, AbortMoves
    <3> QED BY <1>a, <1>c, <1>d, <1>e, <2>1, <2>2, <2>4, <3>1, ProcessorStep
  <2>6. CASE /\ Put(key)
             /\ proc' = [proc EXCEPT ![p].done = @ \cup {size},
                                     ![p].pc = IF size = Size300 THEN "complete" ELSE "thumb"]
             /\ UNCHANGED maint
    <3> DEFINE x == [proc[p] EXCEPT !.done = @ \cup {size},
                                    !.pc = IF size = Size300 THEN "complete" ELSE "thumb"]
    <3>1. /\ x \in Processor /\ x.avatar = a /\ x.done = proc[p].done \cup {size}
          /\ x.pc = IF size = Size300 THEN "complete" ELSE "thumb"
      BY <1>b, <2>0 DEF Processor
    <3>2. proc' = [proc EXCEPT ![p] = x]
      BY <1>b, <2>6 DEF WorkerTypeOK
    <3>3. proc'[p] = x
      BY <1>b, <3>2 DEF WorkerTypeOK
    <3> HIDE DEF x
    <3>4. ProcessorMoves(p)
      BY <1>b, <2>6, <3>1, <3>2, <3>3 DEF ProcessorMoves, WorkerTypeOK
    <3>5. proc'[p].pc = "complete" => proc'[p].done = ThumbnailSizes
      BY <2>0, <3>1, <3>3
    <3>6. Live(a) => KeysOf(a, proc[p].done \cup {size}) \subseteq objects'
      BY <1>c, <2>6 DEF Put, KeysOf, ThumbnailObjectKey
    <3> QED BY <1>a, <1>d, <1>e, <2>1, <2>2, <2>4, <3>1, <3>3, <3>4, <3>5, <3>6, ProcessorStep
  <2> QED BY <1>4, <2>5, <2>6 DEF ProcessThumb
<1>5. CASE ProcessComplete(p)
  <2>0. proc[p].done = ThumbnailSizes
    BY <1>5 DEF ProcessComplete, At, ProcessorInv
  <2>1. UNCHANGED objects /\ (UNCHANGED repositoryVars \/ CompleteProcessing(a, ThumbnailSizes))
    BY <1>5, <2>0 DEF ProcessComplete
  <2>2. \E err : Return(p, err)
    BY <1>5 DEF ProcessComplete
  <2>3. ProcessorMoves(p) /\ proc'[p].pc # "complete" /\ proc'[p].done = {}
    BY <1>b, <2>2, ReturnMoves
  <2>4. rows' \in [Avatars -> Row] /\ UNCHANGED outbox /\ RowsKept /\ ThumbnailsPresent'
    BY <1>b, <1>c, <2>0, <2>1, RowWrites
  <2> QED BY <1>a, <1>d, <1>e, <2>1, <2>3, <2>4, ProcessorStep DEF TypeOK, ObjectStoreTypeOK, KeysOf
<1>6. CASE ProcessFail(p)
  <2>1. UNCHANGED objects /\ (UNCHANGED repositoryVars \/ FailProcessing(a))
    BY <1>6 DEF ProcessFail
  <2>2. Return(p, proc[p].err)
    BY <1>6 DEF ProcessFail
  <2>3. ProcessorMoves(p) /\ proc'[p].pc # "complete" /\ proc'[p].done = {}
    BY <1>b, <2>2, ReturnMoves
  <2>4. rows' \in [Avatars -> Row] /\ UNCHANGED outbox /\ RowsKept /\ ThumbnailsPresent'
    BY <1>b, <2>1, RowWrites
  <2> QED BY <1>a, <1>d, <1>e, <2>1, <2>3, <2>4, ProcessorStep DEF TypeOK, ObjectStoreTypeOK, KeysOf
<1> QED BY <1>1, <1>2, <1>3, <1>4, <1>5, <1>6 DEF ProcessUpload
-----------------------------------------------------------------------------
(* The goroutines of the worker around processUpload.                        *)

(* A step that moves the worker's goroutines and the broker, and starts work *)
(* only on avatars that exist, is safe.                                      *)
LEMMA WorkerMoves ==
  ASSUME SafetyInv, UNCHANGED <<rows, objects, serverVars>>,
         EnvironmentTypeOK', RepositoryTypeOK', BrokerTypeOK', WorkerTypeOK',
         OutboxMatchesRows', DOMAIN outbox' = DOMAIN outbox,
         \A kind \in EventKinds, a \in Avatars :
           Pending(kind, a)' => Exists(a) /\ (kind = OutboxDelete => rows[a].deleted),
         \A p \in Processors :
           \/ proc'[p] = proc[p]
           \/ proc'[p].pc \in {"idle", "exited"}
           \/ /\ proc'[p].pc = "get" /\ proc'[p].done = {}
              /\ proc'[p].avatar \in Avatars /\ Exists(proc'[p].avatar),
         Busy("consumer")' => Pending(OutboxUpload, proc["consumer"].avatar)',
         del'.pc \in {"remove", "commit"} =>
           del'.avatar \in Avatars /\ Pending(OutboxDelete, del.avatar)',
         maint'.batch \subseteq DOMAIN outbox,
         \A a \in maint'.stuck : Exists(a)
  PROVE  SafetyInv'
<1> USE DEF SafetyInv
<1>a. UNCHANGED <<req, nextID, acked, storageUsage>>
  BY DEF serverVars
<1>1. TypeOK'
  BY <1>a DEF TypeOK, ObjectStoreTypeOK, ServerTypeOK
<1>2. RequestInv' /\ AckedOriginalPresent' /\ ThumbnailsPresent' /\ ReaderInv'
  BY <1>a, RequestFrame, AckedFrame, ThumbnailsFrame, ReaderFrame
<1>3. WorkInv'
  <2>1. \A a : Exists(a)' <=> Exists(a)
    BY DEF Exists
  <2>2. \A p \in Processors : Busy(p)' => proc'[p].avatar \in Avatars /\ Exists(proc'[p].avatar)
    BY DEF WorkInv, Busy
  <2>3. \A p \in Processors : Busy(p)' => proc'[p].avatar \in Avatars /\ Exists(proc[p].avatar)'
    BY <2>2 DEF Exists
  <2> QED BY <2>1, <2>3 DEF WorkInv
<1>4. ProcessorInv'
  <2>1. \A p \in Processors :
          /\ Busy(p)' /\ Live(proc'[p].avatar)
               => KeysOf(proc'[p].avatar, proc'[p].done) \subseteq objects
          /\ proc'[p].pc = "complete" => proc'[p].done = ThumbnailSizes
    BY DEF ProcessorInv, Busy, KeysOf
  <2> QED BY <2>1 DEF ProcessorInv, Live, Exists, KeysOf
<1> QED BY <1>1, <1>2, <1>3, <1>4

(* The offset commit of a message, and the write of one, on the topics. *)
LEMMA CommitTyped ==
  ASSUME BrokerTypeOK, NEW kind \in EventKinds, NEW a \in Avatars, Pending(kind, a),
         CommitFails(kind, a)
  PROVE  /\ BrokerTypeOK'
         /\ \A k \in EventKinds, b \in Avatars : Pending(k, b)' => Pending(k, b)
         /\ \A k \in EventKinds, b \in Avatars : k # kind => topic'[k][b] = topic[k][b]
<1>1. CASE UNCHANGED topic
  BY <1>1 DEF BrokerTypeOK, Pending
<1>2. CASE Commit(kind, a)
  <2>1. Tail(topic[kind][a]) \in Seq(SUBSET AllowedSizes)
    BY DEF BrokerTypeOK, Pending
  <2>2. topic' = [topic EXCEPT ![kind][a] = Tail(topic[kind][a])]
    BY <1>2 DEF Commit
  <2> QED BY <2>1, <2>2 DEF BrokerTypeOK, Pending
<1> QED BY <1>1, <1>2 DEF CommitFails

(* A write makes no message disappear and adds at most its own. *)
LEMMA PublishTyped ==
  ASSUME BrokerTypeOK, NEW e \in OutboxEvent, PublishFails(e)
  PROVE  /\ BrokerTypeOK'
         /\ \A k \in EventKinds, b \in Avatars : Pending(k, b) => Pending(k, b)'
         /\ \A k \in EventKinds, b \in Avatars :
              Pending(k, b)' => Pending(k, b) \/ (k = e.kind /\ b = e.avatar)
<1>1. CASE UNCHANGED topic
  BY <1>1 DEF BrokerTypeOK, Pending
<1>2. CASE Publish(e)
  <2>0. e.kind \in EventKinds /\ e.avatar \in Avatars /\ e.sizes \in SUBSET AllowedSizes
    BY DEF OutboxEvent
  <2> DEFINE q == Append(topic[e.kind][e.avatar], e.sizes)
  <2>1. q \in Seq(SUBSET AllowedSizes) /\ q # << >>
    <3>1. topic[e.kind][e.avatar] \in Seq(SUBSET AllowedSizes)
      BY <2>0 DEF BrokerTypeOK
    <3>2. q \in Seq(SUBSET AllowedSizes) /\ Len(q) = Len(topic[e.kind][e.avatar]) + 1
      BY <2>0, <3>1
    <3>3. Len(topic[e.kind][e.avatar]) \in Nat
      BY <3>1
    <3>4. Len(q) # 0
      BY <3>2, <3>3
    <3> QED BY <3>2, <3>4
  <2>2. topic' = [topic EXCEPT ![e.kind][e.avatar] = q]
    BY <1>2 DEF Publish
  <2> HIDE DEF q
  <2> QED BY <2>0, <2>1, <2>2 DEF BrokerTypeOK, Pending
<1> QED BY <1>1, <1>2 DEF PublishFails

(* The upload consumer around processUpload. *)
LEMMA UploadConsumerSafe ==
  ASSUME SafetyInv, UNCHANGED serverVars,
         (\E a \in Avatars : UploadFetch(a)) \/ UploadCommit \/ UploadExit
  PROVE  SafetyInv'
<1> USE DEF SafetyInv
<1>a. UNCHANGED <<rows, outbox, objects, del, maint>>
  BY DEF UploadFetch, UploadCommit, UploadExit, repositoryVars
<1>b. EnvironmentTypeOK'
  BY BudgetTyped DEF UploadFetch, UploadCommit, UploadExit, TypeOK
<1>c. RepositoryTypeOK' /\ OutboxMatchesRows'
  BY <1>a, OutboxFrame DEF TypeOK, RepositoryTypeOK
<1>d. /\ proc \in [Processors -> Processor] /\ "consumer" \in Processors
      /\ stopping \in BOOLEAN /\ del \in Deleter /\ maint \in Maintenance
      /\ Attempts \in Nat /\ 1 <= Attempts /\ 0 <= Attempts
  BY LimitsAssumption DEF TypeOK, WorkerTypeOK, Processors
<1>e. /\ maint.batch \subseteq DOMAIN outbox
      /\ \A a \in maint.stuck : Exists(a)
  BY DEF WorkInv
<1>1. CASE \E a \in Avatars : UploadFetch(a)
  <2>1. PICK a \in Avatars : UploadFetch(a)
    BY <1>1
  <2>2. Begin(a, 1) \in Processor /\ Begin(a, 1).pc = "get" /\ Begin(a, 1).done = {}
        /\ Begin(a, 1).avatar = a
    BY <1>d DEF Begin, Processor
  <2>3. /\ proc' \in [Processors -> Processor]
        /\ proc'["consumer"] = Begin(a, 1)
        /\ \A p \in Processors : p # "consumer" => proc'[p] = proc[p]
    BY <1>d, <2>1, <2>2 DEF UploadFetch
  <2>4. Exists(a) /\ Pending(OutboxUpload, a) /\ UNCHANGED <<topic, stopping>>
    BY <2>1 DEF UploadFetch, WorkInv, EventKinds
  <2>5. BrokerTypeOK' /\ WorkerTypeOK'
    BY <1>a, <2>3, <2>4 DEF TypeOK, BrokerTypeOK, WorkerTypeOK
  <2>6. Busy("consumer")' => Pending(OutboxUpload, proc["consumer"].avatar)'
    BY <2>2, <2>3, <2>4 DEF Pending
  <2>7. del'.pc \in {"remove", "commit"} =>
           del'.avatar \in Avatars /\ Pending(OutboxDelete, del.avatar)'
    BY <1>a, <2>4 DEF WorkInv, Pending
  <2>8. \A kind \in EventKinds, b \in Avatars :
           Pending(kind, b)' => Exists(b) /\ (kind = OutboxDelete => rows[b].deleted)
    BY <2>4 DEF WorkInv, Pending
  <2> QED BY <1>a, <1>b, <1>c, <1>e, <2>2, <2>3, <2>4, <2>5, <2>6, <2>7, <2>8, WorkerMoves
<1>2. CASE UploadCommit \/ UploadExit
  <2>1. PICK pc \in {"idle", "exited"} :
          /\ proc' \in [Processors -> Processor]
          /\ proc'["consumer"].pc = pc
          /\ \A p \in Processors : p # "consumer" => proc'[p] = proc[p]
    <3>1. \A pc \in {"idle", "exited"} : LET x == [IdleProcessor EXCEPT !.pc = pc]
                                         IN x \in Processor /\ x.pc = pc
      BY <1>d DEF IdleProcessor, Processor
    <3>2. CASE UploadCommit
      BY <1>d, <3>1, <3>2 DEF UploadCommit
    <3>3. CASE UploadExit
      BY <1>d, <3>3 DEF UploadExit, Processor
    <3> QED BY <1>2, <3>2, <3>3
  <2>2. /\ BrokerTypeOK'
        /\ \A k \in EventKinds, b \in Avatars : Pending(k, b)' => Pending(k, b)
        /\ \A k \in EventKinds, b \in Avatars : k # OutboxUpload => topic'[k][b] = topic[k][b]
    <3>1. CASE UploadCommit
      <4>1. /\ proc["consumer"].avatar \in Avatars
            /\ Pending(OutboxUpload, proc["consumer"].avatar)
            /\ CommitFails(OutboxUpload, proc["consumer"].avatar)
        BY <1>d, <3>1 DEF UploadCommit, At, WorkInv, Busy, CommitFails
      <4> QED BY <4>1, CommitTyped DEF EventKinds, TypeOK
    <3>2. CASE UploadExit
      BY <3>2 DEF UploadExit, TypeOK, BrokerTypeOK, Pending
    <3> QED BY <1>2, <3>1, <3>2
  <2>3. stopping' \in BOOLEAN
    BY <1>2, <1>d DEF UploadCommit, UploadExit
  <2>4. WorkerTypeOK' /\ ~Busy("consumer")'
    BY <1>a, <1>d, <2>1, <2>3 DEF WorkerTypeOK, Busy
  <2>5. del'.pc \in {"remove", "commit"} =>
           del'.avatar \in Avatars /\ Pending(OutboxDelete, del.avatar)'
    BY <1>a, <2>2 DEF WorkInv, Pending, EventKinds, OutboxUpload, OutboxDelete
  <2>6. \A kind \in EventKinds, b \in Avatars :
           Pending(kind, b)' => Exists(b) /\ (kind = OutboxDelete => rows[b].deleted)
    BY <2>2 DEF WorkInv
  <2>7. \A p \in Processors : proc'[p] = proc[p] \/ proc'[p].pc \in {"idle", "exited"}
    BY <2>1
  <2> QED BY <1>a, <1>b, <1>c, <1>e, <2>2, <2>4, <2>5, <2>6, <2>7, WorkerMoves
<1> QED BY <1>1, <1>2

(* The delete consumer, apart from the removals. *)
LEMMA DeleteConsumerSafe ==
  ASSUME SafetyInv, UNCHANGED serverVars,
         (\E a \in Avatars : DeleteFetch(a)) \/ DeleteCommit \/ DeleteExit
  PROVE  SafetyInv'
<1> USE DEF SafetyInv
<1>a. UNCHANGED <<rows, outbox, objects, proc, maint>>
  BY DEF DeleteFetch, DeleteCommit, DeleteExit, repositoryVars
<1>b. EnvironmentTypeOK'
  BY BudgetTyped DEF DeleteFetch, DeleteCommit, DeleteExit, TypeOK
<1>c. RepositoryTypeOK' /\ OutboxMatchesRows'
  BY <1>a, OutboxFrame DEF TypeOK, RepositoryTypeOK
<1>d. /\ proc \in [Processors -> Processor] /\ "consumer" \in Processors
      /\ stopping \in BOOLEAN /\ del \in Deleter /\ maint \in Maintenance
      /\ Attempts \in Nat /\ 1 <= Attempts /\ 0 <= Attempts
  BY LimitsAssumption DEF TypeOK, WorkerTypeOK, Processors
<1>e. /\ maint.batch \subseteq DOMAIN outbox
      /\ \A a \in maint.stuck : Exists(a)
  BY DEF WorkInv
<1>f. OutboxDelete \in EventKinds /\ OutboxUpload \in EventKinds
  BY DEF EventKinds
<1>1. CASE \E a \in Avatars : DeleteFetch(a)
  <2>1. PICK a \in Avatars : DeleteFetch(a)
    BY <1>1
  <2>2. Pending(OutboxDelete, a) /\ UNCHANGED <<topic, stopping>>
    BY <2>1 DEF DeleteFetch
  <2>3. Fetched(OutboxDelete, a) \in SUBSET AllowedSizes
    <3>1. topic[OutboxDelete][a] \in Seq(SUBSET AllowedSizes)
      BY <1>f DEF TypeOK, BrokerTypeOK
    <3> QED BY <2>2, <3>1 DEF Fetched, Pending
  <2>4. del' \in Deleter /\ del'.avatar = a
    BY <1>d, <2>1, <2>3 DEF DeleteFetch, Deleter
  <2>5. BrokerTypeOK' /\ WorkerTypeOK'
    BY <1>a, <1>d, <2>2, <2>4 DEF TypeOK, BrokerTypeOK, WorkerTypeOK
  <2>6. Busy("consumer")' => Pending(OutboxUpload, proc["consumer"].avatar)'
    BY <1>a, <2>2 DEF WorkInv, Busy, Pending
  <2>7. del'.pc \in {"remove", "commit"} =>
           del'.avatar \in Avatars /\ Pending(OutboxDelete, del.avatar)'
    BY <2>2, <2>4 DEF Pending
  <2>8. \A kind \in EventKinds, b \in Avatars :
           Pending(kind, b)' => Exists(b) /\ (kind = OutboxDelete => rows[b].deleted)
    BY <2>2 DEF WorkInv, Pending
  <2> QED BY <1>a, <1>b, <1>c, <1>e, <2>5, <2>6, <2>7, <2>8, WorkerMoves
<1>2. CASE DeleteCommit \/ DeleteExit
  <2>1. del' \in Deleter /\ del'.pc \in {"idle", "exited"}
    <3>1. CASE DeleteCommit
      BY <1>d, <3>1 DEF DeleteCommit, IdleDeleter, Deleter
    <3>2. CASE DeleteExit
      BY <1>d, <3>2 DEF DeleteExit, Deleter
    <3> QED BY <1>2, <3>1, <3>2
  <2>2. /\ BrokerTypeOK'
        /\ \A k \in EventKinds, b \in Avatars : Pending(k, b)' => Pending(k, b)
        /\ \A k \in EventKinds, b \in Avatars : k # OutboxDelete => topic'[k][b] = topic[k][b]
    <3>1. CASE DeleteCommit
      <4>1. /\ del.avatar \in Avatars
            /\ Pending(OutboxDelete, del.avatar)
            /\ CommitFails(OutboxDelete, del.avatar)
        BY <3>1 DEF DeleteCommit, WorkInv, CommitFails
      <4> QED BY <1>f, <4>1, CommitTyped DEF TypeOK
    <3>2. CASE DeleteExit
      BY <3>2 DEF DeleteExit, TypeOK, BrokerTypeOK, Pending
    <3> QED BY <1>2, <3>1, <3>2
  <2>3. stopping' \in BOOLEAN
    BY <1>2, <1>d DEF DeleteCommit, DeleteExit
  <2>4. WorkerTypeOK'
    BY <1>a, <1>d, <2>1, <2>3 DEF WorkerTypeOK
  <2>5. Busy("consumer")' => Pending(OutboxUpload, proc["consumer"].avatar)'
    BY <1>a, <1>d, <1>f, <2>2 DEF WorkInv, Busy, Pending, OutboxUpload, OutboxDelete
  <2>6. \A kind \in EventKinds, b \in Avatars :
           Pending(kind, b)' => Exists(b) /\ (kind = OutboxDelete => rows[b].deleted)
    BY <2>2 DEF WorkInv
  <2> QED BY <1>a, <1>b, <1>c, <1>e, <2>1, <2>2, <2>4, <2>5, <2>6, WorkerMoves
<1> QED BY <1>1, <1>2

(* The delete consumer removes objects of avatars that are deleted, and of   *)
(* no others: its message was written by the transaction that deleted the    *)
(* row.                                                                      *)
LEMMA DeleteRemoveSafe ==
  ASSUME SafetyInv, UNCHANGED serverVars, NEW size \in AllowedSizes, DeleteRemove(size)
  PROVE  SafetyInv'
<1> USE DEF SafetyInv
<1> DEFINE d == del.avatar
<1>a. UNCHANGED <<rows, outbox, topic, proc, maint, stopping, req, nextID, acked, storageUsage>>
  BY DEF DeleteRemove, repositoryVars, serverVars
<1>b. d \in Avatars /\ Pending(OutboxDelete, d) /\ rows[d].deleted /\ Exists(d)
  BY DEF DeleteRemove, WorkInv, EventKinds
<1>c. objects' \subseteq objects /\ objects \subseteq objects' \cup {<<d, size>>}
  BY DEF DeleteRemove, Remove, RemoveFails
<1>d. /\ del' \in Deleter
      /\ del'.avatar = d
  <2>1. Fetched(OutboxDelete, d) \in SUBSET AllowedSizes
    <3>1. topic[OutboxDelete][d] \in Seq(SUBSET AllowedSizes)
      BY <1>b DEF TypeOK, BrokerTypeOK, EventKinds
    <3> QED BY <1>b, <3>1 DEF Fetched, Pending
  <2>2. del \in Deleter /\ Attempts \in Nat
    BY LimitsAssumption DEF TypeOK, WorkerTypeOK
  <2>3. CASE del' = [del EXCEPT !.todo = del.todo \ {size},
                                !.pc = IF del.todo \ {size} = {} THEN "commit" ELSE "remove"]
    BY <2>2, <2>3 DEF Deleter
  <2>4. CASE /\ del.attempt < Attempts
             /\ del' = [del EXCEPT !.attempt = @ + 1, !.todo = Fetched(OutboxDelete, d)]
    <3>1. del.attempt \in 0..Attempts
      BY <2>2 DEF Deleter
    <3>2. del.attempt + 1 \in 0..Attempts
      BY <2>2, <2>4, <3>1
    <3>3. del' = [del EXCEPT !.attempt = del.attempt + 1, !.todo = Fetched(OutboxDelete, d)]
      BY <2>4
    <3> QED BY <2>1, <2>2, <3>2, <3>3 DEF Deleter
  <2>5. CASE del' = [del EXCEPT !.todo = {}, !.pc = "commit"]
    BY <2>2, <2>5 DEF Deleter
  <2> QED BY <2>3, <2>4, <2>5 DEF DeleteRemove
<1>e. \A b \in Avatars, s \in AllowedSizes : b # d /\ <<b, s>> \in objects => <<b, s>> \in objects'
  BY <1>c
<1>f. \A b \in Avatars : Live(b)' => Live(b) /\ b # d
  BY <1>a, <1>b DEF Live, Exists
<1>g. \A b \in Avatars, sizes \in SUBSET ThumbnailSizes :
        b # d /\ KeysOf(b, sizes) \subseteq objects => KeysOf(b, sizes) \subseteq objects'
  BY <1>e DEF KeysOf, AllowedSizes
<1>1. TypeOK'
  <2>1. EnvironmentTypeOK'
    BY BudgetTyped DEF DeleteRemove, TypeOK
  <2> QED BY <1>a, <1>c, <1>d, <2>1 DEF TypeOK, RepositoryTypeOK, ObjectStoreTypeOK, BrokerTypeOK,
             ServerTypeOK, WorkerTypeOK
<1>2. RequestInv'
  <2>1. \A r \in Requests : req[r].pc = "create" => Stored(OriginalObjectKey(req[r].avatar))'
    <3>1. \A r \in Requests : req[r].pc = "create" =>
            /\ req[r].avatar \in Avatars /\ req[r].avatar # d
            /\ <<req[r].avatar, SizeOriginal>> \in objects
      BY <1>b DEF RequestInv, Stored, OriginalObjectKey
    <3>2. SizeOriginal \in AllowedSizes
      BY DEF AllowedSizes
    <3> QED BY <1>a, <1>e, <3>1, <3>2 DEF Stored, OriginalObjectKey
  <2> QED BY <1>a, <2>1 DEF RequestInv, Uploading, Exists
<1>3. WorkInv'
  <2>1. Pending(OutboxDelete, del.avatar)'
    BY <1>a, <1>b, <1>d DEF Pending
  <2> QED BY <1>a, <1>b, <1>d, <2>1 DEF WorkInv, Exists, Busy, Pending
<1>4. OutboxMatchesRows'
  BY <1>a, OutboxFrame
<1>5. AckedOriginalPresent'
  <2>1. SizeOriginal \in AllowedSizes /\ acked \subseteq Avatars
    BY DEF AllowedSizes, TypeOK, ServerTypeOK
  <2> QED BY <1>a, <1>e, <1>f, <2>1 DEF AckedOriginalPresent, Stored, OriginalObjectKey
<1>6. ThumbnailsPresent'
  <2>1. \A b \in Avatars : rows[b].thumbs \in SUBSET ThumbnailSizes
    BY DEF TypeOK, RepositoryTypeOK, Row
  <2> QED BY <1>a, <1>f, <1>g, <2>1 DEF ThumbnailsPresent
<1>7. ProcessorInv'
  <2>1. \A p \in Processors : /\ proc[p].done \in SUBSET ThumbnailSizes
                              /\ Busy(p) => proc[p].avatar \in Avatars
    BY DEF TypeOK, WorkerTypeOK, Processor, WorkInv
  <2> QED BY <1>a, <1>f, <1>g, <2>1 DEF ProcessorInv, Busy
<1>8. ReaderInv'
  BY <1>a, ReaderFrame
<1> QED BY <1>1, <1>2, <1>3, <1>4, <1>5, <1>6, <1>7, <1>8

(* FlushOutbox goes on with a batch of ids of the outbox. *)
LEMMA FlushFromTyped ==
  ASSUME WorkerTypeOK, NEW batch, batch \subseteq Nat, FlushFrom(batch)
  PROVE  maint' \in Maintenance /\ maint'.batch = batch /\ maint'.stuck = maint.stuck
<1>1. 0 \in 0..PublishAttempts
  BY LimitsAssumption
<1>2. maint \in Maintenance
  BY DEF WorkerTypeOK
<1>3. PICK pc \in {"list", "publish"} :
        maint' = [maint EXCEPT !.batch = batch, !.tries = 0, !.pc = pc]
  BY DEF FlushFrom
<1> QED BY <1>1, <1>2, <1>3 DEF Maintenance

(* The maintenance loop, apart from FlushMark and processUpload. *)
LEMMA MaintenanceSafe ==
  ASSUME SafetyInv, UNCHANGED serverVars,
         \/ FlushList
         \/ \E i \in maint.batch : FlushPublish(i)
         \/ RecoverList
         \/ \E a \in maint.stuck : RecoverNext(a)
         \/ RecoverEnd
         \/ MaintenanceExit
  PROVE  SafetyInv'
<1> USE DEF SafetyInv
<1>a. UNCHANGED <<rows, outbox, objects, del, stopping>>
  BY DEF FlushList, FlushPublish, RecoverList, RecoverNext, RecoverEnd, MaintenanceExit, repositoryVars
<1>b. EnvironmentTypeOK'
  BY BudgetTyped DEF FlushList, FlushPublish, RecoverList, RecoverNext, RecoverEnd,
     MaintenanceExit, TypeOK
<1>c. RepositoryTypeOK' /\ OutboxMatchesRows'
  BY <1>a, OutboxFrame DEF TypeOK, RepositoryTypeOK
<1>d. /\ proc \in [Processors -> Processor] /\ "recovery" \in Processors /\ "consumer" \in Processors
      /\ stopping \in BOOLEAN /\ del \in Deleter /\ maint \in Maintenance
      /\ Attempts \in Nat /\ 1 <= Attempts /\ PublishAttempts \in Nat /\ PublishAttempts # 0
      /\ outbox \in Seq(OutboxEvent)
  BY LimitsAssumption DEF TypeOK, WorkerTypeOK, RepositoryTypeOK, Processors
<1>e. /\ maint.batch \subseteq DOMAIN outbox
      /\ maint.stuck \subseteq Avatars
      /\ \A a \in maint.stuck : Exists(a)
  BY <1>d DEF WorkInv, Maintenance
<1>f. DOMAIN outbox \subseteq Nat
  BY <1>d
<1>g. IdleMaintenance \in Maintenance /\ IdleMaintenance.batch = {} /\ IdleMaintenance.stuck = {}
  BY <1>d DEF IdleMaintenance, Maintenance
(* What follows when the loop moves, with no call of processUpload. *)
<1>h. ASSUME UNCHANGED proc, BrokerTypeOK', maint' \in Maintenance,
             maint'.batch \subseteq DOMAIN outbox, \A a \in maint'.stuck : Exists(a),
             \A k \in EventKinds, b \in Avatars : Pending(k, b) => Pending(k, b)',
             \A k \in EventKinds, b \in Avatars :
               Pending(k, b)' => Exists(b) /\ (k = OutboxDelete => rows[b].deleted)
      PROVE  SafetyInv'
  <2>1. WorkerTypeOK'
    BY <1>a, <1>d, <1>h DEF WorkerTypeOK
  <2>2. Busy("consumer")' => Pending(OutboxUpload, proc["consumer"].avatar)'
    <3>1. Busy("consumer") => /\ proc["consumer"].avatar \in Avatars
                              /\ Pending(OutboxUpload, proc["consumer"].avatar)
      BY <1>d DEF WorkInv
    <3>2. OutboxUpload \in EventKinds
      BY DEF EventKinds
    <3>3. Busy("consumer") => LET a == proc["consumer"].avatar IN topic'[OutboxUpload][a] # << >>
      BY <1>h, <3>1, <3>2 DEF Pending
    <3> QED BY <1>h, <3>3 DEF Busy, Pending
  <2>3. del'.pc \in {"remove", "commit"} =>
           del'.avatar \in Avatars /\ Pending(OutboxDelete, del.avatar)'
    <3>1. del.pc \in {"remove", "commit"} =>
            del.avatar \in Avatars /\ topic'[OutboxDelete][del.avatar] # << >>
      BY <1>h DEF WorkInv, Pending, EventKinds
    <3> QED BY <1>a, <3>1 DEF Pending
  <2> QED BY <1>a, <1>b, <1>c, <1>h, <2>1, <2>2, <2>3, WorkerMoves
<1>i. UNCHANGED topic =>
        /\ BrokerTypeOK'
        /\ \A k \in EventKinds, b \in Avatars : Pending(k, b) => Pending(k, b)'
        /\ \A k \in EventKinds, b \in Avatars :
             Pending(k, b)' => Exists(b) /\ (k = OutboxDelete => rows[b].deleted)
  BY DEF TypeOK, BrokerTypeOK, Pending, WorkInv
<1>1. CASE FlushList
  <2>1. ListUnpublished(OutboxLimit) \subseteq DOMAIN outbox
    BY DEF ListUnpublished, FirstOf, Unpublished
  <2>2. PICK batch \in SUBSET DOMAIN outbox : FlushFrom(batch)
    BY <1>1, <2>1 DEF FlushList
  <2>3. maint' \in Maintenance /\ maint'.batch = batch /\ maint'.stuck = maint.stuck
    BY <1>f, <2>2, FlushFromTyped DEF TypeOK
  <2> QED BY <1>1, <1>e, <1>h, <1>i, <2>3 DEF FlushList
<1>2. CASE \E i \in maint.batch : FlushPublish(i)
  <2>1. PICK i \in maint.batch : FlushPublish(i)
    BY <1>2
  <2>2. outbox[i] \in OutboxEvent /\ i \in DOMAIN outbox
    BY <1>d, <1>e
  <2>3. PublishFails(outbox[i]) /\ UNCHANGED proc
    BY <2>1 DEF FlushPublish, PublishFails
  <2>4. /\ BrokerTypeOK'
        /\ \A k \in EventKinds, b \in Avatars : Pending(k, b) => Pending(k, b)'
        /\ \A k \in EventKinds, b \in Avatars :
             Pending(k, b)' => Pending(k, b) \/ (k = outbox[i].kind /\ b = outbox[i].avatar)
    <3> DEFINE e == outbox[i]
    <3> HIDE DEF e
    <3>1. e \in OutboxEvent /\ PublishFails(e)
      BY <2>2, <2>3 DEF e
    <3>2. /\ BrokerTypeOK'
          /\ \A k \in EventKinds, b \in Avatars : Pending(k, b) => Pending(k, b)'
          /\ \A k \in EventKinds, b \in Avatars :
               Pending(k, b)' => Pending(k, b) \/ (k = e.kind /\ b = e.avatar)
      BY <3>1, PublishTyped DEF TypeOK
    <3> QED BY <3>2 DEF e
  <2>5. LET a == outbox[i].avatar
        IN Exists(a) /\ (outbox[i].kind = OutboxDelete => rows[a].deleted)
    <3>1. outbox[i].avatar \in Avatars /\ outbox[i].kind \in EventKinds
      BY <2>2 DEF OutboxEvent
    <3>2. i \in Events(outbox[i].kind, outbox[i].avatar)
      BY <2>2 DEF Events
    <3> QED BY <3>1, <3>2 DEF OutboxMatchesRows, WorkInv, EventKinds
  <2>6. \A k \in EventKinds, b \in Avatars :
             Pending(k, b)' => Exists(b) /\ (k = OutboxDelete => rows[b].deleted)
    BY <2>4, <2>5 DEF WorkInv
  <2>7. /\ maint' \in Maintenance /\ maint'.batch \subseteq maint.batch
        /\ maint'.stuck = maint.stuck
    <3>1. CASE maint' = [maint EXCEPT !.pc = "mark"]
      BY <1>d, <3>1 DEF Maintenance
    <3>2. CASE /\ maint.tries + 1 < PublishAttempts
               /\ maint' = [maint EXCEPT !.tries = @ + 1]
      <4>1. maint.tries \in 0..PublishAttempts
        BY <1>d DEF Maintenance
      <4>2. maint.tries + 1 \in 0..PublishAttempts
        BY <1>d, <3>2, <4>1
      <4>3. maint' = [maint EXCEPT !.tries = maint.tries + 1]
        BY <3>2
      <4> QED BY <1>d, <4>2, <4>3 DEF Maintenance
    <3>3. CASE FlushFrom(maint.batch \ {i})
      <4>1. maint.batch \ {i} \subseteq Nat
        BY <1>e, <1>f
      <4> QED BY <3>3, <4>1, FlushFromTyped DEF TypeOK
    <3> QED BY <2>1, <3>1, <3>2, <3>3 DEF FlushPublish
  <2> QED BY <1>e, <1>h, <2>3, <2>4, <2>6, <2>7
<1>3. CASE RecoverList
  <2>1. \A a \in ListStuckUploads(StuckLimit) : a \in Avatars /\ Exists(a)
    BY DEF ListStuckUploads, FirstOf, Claimable, Live
  <2>2. CASE maint' = IdleMaintenance
    BY <1>3, <1>g, <1>h, <1>i, <2>2 DEF RecoverList
  <2>3. CASE maint' = [maint EXCEPT !.pc = "recover", !.stuck = ListStuckUploads(StuckLimit)]
    <3>1. /\ maint' \in Maintenance /\ maint'.batch = maint.batch
          /\ maint'.stuck = ListStuckUploads(StuckLimit)
      BY <1>d, <2>1, <2>3 DEF Maintenance
    <3> QED BY <1>3, <1>e, <1>h, <1>i, <2>1, <3>1 DEF RecoverList
  <2> QED BY <1>3, <2>2, <2>3 DEF RecoverList
<1>4. CASE \E a \in maint.stuck : RecoverNext(a)
  <2>1. PICK a \in maint.stuck : RecoverNext(a)
    BY <1>4
  <2>2. Begin(a, 1) \in Processor /\ Begin(a, 1).pc = "get" /\ Begin(a, 1).done = {}
        /\ Begin(a, 1).avatar = a
    BY <1>d, <1>e DEF Begin, Processor
  <2>3. /\ proc' \in [Processors -> Processor]
        /\ proc'["recovery"] = Begin(a, 1)
        /\ \A p \in Processors : p # "recovery" => proc'[p] = proc[p]
    BY <1>d, <2>1, <2>2 DEF RecoverNext
  <2>4. UNCHANGED <<topic, maint>>
    BY <2>1 DEF RecoverNext
  <2>5. BrokerTypeOK' /\ WorkerTypeOK'
    BY <1>a, <1>d, <2>3, <2>4 DEF TypeOK, BrokerTypeOK, WorkerTypeOK
  <2>6. Busy("consumer")' => Pending(OutboxUpload, proc["consumer"].avatar)'
    BY <1>d, <2>3, <2>4 DEF WorkInv, Busy, Pending
  <2>7. del'.pc \in {"remove", "commit"} =>
           del'.avatar \in Avatars /\ Pending(OutboxDelete, del.avatar)'
    BY <1>a, <2>4 DEF WorkInv, Pending
  <2> QED BY <1>a, <1>b, <1>c, <1>e, <1>i, <2>2, <2>3, <2>4, <2>5, <2>6, <2>7, WorkerMoves
<1>5. CASE RecoverEnd
  BY <1>5, <1>g, <1>h, <1>i DEF RecoverEnd
<1>6. CASE MaintenanceExit
  <2>1. maint' \in Maintenance /\ maint'.batch = maint.batch /\ maint'.stuck = maint.stuck
    BY <1>6, <1>d DEF MaintenanceExit, Maintenance
  <2> QED BY <1>6, <1>e, <1>h, <1>i, <2>1 DEF MaintenanceExit
<1> QED BY <1>1, <1>2, <1>3, <1>4, <1>5, <1>6

(* MarkOutboxPublished changes no event's id. *)
LEMMA FlushMarkSafe ==
  ASSUME SafetyInv, UNCHANGED serverVars, NEW i \in maint.batch, FlushMark(i)
  PROVE  SafetyInv'
<1> USE DEF SafetyInv
<1>a. UNCHANGED <<rows, objects, topic, proc, del, stopping>>
  BY DEF FlushMark, MarkOutboxPublished, repositoryVars
<1>b. EnvironmentTypeOK'
  BY BudgetTyped DEF FlushMark, TypeOK
<1>c. outbox \in Seq(OutboxEvent) /\ i \in DOMAIN outbox /\ maint.batch \subseteq DOMAIN outbox
  BY DEF TypeOK, RepositoryTypeOK, WorkInv
<1>d. /\ outbox' \in Seq(OutboxEvent)
      /\ DOMAIN outbox' = DOMAIN outbox
      /\ \A j \in DOMAIN outbox : outbox'[j].kind = outbox[j].kind /\ outbox'[j].avatar = outbox[j].avatar
  <2>1. CASE UNCHANGED repositoryVars
    BY <1>c, <2>1 DEF repositoryVars
  <2>2. CASE MarkOutboxPublished(i)
    <3> DEFINE x == [outbox[i] EXCEPT !.published = TRUE]
    <3>1. outbox[i] \in OutboxEvent
      BY <1>c
    <3>2. x \in OutboxEvent /\ x.kind = outbox[i].kind /\ x.avatar = outbox[i].avatar
      BY <3>1 DEF OutboxEvent
    <3>3. outbox' = [outbox EXCEPT ![i] = x]
      BY <1>c, <2>2 DEF MarkOutboxPublished
    <3> HIDE DEF x
    <3> QED BY <1>c, <3>2, <3>3
  <2> QED BY <2>1, <2>2 DEF FlushMark
<1>e. RepositoryTypeOK'
  BY <1>a, <1>d DEF TypeOK, RepositoryTypeOK
<1>f. OutboxMatchesRows'
  <2>1. \A kind, a : Events(kind, a)' = Events(kind, a)
    BY <1>d DEF Events
  <2>2. \A j, k \in DOMAIN outbox' : SameEventID(outbox'[j], outbox'[k]) => j = k
    BY <1>d DEF OutboxMatchesRows, SameEventID
  <2> QED BY <1>a, <2>1, <2>2 DEF OutboxMatchesRows, Exists, SameEventID
<1>g. maint' \in Maintenance /\ maint'.batch = maint.batch \ {i} /\ maint'.stuck = maint.stuck
  <2>1. maint.batch \ {i} \subseteq Nat
    BY <1>c
  <2> QED BY <2>1, FlushFromTyped DEF FlushMark, TypeOK
<1>h. BrokerTypeOK' /\ WorkerTypeOK'
  BY <1>a, <1>g DEF TypeOK, BrokerTypeOK, WorkerTypeOK
<1>i. /\ Busy("consumer")' => Pending(OutboxUpload, proc["consumer"].avatar)'
      /\ del'.pc \in {"remove", "commit"} =>
           del'.avatar \in Avatars /\ Pending(OutboxDelete, del.avatar)'
      /\ \A kind \in EventKinds, b \in Avatars :
           Pending(kind, b)' => Exists(b) /\ (kind = OutboxDelete => rows[b].deleted)
  BY <1>a DEF WorkInv, Busy, Pending
<1>j. maint'.batch \subseteq DOMAIN outbox /\ \A a \in maint'.stuck : Exists(a)
  BY <1>c, <1>g DEF WorkInv
<1> QED BY <1>a, <1>b, <1>d, <1>e, <1>f, <1>h, <1>i, <1>j, WorkerMoves

(* SIGTERM, the end of the process and its restart. *)
LEMMA WorkerProcessSafe ==
  ASSUME SafetyInv, UNCHANGED serverVars, WorkerStop \/ WorkerRestart \/ WorkerCrash
  PROVE  SafetyInv'
<1> USE DEF SafetyInv
<1>a. UNCHANGED <<rows, outbox, objects, topic>>
  BY DEF WorkerStop, WorkerRestart, WorkerCrash, repositoryVars
<1>b. EnvironmentTypeOK'
  BY BudgetTyped DEF WorkerStop, WorkerRestart, WorkerCrash, TypeOK
<1>c. RepositoryTypeOK' /\ OutboxMatchesRows' /\ BrokerTypeOK'
  BY <1>a, OutboxFrame DEF TypeOK, RepositoryTypeOK, BrokerTypeOK
<1>d. /\ IdleProcessor \in Processor /\ IdleProcessor.pc = "idle"
      /\ IdleDeleter \in Deleter /\ IdleDeleter.pc = "idle"
      /\ IdleMaintenance \in Maintenance /\ IdleMaintenance.batch = {} /\ IdleMaintenance.stuck = {}
  BY LimitsAssumption DEF IdleProcessor, Processor, IdleDeleter, Deleter, IdleMaintenance, Maintenance
<1>e. \A kind \in EventKinds, b \in Avatars :
        Pending(kind, b)' => Exists(b) /\ (kind = OutboxDelete => rows[b].deleted)
  BY <1>a DEF WorkInv, Pending
<1>1. CASE WorkerStop
  <2>1. UNCHANGED <<proc, del, maint>>
    BY <1>1 DEF WorkerStop
  <2>2. WorkerTypeOK'
    BY <1>1, <2>1 DEF WorkerStop, TypeOK, WorkerTypeOK
  <2>3. WorkInv'
    BY <1>a, <2>1, WorkFrame
  <2>4. \A p \in Processors : proc'[p] = proc[p]
    BY <2>1
  <2>5. /\ Busy("consumer")' => Pending(OutboxUpload, proc["consumer"].avatar)'
        /\ del'.pc \in {"remove", "commit"} =>
             del'.avatar \in Avatars /\ Pending(OutboxDelete, del.avatar)'
    BY <1>a, <2>1 DEF WorkInv, Busy, Pending
  <2>6. maint'.batch \subseteq DOMAIN outbox /\ \A a \in maint'.stuck : Exists(a)
    BY <2>1 DEF WorkInv
  <2> QED BY <1>a, <1>b, <1>c, <1>e, <2>2, <2>4, <2>5, <2>6, WorkerMoves
<1>2. CASE WorkerRestart \/ WorkerCrash
  <2>1. /\ proc' = [p \in Processors |-> IdleProcessor]
        /\ del' = IdleDeleter
        /\ maint' = IdleMaintenance
        /\ stopping' = FALSE
    BY <1>2 DEF WorkerRestart, WorkerCrash
  <2>2. WorkerTypeOK'
    BY <1>d, <2>1 DEF WorkerTypeOK
  <2>3. /\ \A p \in Processors : proc'[p].pc \in {"idle", "exited"}
        /\ ~Busy("consumer")'
        /\ del'.pc \notin {"remove", "commit"}
        /\ maint'.batch \subseteq DOMAIN outbox
        /\ \A a \in maint'.stuck : Exists(a)
    BY <1>d, <2>1 DEF Busy, Processors
  <2> QED BY <1>a, <1>b, <1>c, <1>e, <2>2, <2>3, WorkerMoves
<1> QED BY <1>1, <1>2

(* The passing of two minutes on a claim. *)
LEMMA ClaimExpiresSafe ==
  ASSUME SafetyInv, UNCHANGED serverVars, NEW a \in Avatars, ClaimExpires(a)
  PROVE  SafetyInv'
<1> USE DEF SafetyInv
<1>a. UNCHANGED <<objects, topic, proc, del, maint, stopping>> /\ BecomeStale(a) /\ Exists(a)
  BY DEF ClaimExpires, workerVars, BecomeStale, Live
<1>b. rows' \in [Avatars -> Row] /\ UNCHANGED outbox /\ RowsKept /\ ThumbnailsPresent'
  BY <1>a, RowWrites
<1>c. EnvironmentTypeOK'
  BY BudgetTyped DEF ClaimExpires, TypeOK
<1>1. TypeOK'
  BY <1>a, <1>b, <1>c DEF TypeOK, RepositoryTypeOK, ObjectStoreTypeOK, BrokerTypeOK, ServerTypeOK,
     WorkerTypeOK, serverVars
<1>2. RequestInv' /\ AckedOriginalPresent' /\ ReaderInv' /\ OutboxMatchesRows'
  BY <1>a, <1>b, ServerPartsKept, OutboxKept
<1>3. WorkInv'
  <2>1. \A b \in Avatars : /\ Exists(b) => Exists(b)'
                           /\ rows[b].deleted => rows'[b].deleted
                           /\ rows'[b].deleted => Exists(b)'
    BY <1>b DEF RowsKept, WorkInv
  <2>2. maint.stuck \subseteq Avatars
    BY DEF TypeOK, WorkerTypeOK, Maintenance
  <2> QED BY <1>a, <1>b, <2>1, <2>2, WorkRows
<1>4. ProcessorInv'
  <2>1. \A b \in Avatars : Live(b)' <=> Live(b)
    BY <1>b DEF RowsKept, Live
  <2> QED BY <1>a, <2>1 DEF ProcessorInv, WorkInv, Busy
<1> QED BY <1>1, <1>2, <1>3, <1>4, <1>b
-----------------------------------------------------------------------------
(* The whole system.                                                         *)

(* A step spends one failure or none. *)
LEMMA BudgetStep ==
  ASSUME Next
  PROVE  budget' \in {budget, budget - 1}
<1>1. CASE ServerNext
  BY <1>1 DEF ServerNext, RequestStep, UploadPut, UploadCreate, UploadCompensate, DeleteByID,
     DeleteLatest, DeleteGet, DeleteSoft, GetImage, DownloadImage, RequestCancelled, ServerCrash,
     Healthy, Fault
<1>2. CASE WorkerNext
  BY <1>2 DEF WorkerNext, UploadConsumer, DeleteConsumer, MaintenanceLoop, ProcessUpload, ProcessGet,
     ProcessMark, ProcessDownload, ProcessThumb, ProcessComplete, ProcessFail, UploadFetch,
     UploadCommit, UploadExit, DeleteFetch, DeleteRemove, DeleteCommit, DeleteExit, FlushList,
     FlushPublish, FlushMark, RecoverList, RecoverNext, RecoverEnd, MaintenanceExit, WorkerStop,
     WorkerRestart, WorkerCrash, ClaimExpires, Healthy, Fault, Fails
<1> QED BY <1>1, <1>2 DEF Next

(* Of the steps of the worker only processUpload and the expiry of a claim   *)
(* change a row.                                                             *)
LEMMA OtherWorkKeepsRows ==
  ASSUME WorkerNext, ~(\E p \in Processors : ProcessUpload(p)), ~(\E a \in Avatars : ClaimExpires(a))
  PROVE  UNCHANGED rows
BY DEF WorkerNext, UploadConsumer, DeleteConsumer, MaintenanceLoop, Processors, UploadFetch,
   UploadCommit, UploadExit, DeleteFetch, DeleteRemove, DeleteCommit, DeleteExit, FlushList,
   FlushPublish, FlushMark, MarkOutboxPublished, RecoverList, RecoverNext, RecoverEnd,
   MaintenanceExit, WorkerStop, WorkerRestart, WorkerCrash, repositoryVars

(* The worker creates and deletes no row, and takes no thumbnail from one. *)
LEMMA WorkerRowsKept ==
  ASSUME SafetyInv, WorkerNext
  PROVE  RowsKept
<1>1. ASSUME NEW p \in Processors, ProcessUpload(p) PROVE RowsKept
  <2> DEFINE a == proc[p].avatar
  <2>1. Busy(p)
    BY <1>1 DEF ProcessUpload, ProcessGet, ProcessMark, ProcessDownload, ProcessThumb, ProcessComplete,
       ProcessFail, At, Busy
  <2>2. a \in Avatars /\ Exists(a) /\ (Live(a) => KeysOf(a, proc[p].done) \subseteq objects)
    BY <2>1 DEF SafetyInv, WorkInv, ProcessorInv
  <2>3. objects \subseteq objects'
    BY <1>1 DEF ProcessUpload, ProcessGet, ProcessMark, ProcessDownload, ProcessThumb, ProcessComplete,
       ProcessFail, Put, PutFails
  <2>4. CASE ProcessComplete(p)
    <3>1. proc[p].done = ThumbnailSizes
      BY <2>4 DEF ProcessComplete, At, SafetyInv, ProcessorInv
    <3> QED BY <2>2, <2>3, <2>4, <3>1, RowWrites DEF ProcessComplete
  <2>5. CASE ~ProcessComplete(p)
    <3>1. UNCHANGED repositoryVars \/ MarkProcessing(a) \/ FailProcessing(a)
      BY <1>1, <2>5 DEF ProcessUpload, ProcessGet, ProcessMark, ProcessDownload, ProcessThumb, ProcessFail
    <3> QED BY <2>2, <2>3, <3>1, RowWrites
  <2> QED BY <2>4, <2>5
<1>2. ASSUME NEW a \in Avatars, ClaimExpires(a) PROVE RowsKept
  BY <1>2, RowWrites DEF ClaimExpires, BecomeStale, Live
<1>3. ASSUME ~(\E p \in Processors : ProcessUpload(p)), ~(\E a \in Avatars : ClaimExpires(a))
      PROVE  RowsKept
  BY <1>3, OtherWorkKeepsRows DEF RowsKept, Exists
<1> QED BY <1>1, <1>2, <1>3

(* What the worker stores are thumbnails, one at a time, of an avatar that   *)
(* it has claimed.                                                           *)
LEMMA ProcessStores ==
  ASSUME NEW p \in Processors, ProcessUpload(p)
  PROVE  \/ objects' \subseteq objects
         \/ /\ proc[p].pc = "thumb"
            /\ objects' \subseteq objects \cup {<<proc[p].avatar, NextSize(proc[p].done)>>}
BY DEF ProcessUpload, ProcessGet, ProcessMark, ProcessDownload, ProcessThumb, ProcessComplete,
   ProcessFail, Put, PutFails, ThumbnailObjectKey, At

LEMMA OtherWorkStores ==
  ASSUME WorkerNext, ~(\E p \in Processors : ProcessUpload(p))
  PROVE  objects' \subseteq objects
BY DEF WorkerNext, UploadConsumer, DeleteConsumer, MaintenanceLoop, Processors, UploadFetch,
   UploadCommit, UploadExit, DeleteFetch, DeleteRemove, Remove, RemoveFails, DeleteCommit,
   DeleteExit, FlushList, FlushPublish, FlushMark, RecoverList, RecoverNext, RecoverEnd,
   MaintenanceExit, WorkerStop, WorkerRestart, WorkerCrash, ClaimExpires

(* ... and never an original. *)
LEMMA WorkerStoresNoOriginal ==
  ASSUME WorkerNext, NEW a, Stored(OriginalObjectKey(a))'
  PROVE  Stored(OriginalObjectKey(a))
<1>1. \A done : NextSize(done) # SizeOriginal
  BY DEF NextSize, Size100, Size300, SizeOriginal
<1>2. ASSUME NEW p \in Processors, ProcessUpload(p) PROVE Stored(OriginalObjectKey(a))
  BY <1>1, <1>2, ProcessStores DEF Stored, OriginalObjectKey
<1>3. CASE ~\E p \in Processors : ProcessUpload(p)
  BY <1>3, OtherWorkStores DEF Stored, OriginalObjectKey
<1> QED BY <1>2, <1>3

(* The empty tables, bucket and topics, and two processes that have just     *)
(* started, satisfy the invariant.                                           *)
LEMMA InitSafe == Init => SafetyInv
<1> SUFFICES ASSUME Init PROVE SafetyInv
  OBVIOUS
<1> USE DEF Init, EnvironmentInit, RepositoryInit, ObjectStoreInit, BrokerInit, ServerInit, WorkerInit, Quiet
<1>a. /\ IdleProcessor \in Processor /\ IdleProcessor.pc = "idle"
      /\ IdleDeleter \in Deleter /\ IdleDeleter.pc = "idle"
      /\ IdleMaintenance \in Maintenance /\ IdleMaintenance.batch = {} /\ IdleMaintenance.stuck = {}
  BY LimitsAssumption DEF IdleProcessor, Processor, IdleDeleter, Deleter, IdleMaintenance, Maintenance
<1>b. NoRow \in Row /\ NoRow.status = "absent" /\ ~NoRow.deleted
  BY DEF NoRow, Row
<1>c. IdleRequest \in Request /\ IdleRequest.pc = "idle"
  BY DEF IdleRequest, Request
<1>d. \A a \in Avatars : ~Exists(a) /\ ~Live(a) /\ ~rows[a].deleted
  BY <1>b DEF Exists, Live
<1>e. \A kind \in EventKinds, a \in Avatars : ~Pending(kind, a)
  BY DEF Pending
<1>f. \A p \in Processors : ~Busy(p) /\ proc[p].pc = "idle"
  BY <1>a DEF Busy
<1>1. TypeOK
  <2>1. EnvironmentTypeOK /\ ObjectStoreTypeOK
    BY MaxFaultsAssumption DEF EnvironmentTypeOK, ObjectStoreTypeOK
  <2>2. RepositoryTypeOK /\ BrokerTypeOK
    BY <1>b DEF RepositoryTypeOK, BrokerTypeOK
  <2>3. ServerTypeOK
    BY <1>c, MaxAvatarsAssumption DEF ServerTypeOK
  <2>4. WorkerTypeOK
    BY <1>a DEF WorkerTypeOK
  <2> QED BY <2>1, <2>2, <2>3, <2>4 DEF TypeOK
<1>2. RequestInv
  BY <1>c, <1>d DEF RequestInv, Uploading
<1>3. WorkInv
  BY <1>a, <1>d, <1>e, <1>f DEF WorkInv, Processors
<1>4. OutboxMatchesRows
  BY <1>d DEF OutboxMatchesRows, Events
<1>5. AckedOriginalPresent /\ ThumbnailsPresent
  BY <1>d DEF AckedOriginalPresent, ThumbnailsPresent
<1>6. ProcessorInv /\ ReaderInv
  BY <1>c, <1>f DEF ProcessorInv, ReaderInv
<1> QED BY <1>1, <1>2, <1>3, <1>4, <1>5, <1>6 DEF SafetyInv

(* Every step of either process, and every failure, keeps the invariant. *)
LEMMA NextSafe == SafetyInv /\ [Next]_vars => SafetyInv'
<1> SUFFICES ASSUME SafetyInv, [Next]_vars PROVE SafetyInv'
  OBVIOUS
<1>1. CASE ServerNext /\ UNCHANGED <<topic, workerVars>>
  <2>1. ASSUME NEW r \in Requests, NEW user \in Users,
               UploadPut(r, user) \/ DeleteByID(r, user) \/ DeleteLatest(r, user)
        PROVE  SafetyInv'
    BY <1>1, <2>1, UploadPutSafe, RequestReadSafe
  <2>2. ASSUME NEW r \in Requests, GetImage(r) \/ RequestStep(r) \/ RequestCancelled(r)
        PROVE  SafetyInv'
    <3>1. NoUser \in Users \cup {NoUser}
      OBVIOUS
    <3> QED BY <1>1, <3>1, <2>2, UploadCreateSafe, UploadCompensateSafe, DeleteSoftSafe, RequestReadSafe
       DEF RequestStep
  <2>3. CASE ServerCrash
    BY <1>1, <2>3, ServerCrashSafe
  <2> QED BY <1>1, <2>1, <2>2, <2>3 DEF ServerNext
<1>2. CASE WorkerNext /\ UNCHANGED serverVars
  <2>1. CASE UploadConsumer
    BY <1>2, <2>1, UploadConsumerSafe, ProcessUploadSafe DEF UploadConsumer, Processors
  <2>2. CASE DeleteConsumer
    BY <1>2, <2>2, DeleteConsumerSafe, DeleteRemoveSafe DEF DeleteConsumer
  <2>3. CASE MaintenanceLoop
    BY <1>2, <2>3, MaintenanceSafe, FlushMarkSafe, ProcessUploadSafe DEF MaintenanceLoop, Processors
  <2>4. CASE WorkerStop \/ WorkerRestart \/ WorkerCrash
    BY <1>2, <2>4, WorkerProcessSafe
  <2>5. CASE \E a \in Avatars : ClaimExpires(a)
    BY <1>2, <2>5, ClaimExpiresSafe
  <2> QED BY <1>2, <2>1, <2>2, <2>3, <2>4, <2>5 DEF WorkerNext
<1>3. CASE UNCHANGED vars
  <2>1. UNCHANGED <<budget, rows, outbox, objects, topic, req, nextID, acked, storageUsage, proc, del, maint, stopping>>
    BY <1>3 DEF vars, serverVars, workerVars
  <2>2. TypeOK'
    BY <2>1 DEF SafetyInv, TypeOK, EnvironmentTypeOK, RepositoryTypeOK, ObjectStoreTypeOK, BrokerTypeOK,
       ServerTypeOK, WorkerTypeOK
  <2> QED BY <2>1, <2>2, RequestFrame, WorkFrame, OutboxFrame, AckedFrame, ThumbnailsFrame,
             ProcessorFrame, ReaderFrame DEF SafetyInv
<1> QED BY <1>1, <1>2, <1>3 DEF Next

(* The inductive invariant holds throughout every behaviour. *)
THEOREM Safety == Spec => []SafetyInv
BY InitSafe, NextSafe, PTL DEF Spec

(* Type correctness: every table, queue and program counter keeps its type,  *)
(* in particular the retry counters of the worker stay within their limits,  *)
(* and the batch of FlushOutbox holds ids of the outbox.                     *)
THEOREM TypeCorrect == Spec => []TypeOK
<1>1. SafetyInv => TypeOK
  BY DEF SafetyInv
<1> QED BY <1>1, Safety, PTL

(* The transactional outbox: whatever fails, a row has exactly one upload    *)
(* event, a deleted row exactly one delete event, and there are no others.   *)
THEOREM OutboxFaithful == Spec => []OutboxMatchesRows
<1>1. SafetyInv => OutboxMatchesRows
  BY DEF SafetyInv
<1> QED BY <1>1, Safety, PTL

(* The original of an upload that was answered with 201 is in the bucket     *)
(* for as long as the avatar is live: the compensation of upload and the     *)
(* delete consumer never remove it.                                          *)
THEOREM AckedOriginalKept == Spec => []AckedOriginalPresent
<1>1. SafetyInv => AckedOriginalPresent
  BY DEF SafetyInv
<1> QED BY <1>1, Safety, PTL

(* processUpload records only thumbnails that are stored, and records all of *)
(* them when it completes.                                                   *)
THEOREM ThumbnailsKept == Spec => []ThumbnailsPresent
<1>1. SafetyInv => ThumbnailsPresent
  BY DEF SafetyInv
<1> QED BY <1>1, Safety, PTL

(* A request that fetches an image finds the object it chose when it read    *)
(* the row, however processing goes on between its two calls.                *)
THEOREM ReadersServed == Spec => []ReadersFindObject
<1>1. SafetyInv => ReadersFindObject
  <2> SUFFICES ASSUME SafetyInv, NEW r \in Requests, req[r].pc = "download",
                      Live(req[r].avatar), req[r].avatar \in acked
               PROVE  KeysOf(req[r].avatar, req[r].sizes) \subseteq objects
    BY DEF ReadersFindObject
  <2>1. req[r].avatar \in Avatars
    BY DEF SafetyInv, TypeOK, ServerTypeOK
  <2>2. req[r].sizes \subseteq {SizeOriginal} \cup rows[req[r].avatar].thumbs
    BY DEF SafetyInv, ReaderInv
  <2>3. <<req[r].avatar, SizeOriginal>> \in objects
    BY DEF SafetyInv, AckedOriginalPresent, Stored, OriginalObjectKey
  <2>4. KeysOf(req[r].avatar, rows[req[r].avatar].thumbs) \subseteq objects
    BY <2>1 DEF SafetyInv, ThumbnailsPresent
  <2> QED BY <2>2, <2>3, <2>4 DEF KeysOf
<1> QED BY <1>1, Safety, PTL
=============================================================================
