-------------------------- MODULE GophProfile_deletes --------------------------
(* Proof that a deletion is carried through, in a system in which the broker *)
(* answers, the worker is not asked to stop, and the object store does not   *)
(* fail as often as withRetry calls it: beyond that consume drops a message. *)
(* Statements and transactions may fail, requests may be cancelled and both  *)
(* processes may be killed.  The original of a deleted avatar goes then      *)
(* without further conditions; the thumbnails that its event names go if     *)
(* nobody works on a claimed avatar for more than two minutes.               *)
EXTENDS GophProfile_claims

NothingDropped ==
  /\ Faults \cap {"kafka", "stop"} = {}
  /\ "s3" \in Faults => MaxFaults < Attempts

(* What the delete consumer removes for good: whatever the event names, but  *)
(* for thumbnails that somebody who lost his claim may still be storing.     *)
Owed(a) == {size \in Named(a) : size = SizeOriginal \/ "slow" \notin Faults}

Remains(a) == \E size \in Owed(a) : Stored(<<a, size>>)

(* Every delete event names the original, *)
EventsNameOriginal ==
  \A i \in DOMAIN outbox : outbox[i].kind = OutboxDelete => SizeOriginal \in outbox[i].sizes

(* and every delivery of it is a copy. *)
MessagesNamed ==
  \A a \in Avatars : \A k \in DOMAIN topic[OutboxDelete][a] : topic[OutboxDelete][a][k] = Named(a)

(* ProcessDelete removes every key, and only then is the offset committed.   *)
RemovedBeforeCommit ==
  /\ del.pc = "remove" =>
       \A size \in Owed(del.avatar) : size \in del.todo \/ ~Stored(<<del.avatar, size>>)
  /\ del.pc = "commit" => ~Remains(del.avatar)

(* FlushOutbox has published the event that it is about to mark.             *)
PublishedBeforeMark ==
  maint.pc = "mark" =>
    \A i \in DOMAIN outbox :
      IsFirst(i, maint.batch) /\ outbox[i].kind = OutboxDelete
        => Pending(OutboxDelete, outbox[i].avatar) \/ ~Remains(outbox[i].avatar)

(* What is owed is on its way. *)
Carried == \A a \in Avatars : Remains(a) => DeleteUnderWay(a)

DeleteInv ==
  /\ ~stopping
  /\ EventsNameOriginal
  /\ MessagesNamed
  /\ RemovedBeforeCommit
  /\ PublishedBeforeMark
  /\ Carried

(* Every attempt of ProcessDelete on a message but the first follows a       *)
(* failure.                                                                  *)
AttemptsCounted == del.pc = "remove" => del.attempt <= 1 + (MaxFaults - budget)

(* Thumbnails are recorded by the completion, so a deletion that names them  *)
(* found the avatar completed, and nobody works on it any more.              *)
ThumbsCompleted ==
  \A a \in Avatars : Live(a) /\ rows[a].thumbs # {} => rows[a].status = "completed"

SnapshotSettled ==
  \A r \in Requests :
    req[r].pc = "delete" /\ Live(req[r].avatar) /\ req[r].sizes # {SizeOriginal}
      => rows[req[r].avatar].status = "completed"

NamedSettled ==
  \A a \in Avatars : Named(a) \subseteq {SizeOriginal} \/ Holders(a) = {}

SettledInv == ClaimInv /\ ThumbsCompleted /\ SnapshotSettled /\ NamedSettled

(* A row names all thumbnails or none, and so does a deletion that read it. *)
ThumbsWhole == \A a \in Avatars : rows[a].thumbs \in {{}, ThumbnailSizes}

SnapshotWhole ==
  \A r \in Requests : req[r].pc = "delete" => req[r].sizes \in {{SizeOriginal}, AllowedSizes}

NamedWhole == \A a \in Avatars : Named(a) \in {{}, {SizeOriginal}, AllowedSizes}

WholeInv == ThumbsWhole /\ SnapshotWhole /\ NamedWhole

-----------------------------------------------------------------------------
(* What most steps do: they add events that are complete, unpublished and    *)
(* the first of their avatar, and store nothing that is owed.                *)

EventsKept ==
  /\ DOMAIN outbox \subseteq DOMAIN outbox'
  /\ \A i \in DOMAIN outbox : outbox'[i] = outbox[i]
  /\ \A i \in DOMAIN outbox' \ DOMAIN outbox :
       outbox'[i].kind = OutboxDelete => /\ SizeOriginal \in outbox'[i].sizes
                                         /\ ~outbox'[i].published
                                         /\ Events(OutboxDelete, outbox'[i].avatar) = {}

OwedKept == \A a \in Avatars : \A size \in Owed(a) : Stored(<<a, size>>)' => Stored(<<a, size>>)

(* An event, once written, keeps naming what it names. *)
LEMMA NamedKept ==
  ASSUME EventsKept, NEW a, Events(OutboxDelete, a) # {}
  PROVE  Named(a)' = Named(a) /\ Owed(a)' = Owed(a)
<1>1. Events(OutboxDelete, a)' = Events(OutboxDelete, a)
  BY DEF EventsKept, Events
<1>2. \A i \in Events(OutboxDelete, a) : outbox'[i] = outbox[i]
  BY DEF EventsKept, Events
<1>3. Named(a)' = Named(a)
  BY <1>1, <1>2 DEF Named
<1> QED BY <1>3 DEF Owed

(* A deletion that is on its way, in the topic or at the consumer, or that   *)
(* owes something has an event in the outbox.                                *)
LEMMA EventBehind ==
  ASSUME SafetyInv, NEW a \in Avatars, Pending(OutboxDelete, a) \/ Owed(a) # {}
  PROVE  Events(OutboxDelete, a) # {} /\ rows[a].deleted /\ Exists(a)
<1>1. OutboxDelete \in EventKinds
  BY DEF EventKinds
<1>2. CASE Pending(OutboxDelete, a)
  BY <1>1, <1>2 DEF SafetyInv, WorkInv, OutboxMatchesRows
<1>3. CASE Owed(a) # {}
  <2>1. Events(OutboxDelete, a) # {}
    BY <1>3 DEF Owed, Named
  <2> QED BY <2>1 DEF SafetyInv, WorkInv, OutboxMatchesRows
<1> QED BY <1>2, <1>3

(* Such a step keeps the invariant, if it leaves the delete consumer and the *)
(* mark of FlushOutbox alone or ends them.                                   *)
LEMMA DeleteFrame ==
  ASSUME SafetyInv, DeleteInv, ~stopping', EventsKept, OwedKept,
         \A a \in Avatars : topic'[OutboxDelete][a] = topic[OutboxDelete][a],
         del' = del \/ del'.pc \in {"idle", "exited"},
         maint'.pc # "mark" \/ (maint'.pc = maint.pc /\ maint'.batch = maint.batch)
  PROVE  DeleteInv'
<1>a. outbox \in Seq(OutboxEvent) /\ maint.batch \subseteq DOMAIN outbox
  BY DEF SafetyInv, TypeOK, RepositoryTypeOK, WorkInv
<1>b. \A i \in DOMAIN outbox : outbox[i].avatar \in Avatars
  <2>1. \A i \in DOMAIN outbox : outbox[i] \in OutboxEvent
    BY <1>a
  <2> QED BY <2>1 DEF OutboxEvent
<1>c. \A a \in Avatars : Pending(OutboxDelete, a)' <=> Pending(OutboxDelete, a)
  BY DEF Pending
(* What remains of a deletion that was under way remained before. *)
<1>d. ASSUME NEW a \in Avatars, Events(OutboxDelete, a) # {}
      PROVE  /\ Owed(a)' = Owed(a) /\ Named(a)' = Named(a)
             /\ Remains(a)' => Remains(a)
  <2>1. Owed(a)' = Owed(a) /\ Named(a)' = Named(a)
    BY <1>d, NamedKept
  <2> QED BY <2>1 DEF OwedKept, Remains, Stored
<1>1. EventsNameOriginal'
  BY DEF DeleteInv, EventsNameOriginal, EventsKept
<1>2. MessagesNamed'
  <2> SUFFICES ASSUME NEW a \in Avatars, NEW k \in DOMAIN topic[OutboxDelete][a]
               PROVE  topic[OutboxDelete][a][k] = Named(a)'
    BY DEF MessagesNamed
  <2>1. Pending(OutboxDelete, a)
    BY DEF Pending
  <2>2. Named(a)' = Named(a)
    BY <1>d, <2>1, EventBehind
  <2> QED BY <2>2 DEF DeleteInv, MessagesNamed
<1>3. RemovedBeforeCommit'
  <2>1. CASE del' = del /\ del.pc \in {"remove", "commit"}
    <3>1. PICK d \in Avatars : d = del.avatar /\ Pending(OutboxDelete, d)
      BY <2>1 DEF SafetyInv, WorkInv
    <3>2. Owed(d)' = Owed(d) /\ (Remains(d)' => Remains(d))
      BY <1>d, <3>1, EventBehind
    <3>3. del.pc = "remove" => \A size \in Owed(d)' : size \in del.todo \/ ~Stored(<<d, size>>)'
      BY <3>1, <3>2 DEF OwedKept, DeleteInv, RemovedBeforeCommit
    <3>4. del.pc = "commit" => ~Remains(d)'
      BY <3>1, <3>2 DEF DeleteInv, RemovedBeforeCommit
    <3>5. del'.avatar = d /\ del'.pc = del.pc /\ del'.todo = del.todo
      BY <2>1, <3>1
    <3> QED BY <3>3, <3>4, <3>5 DEF RemovedBeforeCommit, Owed, Named, Events, Remains, Stored
  <2> QED BY <2>1 DEF RemovedBeforeCommit
<1>4. PublishedBeforeMark'
  <2> SUFFICES ASSUME maint'.pc = "mark", NEW i \in DOMAIN outbox', IsFirst(i, maint'.batch),
                      outbox'[i].kind = OutboxDelete,
                      NEW a, a = outbox'[i].avatar
               PROVE  Pending(OutboxDelete, a)' \/ ~Remains(a)'
    BY DEF PublishedBeforeMark, IsFirst, Remains, Owed, Named, Events, Stored, Pending
  <2>1. /\ i \in DOMAIN outbox /\ maint.pc = "mark" /\ IsFirst(i, maint.batch)
        /\ a \in Avatars /\ a = outbox[i].avatar /\ outbox[i].kind = OutboxDelete
    BY <1>a, <1>b DEF IsFirst, EventsKept
  <2>2. Pending(OutboxDelete, a) \/ ~Remains(a)
    BY <2>1 DEF DeleteInv, PublishedBeforeMark
  <2>3. i \in Events(OutboxDelete, a)
    BY <2>1 DEF Events
  <2> QED BY <1>c, <1>d, <2>1, <2>2, <2>3
<1>5. Carried'
  <2> SUFFICES ASSUME NEW a \in Avatars, Remains(a)' PROVE DeleteUnderWay(a)'
    BY DEF Carried
  <2>1. CASE Events(OutboxDelete, a) # {}
    <3>1. DeleteUnderWay(a)
      BY <1>d, <2>1 DEF DeleteInv, Carried
    <3> QED BY <1>c, <3>1 DEF DeleteUnderWay, Events, EventsKept
  <2>2. CASE Events(OutboxDelete, a) = {}
    <3>1. PICK i \in Events(OutboxDelete, a)' : TRUE
      BY DEF Remains, Owed, Named
    <3>2. i \notin DOMAIN outbox
      BY <2>2, <3>1 DEF Events, EventsKept
    <3>3. ~outbox'[i].published
      BY <3>1, <3>2 DEF Events, EventsKept
    <3> QED BY <3>1, <3>3 DEF DeleteUnderWay
  <2> QED BY <2>1, <2>2
<1> QED BY <1>1, <1>2, <1>3, <1>4, <1>5 DEF DeleteInv

-----------------------------------------------------------------------------
(* An insert of an event with a new id, of either kind. *)
LEMMA InsertKeepsEvents ==
  ASSUME RepositoryTypeOK, NEW kind \in EventKinds, NEW a \in Avatars,
         NEW sizes \in SUBSET AllowedSizes, SizeOriginal \in sizes,
         Events(kind, a) = {}, insertOutbox(Event(kind, a, sizes))
  PROVE  EventsKept
BY InsertNewEvent DEF EventsKept

(* The transactions of the server write an event with the row it is about. *)
LEMMA ServerEvents ==
  ASSUME SafetyInv, ServerNext
  PROVE  EventsKept
<1>a. RepositoryTypeOK /\ OutboxMatchesRows
  BY DEF SafetyInv, TypeOK
<1>1. CASE UNCHANGED repositoryVars
  BY <1>1 DEF repositoryVars, EventsKept
<1>2. ASSUME NEW a \in Avatars, NEW user, ~Exists(a), CreateWithOutbox(a, user)
      PROVE  EventsKept
  <2>1. Events(OutboxUpload, a) = {}
    BY <1>2, <1>a DEF OutboxMatchesRows
  <2>2. OutboxUpload \in EventKinds /\ {SizeOriginal} \in SUBSET AllowedSizes
    BY DEF EventKinds, AllowedSizes
  <2> QED BY <1>a, <1>2, <2>1, <2>2, InsertKeepsEvents DEF CreateWithOutbox, UploadEvent
<1>3. ASSUME NEW a \in Avatars, NEW thumbs \in SUBSET AllowedSizes, Live(a),
             SoftDeleteOwnedWithOutbox(a, thumbs)
      PROVE  EventsKept
  <2>1. Events(OutboxDelete, a) = {}
    BY <1>3, <1>a DEF OutboxMatchesRows, Live
  <2> DEFINE sizes == {SizeOriginal} \cup thumbs
  <2>2. OutboxDelete \in EventKinds /\ sizes \in SUBSET AllowedSizes /\ SizeOriginal \in sizes
    BY DEF EventKinds, AllowedSizes
  <2>3. insertOutbox(Event(OutboxDelete, a, sizes))
    BY <1>3 DEF SoftDeleteOwnedWithOutbox, DeleteEvent
  <2> HIDE DEF sizes
  <2> QED BY <1>a, <2>1, <2>2, <2>3, InsertKeepsEvents
<1>4. ASSUME NEW r \in Requests, UploadCreate(r) PROVE EventsKept
  <2>1. req[r].avatar \in Avatars /\ ~Exists(req[r].avatar)
    BY <1>4 DEF UploadCreate, SafetyInv, RequestInv
  <2> QED BY <1>1, <1>2, <1>4, <2>1 DEF UploadCreate
<1>5. ASSUME NEW r \in Requests, DeleteSoft(r) PROVE EventsKept
  <2>1. req[r].avatar \in Avatars /\ (req[r].sizes \ {SizeOriginal}) \in SUBSET AllowedSizes
    BY <1>5 DEF DeleteSoft, SafetyInv, RequestInv, TypeOK, ServerTypeOK, Request
  <2> QED BY <1>1, <1>3, <1>5, <2>1 DEF DeleteSoft, Deletable
<1>6. UNCHANGED repositoryVars \/ \E r \in Requests : UploadCreate(r) \/ DeleteSoft(r)
  BY DEF ServerNext, RequestStep, UploadPut, DeleteByID, DeleteLatest, GetImage, UploadCompensate,
         DeleteGet, DownloadImage, RequestCancelled, ServerCrash
<1> QED BY <1>1, <1>4, <1>5, <1>6

(* It stores originals under new ids only, of which nothing is owed. *)
LEMMA ServerDeletes ==
  ASSUME SafetyInv, DeleteInv, ServerNext, UNCHANGED <<topic, workerVars>>
  PROVE  DeleteInv'
<1>1. \A a \in Avatars : Exists(a) => a # nextID
  BY DEF SafetyInv, RequestInv, TypeOK, ServerTypeOK, Avatars
<1>2. objects' \subseteq objects \cup {OriginalObjectKey(nextID)}
  BY DEF ServerNext, RequestStep, UploadPut, Put, PutFails, UploadCompensate, Remove, RemoveFails,
         UploadCreate, DeleteByID, DeleteLatest, DeleteGet, DeleteSoft, GetImage, DownloadImage,
         RequestCancelled, ServerCrash
<1>3. OwedKept
  <2> SUFFICES ASSUME NEW a \in Avatars, NEW size \in Owed(a), Stored(<<a, size>>)'
               PROVE  Stored(<<a, size>>)
    BY DEF OwedKept
  <2>1. a # nextID
    BY <1>1, EventBehind
  <2> QED BY <1>2, <2>1 DEF Stored, OriginalObjectKey
<1> QED BY <1>3, ServerEvents, DeleteFrame DEF workerVars, DeleteInv

-----------------------------------------------------------------------------
(* Under the condition the broker does not fail, *)
LEMMA NoDrops ==
  ASSUME NothingDropped, DeleteInv
  PROVE  ~Fails("kafka") /\ ~Fault("stop")
BY DEF NothingDropped, DeleteInv, Fails, Fault

(* and after a failed RemoveObject withRetry has an attempt left. *)
LEMMA AttemptLeft ==
  ASSUME NothingDropped, SafetyInv, DeleteInv, AttemptsCounted, del.pc = "remove", Fails("s3")
  PROVE  del.attempt < Attempts
<1>1. "s3" \in Faults /\ budget > 0 /\ budget \in Nat
  BY DEF Fails, Fault, DeleteInv, SafetyInv, TypeOK, EnvironmentTypeOK
<1>2. del.attempt \in Nat /\ Attempts \in Nat /\ MaxFaults \in Nat
  BY LimitsAssumption, MaxFaultsAssumption DEF SafetyInv, TypeOK, WorkerTypeOK, Deleter
<1> QED BY <1>1, <1>2 DEF NothingDropped, AttemptsCounted

(* Only a failure starts another attempt. *)
LEMMA NextAttempts ==
  ASSUME SafetyInv, DeleteInv, AttemptsCounted, [Next]_vars
  PROVE  AttemptsCounted'
<1>a. budget \in Nat /\ MaxFaults \in Nat /\ del \in Deleter /\ ~stopping
  BY MaxFaultsAssumption DEF SafetyInv, TypeOK, EnvironmentTypeOK, WorkerTypeOK, DeleteInv
<1>b. budget \in 0..MaxFaults
  BY DEF SafetyInv, TypeOK, EnvironmentTypeOK
<1>c. del.attempt \in Nat
  BY <1>a, LimitsAssumption DEF Deleter
<1>d. budget' \in {budget, budget - 1}
  BY BudgetStep DEF vars
<1>1. CASE del' = del
  BY <1>1, <1>a, <1>b, <1>c, <1>d DEF AttemptsCounted
<1>2. CASE del'.pc # "remove"
  BY <1>2 DEF AttemptsCounted
<1>3. ASSUME NEW a \in Avatars, DeleteFetch(a) PROVE AttemptsCounted'
  <2>1. del'.attempt = 1 /\ budget' = budget
    BY <1>3 DEF DeleteFetch, Healthy
  <2> QED BY <1>a, <1>b, <2>1 DEF AttemptsCounted
<1>4. ASSUME NEW size \in AllowedSizes, DeleteRemove(size) PROVE AttemptsCounted'
  <2>1. del.pc = "remove" /\ del.attempt <= 1 + (MaxFaults - budget)
    BY <1>4 DEF DeleteRemove, AttemptsCounted
  <2>2. \/ del'.attempt = del.attempt /\ budget' = budget
        \/ del'.attempt = del.attempt + 1 /\ budget' = budget - 1
        \/ del'.pc = "commit"
    BY <1>4, <1>a DEF DeleteRemove, Fails, Fault, Healthy, Deleter
  <2> QED BY <1>a, <1>b, <1>c, <2>1, <2>2 DEF AttemptsCounted
<1>5. \/ del' = del \/ del'.pc # "remove" \/ \E a \in Avatars : DeleteFetch(a)
      \/ \E size \in AllowedSizes : DeleteRemove(size)
  <2>1. CASE UNCHANGED workerVars
    BY <2>1 DEF workerVars
  <2>2. CASE \E p \in Processors : ProcessUpload(p)
    BY <2>2 DEF ProcessUpload, ProcessGet, ProcessMark, ProcessDownload, ProcessThumb, ProcessComplete,
       ProcessFail
  <2>3. CASE DeleteCommit \/ DeleteExit \/ WorkerCrash \/ WorkerRestart
    BY <1>a, <2>3 DEF DeleteCommit, DeleteExit, WorkerCrash, WorkerRestart, IdleDeleter, Deleter
  <2>4. CASE \E i \in maint.batch : FlushPublish(i) \/ FlushMark(i)
    BY <2>4 DEF FlushPublish, FlushMark
  <2>5. CASE \E a \in maint.stuck : RecoverNext(a)
    BY <2>5 DEF RecoverNext
  <2>6. CASE \/ \E a \in Avatars : UploadFetch(a) \/ ClaimExpires(a)
             \/ UploadCommit \/ UploadExit \/ FlushList \/ RecoverList \/ RecoverEnd
             \/ MaintenanceExit \/ WorkerStop
    BY <2>6 DEF UploadFetch, ClaimExpires, UploadCommit, UploadExit, FlushList, RecoverList,
       RecoverEnd, MaintenanceExit, WorkerStop, workerVars
  <2>7. CASE WorkerNext
    BY <2>2, <2>3, <2>4, <2>5, <2>6, <2>7
       DEF WorkerNext, UploadConsumer, DeleteConsumer, MaintenanceLoop, Processors
  <2> QED BY <2>1, <2>7 DEF Next, vars, workerVars
<1> QED BY <1>1, <1>2, <1>3, <1>4, <1>5

(* FlushOutbox goes on with its next event, or is done. *)
LEMMA FlushFromLeavesMark ==
  ASSUME WorkerTypeOK, NEW batch, FlushFrom(batch)
  PROVE  maint'.pc # "mark"
<1>1. PICK pc \in {"list", "publish"} :
        maint' = [maint EXCEPT !.batch = batch, !.tries = 0, !.pc = pc]
  BY DEF FlushFrom
<1> QED BY <1>1 DEF WorkerTypeOK, Maintenance

(* processUpload leaves the outbox and the delete consumer alone, and stores *)
(* nothing that is owed: it stores only thumbnails of an avatar it has       *)
(* claimed, and nobody has a claim on an avatar whose event names any.       *)
LEMMA ProcessUploadDeletes ==
  ASSUME SafetyInv, DeleteInv, "slow" \notin Faults => NamedSettled,
         NEW p \in Processors, ProcessUpload(p)
  PROVE  DeleteInv'
<1>a. maint \in Maintenance
  BY DEF SafetyInv, TypeOK, WorkerTypeOK
<1>b. UNCHANGED <<topic, del, stopping, outbox>>
  BY DEF ProcessUpload, ProcessGet, ProcessMark, ProcessDownload, ProcessThumb, ProcessComplete,
         ProcessFail, repositoryVars, MarkProcessing, CompleteProcessing, FailProcessing
<1>c. OwedKept
  <2> SUFFICES ASSUME NEW a \in Avatars, NEW size \in Owed(a), ~Stored(<<a, size>>), Stored(<<a, size>>)'
               PROVE  FALSE
    BY DEF OwedKept
  <2>1. proc[p].pc = "thumb" /\ a = proc[p].avatar /\ size = NextSize(proc[p].done)
    BY ProcessStores DEF Stored
  <2>2. size # SizeOriginal
    BY <2>1 DEF NextSize, Size100, Size300, SizeOriginal
  <2>3. p \in Holders(a)
    BY <2>1 DEF Holders
  <2> QED BY <2>2, <2>3 DEF Owed, NamedSettled
<1>d. maint'.pc = maint.pc /\ maint'.batch = maint.batch
  <2>1. maint' = maint \/ maint' = [maint EXCEPT !.stuck = @ \ {proc[p].avatar}]
    BY DEF ProcessUpload, ProcessGet, ProcessMark, ProcessDownload, ProcessThumb, ProcessComplete,
           ProcessFail, Return, Goto, Abort
  <2> QED BY <1>a, <2>1 DEF Maintenance
<1> QED BY <1>b, <1>c, <1>d, DeleteFrame DEF DeleteInv, EventsKept

(* The other steps of the worker that leave delete messages alone. *)
LEMMA OtherWorkDeletes ==
  ASSUME NothingDropped, SafetyInv, DeleteInv,
         \/ \E a \in Avatars : UploadFetch(a) \/ ClaimExpires(a)
         \/ UploadCommit \/ UploadExit \/ DeleteExit
         \/ FlushList \/ RecoverList \/ RecoverEnd \/ MaintenanceExit
         \/ \E a \in maint.stuck : RecoverNext(a)
         \/ WorkerStop \/ WorkerRestart \/ WorkerCrash
  PROVE  DeleteInv'
<1>a. ~Fails("kafka") /\ ~Fault("stop") /\ ~stopping
  BY NoDrops DEF DeleteInv
<1>b. ~UploadExit /\ ~DeleteExit /\ ~MaintenanceExit /\ ~WorkerStop
  BY <1>a DEF UploadExit, DeleteExit, MaintenanceExit, WorkerStop
<1>c. UNCHANGED <<outbox, objects>> /\ ~stopping'
  BY <1>a, <1>b DEF UploadFetch, ClaimExpires, UploadCommit, FlushList, RecoverList, RecoverEnd,
     RecoverNext, WorkerRestart, WorkerCrash, repositoryVars, BecomeStale, workerVars
<1>d. \A a \in Avatars : topic'[OutboxDelete][a] = topic[OutboxDelete][a]
  <2>1. topic' = topic \/ \E a : Commit(OutboxUpload, a)
    BY <1>a, <1>b DEF UploadFetch, ClaimExpires, UploadCommit, FlushList, RecoverList, RecoverEnd,
       RecoverNext, WorkerRestart, WorkerCrash
  <2>2. topic \in [EventKinds -> [Avatars -> Seq(SUBSET AllowedSizes)]]
    BY DEF SafetyInv, TypeOK, BrokerTypeOK
  <2> QED BY <2>1, <2>2 DEF Commit, EventKinds, OutboxUpload, OutboxDelete
<1>e. del' = del \/ del'.pc \in {"idle", "exited"}
  BY <1>b DEF UploadFetch, ClaimExpires, UploadCommit, FlushList, RecoverList, RecoverEnd,
     RecoverNext, WorkerRestart, WorkerCrash, workerVars, IdleDeleter
<1>f. maint' = maint \/ maint'.pc # "mark"
  <2>1. maint \in Maintenance
    BY DEF SafetyInv, TypeOK, WorkerTypeOK
  <2>2. CASE FlushList
    <3>1. PICK batch : FlushFrom(batch)
      BY <2>2 DEF FlushList
    <3> QED BY <3>1, FlushFromLeavesMark DEF SafetyInv, TypeOK
  <2>3. CASE RecoverList
    <3>1. CASE maint' = IdleMaintenance
      BY <3>1 DEF IdleMaintenance
    <3>2. CASE maint' = [maint EXCEPT !.pc = "recover", !.stuck = ListStuckUploads(StuckLimit)]
      BY <2>1, <3>2 DEF Maintenance
    <3> QED BY <2>3, <3>1, <3>2 DEF RecoverList
  <2> QED BY <1>b, <2>2, <2>3 DEF UploadFetch, ClaimExpires, UploadCommit, RecoverEnd,
             RecoverNext, WorkerRestart, WorkerCrash, workerVars, IdleMaintenance
<1> QED BY <1>c, <1>d, <1>e, <1>f, DeleteFrame DEF EventsKept, OwedKept, Stored

-----------------------------------------------------------------------------
(* The steps that move deletions on.  None of them writes an event: they may *)
(* mark one as published.                                                    *)
EventsStand ==
  /\ DOMAIN outbox' = DOMAIN outbox
  /\ \A i \in DOMAIN outbox : /\ outbox'[i].kind = outbox[i].kind
                             /\ outbox'[i].avatar = outbox[i].avatar
                             /\ outbox'[i].sizes = outbox[i].sizes

LEMMA EventsStandKeep ==
  ASSUME EventsStand
  PROVE  /\ \A a : Events(OutboxDelete, a)' = Events(OutboxDelete, a)
         /\ \A a : Named(a)' = Named(a) /\ Owed(a)' = Owed(a)
         /\ objects' \subseteq objects => \A a : Remains(a)' => Remains(a)
<1>1. \A a : Events(OutboxDelete, a)' = Events(OutboxDelete, a)
  BY DEF EventsStand, Events
<1>2. \A a : Named(a)' = Named(a)
  <2> SUFFICES ASSUME NEW a PROVE Named(a)' = Named(a)
    OBVIOUS
  <2>1. \A i \in Events(OutboxDelete, a) : outbox'[i].sizes = outbox[i].sizes
    BY DEF EventsStand, Events
  <2> QED BY <1>1, <2>1 DEF Named
<1>3. \A a : Owed(a)' = Owed(a)
  BY <1>2 DEF Owed
<1>4. objects' \subseteq objects => \A a : Remains(a)' => Remains(a)
  BY <1>3 DEF Remains, Stored
<1> QED BY <1>1, <1>2, <1>3, <1>4

(* What a message names is what its event names. *)
LEMMA FetchedNamed ==
  ASSUME SafetyInv, DeleteInv, NEW a \in Avatars, Pending(OutboxDelete, a)
  PROVE  Fetched(OutboxDelete, a) = Named(a)
<1>1. topic[OutboxDelete][a] \in Seq(SUBSET AllowedSizes) /\ topic[OutboxDelete][a] # << >>
  BY DEF Pending, SafetyInv, TypeOK, BrokerTypeOK, EventKinds
<1>2. 1 \in DOMAIN topic[OutboxDelete][a] /\ Head(topic[OutboxDelete][a]) = topic[OutboxDelete][a][1]
  BY <1>1
<1> QED BY <1>2 DEF Fetched, DeleteInv, MessagesNamed

(* A step of the delete consumer that leaves the topic alone and stores      *)
(* nothing keeps the invariant if it keeps its own part of it.               *)
LEMMA ConsumerFrame ==
  ASSUME SafetyInv, DeleteInv, RemovedBeforeCommit',
         UNCHANGED <<outbox, topic, maint, stopping>>, objects' \subseteq objects
  PROVE  DeleteInv'
<1>1. EventsStand
  BY DEF EventsStand
<1>2. /\ \A a : Events(OutboxDelete, a)' = Events(OutboxDelete, a)
      /\ \A a : Named(a)' = Named(a)
      /\ \A a : Remains(a)' => Remains(a)
  BY <1>1, EventsStandKeep
<1>3. EventsNameOriginal'
  BY DEF DeleteInv, EventsNameOriginal
<1>4. MessagesNamed'
  BY <1>2 DEF DeleteInv, MessagesNamed
<1>5. Carried'
  BY <1>2 DEF DeleteInv, Carried, DeleteUnderWay, Pending
<1>6. PublishedBeforeMark'
  <2> SUFFICES ASSUME maint.pc = "mark", NEW i \in DOMAIN outbox, IsFirst(i, maint.batch),
                      outbox[i].kind = OutboxDelete, NEW a, a = outbox[i].avatar
               PROVE  Pending(OutboxDelete, a)' \/ ~Remains(a)'
    BY DEF PublishedBeforeMark, IsFirst, Remains, Owed, Named, Events, Stored, Pending
  <2>1. Pending(OutboxDelete, a) \/ ~Remains(a)
    BY DEF DeleteInv, PublishedBeforeMark
  <2> QED BY <1>2, <2>1 DEF Pending
<1> QED BY <1>3, <1>4, <1>5, <1>6 DEF DeleteInv

(* ProcessDelete is given every key of the message, *)
LEMMA DeleteFetchDeletes ==
  ASSUME SafetyInv, DeleteInv, NEW a \in Avatars, DeleteFetch(a)
  PROVE  DeleteInv'
<1>1. UNCHANGED <<outbox, topic, maint, stopping, objects>>
  BY DEF DeleteFetch, repositoryVars
<1>2. /\ del'.pc = "remove" /\ del'.avatar = a
      /\ del'.todo = Named(a)
  BY FetchedNamed DEF DeleteFetch
<1>3. Owed(a)' = Owed(a) /\ Owed(a) \subseteq Named(a)
  BY <1>1, EventsStandKeep DEF EventsStand, Owed
<1>4. RemovedBeforeCommit'
  BY <1>2, <1>3 DEF RemovedBeforeCommit
<1> QED BY <1>1, <1>4, ConsumerFrame

(* removes them one after the other, and after a failure starts again with   *)
(* all of them,                                                              *)
LEMMA DeleteRemoveDeletes ==
  ASSUME NothingDropped, SafetyInv, DeleteInv, AttemptsCounted,
         NEW size \in AllowedSizes, DeleteRemove(size)
  PROVE  DeleteInv'
<1>a. ~stopping /\ del \in Deleter /\ del.pc = "remove"
  BY DEF DeleteInv, SafetyInv, TypeOK, WorkerTypeOK, DeleteRemove
<1>b. PICK d \in Avatars : d = del.avatar /\ Pending(OutboxDelete, d)
  BY <1>a DEF SafetyInv, WorkInv
<1>c. UNCHANGED <<outbox, topic, maint, stopping>> /\ objects' \subseteq objects
  BY DEF DeleteRemove, Remove, RemoveFails, repositoryVars
<1>d. Owed(d)' = Owed(d) /\ Owed(d) \subseteq Named(d)
  BY <1>c, EventsStandKeep DEF EventsStand, Owed
<1>e. \A s \in Owed(d) : s \in del.todo \/ ~Stored(<<d, s>>)
  BY <1>a, <1>b DEF DeleteInv, RemovedBeforeCommit
<1>1. ASSUME Remove(<<d, size>>),
             del' = [del EXCEPT !.todo = del.todo \ {size},
                                !.pc = IF del.todo \ {size} = {} THEN "commit" ELSE "remove"]
      PROVE  RemovedBeforeCommit'
  <2>1. /\ del'.avatar = d /\ del'.todo = del.todo \ {size}
        /\ del'.pc = "commit" => del.todo \ {size} = {}
    BY <1>a, <1>b, <1>1 DEF Deleter
  <2>2. \A s \in Owed(d)' : s \in del.todo \ {size} \/ ~Stored(<<d, s>>)'
    BY <1>d, <1>e, <1>1 DEF Remove, Stored
  <2>3. del'.pc = "commit" => ~Remains(d)'
    BY <2>1, <2>2 DEF Remains
  <2> QED BY <2>1, <2>2, <2>3 DEF RemovedBeforeCommit, Owed, Named, Events, Remains, Stored
<1>2. ASSUME del' = [del EXCEPT !.attempt = @ + 1, !.todo = Fetched(OutboxDelete, del.avatar)]
      PROVE  RemovedBeforeCommit'
  <2>1. del'.pc = "remove" /\ del'.avatar = d /\ del'.todo = Named(d)
    BY <1>a, <1>b, <1>2, FetchedNamed DEF Deleter
  <2> QED BY <1>d, <2>1 DEF RemovedBeforeCommit
<1>3. RemovedBeforeCommit'
  <2>1. Fails("s3") => del.attempt # Attempts
    <3>1. del.attempt \in Nat /\ Attempts \in Nat
      BY <1>a, LimitsAssumption DEF Deleter
    <3> QED BY <1>a, <3>1, AttemptLeft
  <2> QED BY <1>a, <1>b, <1>1, <1>2, <2>1 DEF DeleteRemove
<1> QED BY <1>c, <1>3, ConsumerFrame

(* and the offset is committed when nothing of them is left. *)
LEMMA DeleteCommitDeletes ==
  ASSUME NothingDropped, SafetyInv, DeleteInv, DeleteCommit
  PROVE  DeleteInv'
<1>a. ~Fails("kafka") /\ ~stopping
  BY NoDrops DEF DeleteInv
<1>b. /\ UNCHANGED <<outbox, maint, stopping, objects>>
      /\ Commit(OutboxDelete, del.avatar)
      /\ del'.pc = "idle" /\ del.pc = "commit"
  BY <1>a DEF DeleteCommit, repositoryVars, IdleDeleter
<1>c. PICK d \in Avatars : d = del.avatar /\ Pending(OutboxDelete, d) /\ ~Remains(d)
  BY <1>b DEF SafetyInv, WorkInv, DeleteInv, RemovedBeforeCommit
<1>d. /\ topic \in [EventKinds -> [Avatars -> Seq(SUBSET AllowedSizes)]]
      /\ OutboxDelete \in EventKinds
  BY DEF SafetyInv, TypeOK, BrokerTypeOK, EventKinds
<1>e. /\ topic'[OutboxDelete][d] = Tail(topic[OutboxDelete][d])
      /\ \A a \in Avatars : a # d => topic'[OutboxDelete][a] = topic[OutboxDelete][a]
  BY <1>b, <1>c, <1>d DEF Commit
<1>f. /\ \A a : Events(OutboxDelete, a)' = Events(OutboxDelete, a)
      /\ \A a : Named(a)' = Named(a)
      /\ \A a : Remains(a)' => Remains(a)
  BY <1>b, EventsStandKeep DEF EventsStand
<1>1. EventsNameOriginal' /\ RemovedBeforeCommit'
  BY <1>b DEF DeleteInv, EventsNameOriginal, RemovedBeforeCommit
<1>2. MessagesNamed'
  <2>1. \A k \in DOMAIN Tail(topic[OutboxDelete][d]) :
          /\ k + 1 \in DOMAIN topic[OutboxDelete][d]
          /\ Tail(topic[OutboxDelete][d])[k] = topic[OutboxDelete][d][k + 1]
    <3>1. topic[OutboxDelete][d] \in Seq(SUBSET AllowedSizes)
      BY <1>d
    <3> QED BY <1>c, <3>1 DEF Pending
  <2>2. \A k \in DOMAIN topic'[OutboxDelete][d] : topic'[OutboxDelete][d][k] = Named(d)
    BY <1>e, <2>1 DEF DeleteInv, MessagesNamed
  <2> QED BY <1>e, <1>f, <2>2 DEF DeleteInv, MessagesNamed
<1>3. Carried'
  BY <1>b, <1>c, <1>e, <1>f DEF DeleteInv, Carried, DeleteUnderWay, Pending
<1>4. PublishedBeforeMark'
  <2> SUFFICES ASSUME maint.pc = "mark", NEW i \in DOMAIN outbox, IsFirst(i, maint.batch),
                      outbox[i].kind = OutboxDelete, NEW a, a = outbox[i].avatar
               PROVE  Pending(OutboxDelete, a)' \/ ~Remains(a)'
    BY <1>b DEF PublishedBeforeMark, IsFirst, Remains, Owed, Named, Events, Stored, Pending
  <2>1. a \in Avatars
    <3>1. outbox \in Seq(OutboxEvent)
      BY DEF SafetyInv, TypeOK, RepositoryTypeOK
    <3>2. outbox[i] \in OutboxEvent
      BY <3>1
    <3> QED BY <3>2 DEF OutboxEvent
  <2>2. Pending(OutboxDelete, a) \/ ~Remains(a)
    BY DEF DeleteInv, PublishedBeforeMark
  <2> QED BY <1>c, <1>e, <1>f, <2>1, <2>2 DEF Pending
<1> QED BY <1>b, <1>a, <1>1, <1>2, <1>3, <1>4 DEF DeleteInv

(* FlushOutbox, the publish: the message is in the topic before the mark.    *)
LEMMA FlushPublishDeletes ==
  ASSUME NothingDropped, SafetyInv, DeleteInv, NEW i \in maint.batch, FlushPublish(i)
  PROVE  DeleteInv'
<1>a. ~Fails("kafka") /\ ~stopping
  BY NoDrops DEF DeleteInv
<1>b. /\ UNCHANGED <<rows, outbox, objects, del, stopping>>
      /\ Publish(outbox[i])
      /\ maint' = [maint EXCEPT !.pc = "mark"]
      /\ IsFirst(i, maint.batch)
  BY <1>a DEF FlushPublish, repositoryVars
<1>c. /\ topic \in [EventKinds -> [Avatars -> Seq(SUBSET AllowedSizes)]] /\ OutboxDelete \in EventKinds
      /\ outbox \in Seq(OutboxEvent) /\ maint \in Maintenance
      /\ maint.batch \subseteq DOMAIN outbox
  BY DEF SafetyInv, TypeOK, BrokerTypeOK, EventKinds, RepositoryTypeOK, WorkerTypeOK, WorkInv
<1>d. PICK e \in OutboxEvent : e = outbox[i]
  BY <1>c
<1>e. e.kind \in EventKinds /\ e.avatar \in Avatars /\ e.sizes \in SUBSET AllowedSizes
  BY DEF OutboxEvent
<1>f. maint'.batch = maint.batch
  BY <1>b, <1>c DEF Maintenance
(* The queue of the event, after the append. *)
<1>g. PICK q \in Seq(SUBSET AllowedSizes) :
        /\ topic' = [topic EXCEPT ![e.kind][e.avatar] = q]
        /\ q # << >>
        /\ \A k \in DOMAIN q : \/ k \in DOMAIN topic[e.kind][e.avatar] /\ q[k] = topic[e.kind][e.avatar][k]
                               \/ q[k] = e.sizes
  <2>1. PICK s \in Seq(SUBSET AllowedSizes) : s = topic[e.kind][e.avatar]
    BY <1>c, <1>e
  <2>2. topic' = [topic EXCEPT ![e.kind][e.avatar] = Append(s, e.sizes)]
    BY <1>b, <1>d, <2>1 DEF Publish
  <2>3. /\ Append(s, e.sizes) \in Seq(SUBSET AllowedSizes)
        /\ Len(Append(s, e.sizes)) = Len(s) + 1
        /\ Len(s) \in Nat
    BY <1>e
  <2>4. Append(s, e.sizes) # << >>
    <3>1. Len(Append(s, e.sizes)) # 0
      BY <2>3
    <3> QED BY <2>3, <3>1
  <2>5. \A k \in DOMAIN Append(s, e.sizes) :
           (k \in DOMAIN s /\ Append(s, e.sizes)[k] = s[k]) \/ Append(s, e.sizes)[k] = e.sizes
    BY <1>e
  <2> QED BY <2>1, <2>2, <2>3, <2>4, <2>5
<1>h. \A k \in EventKinds, a \in Avatars :
        topic'[k][a] = IF k = e.kind /\ a = e.avatar THEN q ELSE topic[k][a]
  BY <1>c, <1>e, <1>g
<1>k. /\ \A a : Events(OutboxDelete, a)' = Events(OutboxDelete, a)
      /\ \A a : Named(a)' = Named(a)
      /\ \A a : Remains(a)' => Remains(a)
  BY <1>b, EventsStandKeep DEF EventsStand
<1>1. EventsNameOriginal' /\ RemovedBeforeCommit'
  <2>1. EventsNameOriginal'
    BY <1>b DEF DeleteInv, EventsNameOriginal
  <2>2. RemovedBeforeCommit'
    BY <1>b DEF DeleteInv, RemovedBeforeCommit, Remains, Owed, Named, Events, Stored
  <2> QED BY <2>1, <2>2
<1>2. MessagesNamed'
  (* There is no other event of this id. *)
  <2>1. e.kind = OutboxDelete => e.sizes = Named(e.avatar)
    <3> SUFFICES ASSUME e.kind = OutboxDelete PROVE e.sizes = Named(e.avatar)
      OBVIOUS
    <3>1. \A j \in Events(OutboxDelete, e.avatar) : j = i
      BY <1>c, <1>d DEF Events, SafetyInv, OutboxMatchesRows, SameEventID
    <3>2. i \in Events(OutboxDelete, e.avatar)
      BY <1>c, <1>d DEF Events
    <3> QED BY <1>d, <1>e, <3>1, <3>2 DEF Named
  <2>2. ASSUME NEW a \in Avatars, NEW k \in DOMAIN topic'[OutboxDelete][a]
        PROVE  topic'[OutboxDelete][a][k] = Named(a)
    <3>1. CASE e.kind = OutboxDelete /\ a = e.avatar
      <4>1. topic'[OutboxDelete][a] = q
        BY <1>c, <1>h, <3>1
      <4> QED BY <1>g, <2>1, <2>2, <3>1, <4>1 DEF DeleteInv, MessagesNamed
    <3>2. CASE ~(e.kind = OutboxDelete /\ a = e.avatar)
      <4>1. topic'[OutboxDelete][a] = topic[OutboxDelete][a]
        BY <1>c, <1>h, <3>2
      <4> QED BY <2>2, <4>1 DEF DeleteInv, MessagesNamed
    <3> QED BY <3>1, <3>2
  <2> QED BY <1>k, <2>2 DEF MessagesNamed
<1>3. PublishedBeforeMark'
  <2>1. \A j \in DOMAIN outbox : IsFirst(j, maint.batch) => j = i
    BY <1>b, <1>c DEF IsFirst
  <2>2. e.kind = OutboxDelete => Pending(OutboxDelete, outbox[i].avatar)'
    BY <1>b, <1>c, <1>d, <1>e, <1>g, <1>h DEF Pending
  <2> QED BY <1>b, <1>d, <1>f, <2>1, <2>2 DEF PublishedBeforeMark, IsFirst
<1>4. Carried'
  <2>1. \A a \in Avatars : Pending(OutboxDelete, a) => Pending(OutboxDelete, a)'
    BY <1>c, <1>g, <1>h DEF Pending
  <2> QED BY <1>b, <1>k, <2>1 DEF DeleteInv, Carried, DeleteUnderWay
<1> QED BY <1>b, <1>1, <1>2, <1>3, <1>4 DEF DeleteInv

(* FlushOutbox, the mark: the event that stops being unpublished is in the   *)
(* topic, or has already done its work.                                      *)
LEMMA FlushMarkDeletes ==
  ASSUME NothingDropped, SafetyInv, DeleteInv, NEW i \in maint.batch, FlushMark(i)
  PROVE  DeleteInv'
<1>a. /\ UNCHANGED <<rows, objects, topic, del, stopping>>
      /\ IsFirst(i, maint.batch) /\ maint.pc = "mark"
  BY DEF FlushMark, MarkOutboxPublished, repositoryVars
<1>b. outbox \in Seq(OutboxEvent) /\ i \in DOMAIN outbox
  BY DEF SafetyInv, TypeOK, RepositoryTypeOK, WorkInv
<1>c. maint'.pc # "mark"
  BY FlushFromLeavesMark DEF FlushMark, SafetyInv, TypeOK
<1>d. /\ DOMAIN outbox' = DOMAIN outbox
      /\ \A j \in DOMAIN outbox : /\ outbox'[j].kind = outbox[j].kind
                                 /\ outbox'[j].avatar = outbox[j].avatar
                                 /\ outbox'[j].sizes = outbox[j].sizes
      /\ \A j \in DOMAIN outbox \ {i} : outbox'[j] = outbox[j]
  <2>1. outbox[i] \in OutboxEvent
    BY <1>b
  <2>2. CASE UNCHANGED repositoryVars
    BY <2>2 DEF repositoryVars
  <2>3. CASE MarkOutboxPublished(i)
    BY <1>b, <2>1, <2>3 DEF MarkOutboxPublished, OutboxEvent
  <2> QED BY <2>2, <2>3 DEF FlushMark
<1>e. /\ \A a : Events(OutboxDelete, a)' = Events(OutboxDelete, a)
      /\ \A a : Named(a)' = Named(a) /\ Owed(a)' = Owed(a)
      /\ \A a : Remains(a)' => Remains(a)
  BY <1>a, <1>d, EventsStandKeep DEF EventsStand
<1>1. EventsNameOriginal' /\ MessagesNamed'
  BY <1>a, <1>d, <1>e DEF DeleteInv, EventsNameOriginal, MessagesNamed
<1>2. RemovedBeforeCommit' /\ PublishedBeforeMark'
  BY <1>a, <1>c, <1>e DEF DeleteInv, RemovedBeforeCommit, PublishedBeforeMark, Stored
<1>3. Carried'
  <2> SUFFICES ASSUME NEW a \in Avatars, Remains(a) PROVE DeleteUnderWay(a)'
    BY <1>e DEF Carried
  <2>1. DeleteUnderWay(a)
    BY DEF DeleteInv, Carried
  <2>2. CASE Pending(OutboxDelete, a)
    BY <1>a, <2>2 DEF DeleteUnderWay, Pending
  <2>3. ASSUME NEW j \in Events(OutboxDelete, a), ~outbox[j].published
        PROVE  DeleteUnderWay(a)'
    <3>1. CASE j # i
      <4>1. outbox'[j] = outbox[j]
        BY <1>d, <3>1 DEF Events
      <4>2. j \in Events(OutboxDelete, a)'
        BY <1>e
      <4> QED BY <2>3, <4>1, <4>2 DEF DeleteUnderWay
    <3>2. CASE j = i
      <4>1. Pending(OutboxDelete, a)
        BY <1>a, <1>b, <2>3, <3>2 DEF Events, DeleteInv, PublishedBeforeMark
      <4> QED BY <2>2, <4>1
    <3> QED BY <3>1, <3>2
  <2> QED BY <2>1, <2>2, <2>3 DEF DeleteUnderWay
<1> QED BY <1>a, <1>1, <1>2, <1>3 DEF DeleteInv

-----------------------------------------------------------------------------
(* Why nobody stores a thumbnail that is owed.                               *)

(* Only the completion of an avatar records thumbnails, and then all of     *)
(* them.                                                                     *)
LEMMA WorkerThumbs ==
  ASSUME SafetyInv, WorkerNext, NEW a \in Avatars
  PROVE  \/ rows'[a].thumbs = rows[a].thumbs
         \/ rows'[a].status = "completed" /\ rows'[a].thumbs = ThumbnailSizes
<1> DEFINE Recorded == \/ rows'[a].thumbs = rows[a].thumbs
                       \/ rows'[a].status = "completed" /\ rows'[a].thumbs = ThumbnailSizes
<1>a. rows \in [Avatars -> Row]
  BY DEF SafetyInv, TypeOK, RepositoryTypeOK
<1>1. ASSUME NEW p \in Processors, ProcessUpload(p) PROVE Recorded
  <2>1. PICK b : b = proc[p].avatar
    OBVIOUS
  <2>2. \/ UNCHANGED rows \/ MarkProcessing(b) \/ FailProcessing(b)
        \/ CompleteProcessing(b, proc[p].done) /\ proc[p].pc = "complete"
    BY <1>1, <2>1 DEF ProcessUpload, ProcessGet, ProcessMark, ProcessDownload, ProcessThumb,
       ProcessComplete, ProcessFail, repositoryVars, At
  <2>3. CASE UNCHANGED rows \/ MarkProcessing(b) \/ FailProcessing(b)
    BY <1>a, <2>3 DEF MarkProcessing, FailProcessing, Row
  <2>4. CASE CompleteProcessing(b, proc[p].done) /\ proc[p].pc = "complete"
    <3>1. CompleteProcessing(b, ThumbnailSizes)
      BY <2>4 DEF SafetyInv, ProcessorInv
    <3> QED BY <1>a, <3>1 DEF CompleteProcessing, Row
  <2> QED BY <2>2, <2>3, <2>4
<1>2. ASSUME NEW b \in Avatars, ClaimExpires(b) PROVE rows'[a].thumbs = rows[a].thumbs
  BY <1>a, <1>2 DEF ClaimExpires, BecomeStale, Row
<1> QED BY <1>1, <1>2, OtherWorkKeepsRows

(* The worker names nothing: it may mark an event as published. *)
LEMMA WorkerEventsStand ==
  ASSUME SafetyInv, WorkerNext
  PROVE  EventsStand
<1>a. outbox \in Seq(OutboxEvent) /\ maint.batch \subseteq DOMAIN outbox
  BY DEF SafetyInv, TypeOK, RepositoryTypeOK, WorkInv
<1>1. CASE UNCHANGED outbox
  BY <1>1 DEF EventsStand
<1>2. ASSUME NEW i \in maint.batch, FlushMark(i) PROVE EventsStand
  <2>1. outbox[i] \in OutboxEvent
    BY <1>a
  <2>2. CASE MarkOutboxPublished(i)
    BY <1>a, <2>1, <2>2 DEF MarkOutboxPublished, OutboxEvent, EventsStand
  <2> QED BY <1>1, <1>2, <2>2 DEF FlushMark, repositoryVars
<1>3. UNCHANGED outbox \/ \E i \in maint.batch : FlushMark(i)
  <2>1. CASE \E p \in Processors : ProcessUpload(p)
    BY <2>1 DEF ProcessUpload, ProcessGet, ProcessMark, ProcessDownload, ProcessThumb, ProcessComplete,
       ProcessFail, repositoryVars, MarkProcessing, CompleteProcessing, FailProcessing
  <2>2. CASE \E a \in Avatars : ClaimExpires(a)
    BY <2>2 DEF ClaimExpires, BecomeStale
  <2>3. CASE OtherWork
    BY <2>3 DEF OtherWork, UploadFetch, DeleteFetch, UploadCommit, UploadExit, DeleteRemove,
       DeleteCommit, DeleteExit, FlushList, FlushPublish, RecoverList, RecoverNext, RecoverEnd,
       MaintenanceExit, WorkerStop, WorkerRestart, WorkerCrash, repositoryVars
  <2> QED BY <2>1, <2>2, <2>3
          DEF WorkerNext, UploadConsumer, DeleteConsumer, MaintenanceLoop, Processors, OtherWork
<1> QED BY <1>1, <1>2, <1>3

(* The worker: what is completed stays completed, and nobody starts to work  *)
(* on what is deleted.                                                       *)
LEMMA WorkerSettled ==
  ASSUME SafetyInv, SettledInv, KeepsCompleted, ClaimInv', WorkerNext, UNCHANGED serverVars
  PROVE  SettledInv'
<1>a. RowsKept
  BY WorkerRowsKept
<1>b. \A a \in Avatars : Live(a)' => Live(a)
  BY <1>a DEF RowsKept, Live
<1>1. ThumbsCompleted'
  BY <1>b, WorkerThumbs DEF SettledInv, ThumbsCompleted, KeepsCompleted
<1>2. SnapshotSettled'
  <2>1. \A r \in Requests : req[r].pc = "delete" => req[r].avatar \in Avatars
    BY DEF SafetyInv, RequestInv
  <2>2. req' = req
    BY DEF serverVars
  <2> QED BY <1>b, <2>1, <2>2 DEF SettledInv, SnapshotSettled, KeepsCompleted, Live, Exists
<1>3. NamedSettled'
  <2> SUFFICES ASSUME NEW a \in Avatars, ~(Named(a)' \subseteq {SizeOriginal})
               PROVE  Holders(a)' = {}
    BY DEF NamedSettled
  <2>1. ~(Named(a) \subseteq {SizeOriginal})
    BY WorkerEventsStand, EventsStandKeep
  <2>2. Holders(a) = {}
    BY <2>1 DEF SettledInv, NamedSettled
  <2>3. Events(OutboxDelete, a) # {}
    BY <2>1 DEF Named
  <2>4. ~Live(a)
    BY <2>3 DEF SafetyInv, OutboxMatchesRows, Live
  <2> QED BY <2>2, <2>4, NoClaimOnDeleted
<1> QED BY <1>1, <1>2, <1>3 DEF SettledInv

(* A new delete event names the original and, of the sizes of the snapshot   *)
(* that its request took, the others.                                        *)
LEMMA ServerNames ==
  ASSUME SafetyInv, ServerNext, NEW i \in DOMAIN outbox' \ DOMAIN outbox,
         outbox'[i].kind = OutboxDelete
  PROVE  \E r \in Requests : /\ req[r].pc = "delete"
                             /\ req[r].avatar = outbox'[i].avatar
                             /\ Live(req[r].avatar)
                             /\ outbox'[i].sizes = {SizeOriginal} \cup req[r].sizes
<1>a. RepositoryTypeOK /\ OutboxMatchesRows
  BY DEF SafetyInv, TypeOK
<1>1. ASSUME NEW a \in Avatars, NEW user, ~Exists(a), CreateWithOutbox(a, user)
      PROVE  FALSE
  <2>1. Events(OutboxUpload, a) = {}
    BY <1>1, <1>a DEF OutboxMatchesRows
  <2>2. OutboxUpload \in EventKinds /\ {SizeOriginal} \in SUBSET AllowedSizes
    BY DEF EventKinds, AllowedSizes
  <2>3. outbox'[i].kind = OutboxUpload
    BY <1>a, <1>1, <2>1, <2>2, InsertNewEvent DEF CreateWithOutbox, UploadEvent
  <2> QED BY <2>3 DEF OutboxUpload, OutboxDelete
<1>2. ASSUME NEW a \in Avatars, NEW thumbs \in SUBSET AllowedSizes, Live(a),
             SoftDeleteOwnedWithOutbox(a, thumbs)
      PROVE  outbox'[i].avatar = a /\ outbox'[i].sizes = {SizeOriginal} \cup thumbs
  <2>1. Events(OutboxDelete, a) = {}
    BY <1>2, <1>a DEF OutboxMatchesRows, Live
  <2> DEFINE sizes == {SizeOriginal} \cup thumbs
  <2>2. OutboxDelete \in EventKinds /\ sizes \in SUBSET AllowedSizes
    BY DEF EventKinds, AllowedSizes
  <2>3. insertOutbox(Event(OutboxDelete, a, sizes))
    BY <1>2 DEF SoftDeleteOwnedWithOutbox, DeleteEvent
  <2> HIDE DEF sizes
  <2>4. outbox'[i].avatar = a /\ outbox'[i].sizes = sizes
    BY <1>a, <2>1, <2>2, <2>3, InsertNewEvent
  <2> QED BY <2>4 DEF sizes
<1>3. ~UNCHANGED repositoryVars
  BY DEF repositoryVars
<1>4. ASSUME NEW r \in Requests, UploadCreate(r) PROVE FALSE
  <2>1. req[r].avatar \in Avatars /\ ~Exists(req[r].avatar)
    BY <1>4 DEF UploadCreate, SafetyInv, RequestInv
  <2> QED BY <1>1, <1>3, <1>4, <2>1 DEF UploadCreate
<1>5. PICK r \in Requests : DeleteSoft(r)
  BY <1>3, <1>4 DEF ServerNext, RequestStep, UploadPut, DeleteByID, DeleteLatest, GetImage,
     UploadCompensate, DeleteGet, DownloadImage, RequestCancelled, ServerCrash
<1>6. req[r].avatar \in Avatars /\ (req[r].sizes \ {SizeOriginal}) \in SUBSET AllowedSizes
  BY <1>5 DEF DeleteSoft, SafetyInv, RequestInv, TypeOK, ServerTypeOK, Request
<1>7. /\ req[r].pc = "delete" /\ Live(req[r].avatar)
      /\ SoftDeleteOwnedWithOutbox(req[r].avatar, req[r].sizes \ {SizeOriginal})
  BY <1>3, <1>5 DEF DeleteSoft, Deletable
<1>8. /\ outbox'[i].avatar = req[r].avatar
      /\ outbox'[i].sizes = {SizeOriginal} \cup (req[r].sizes \ {SizeOriginal})
  BY <1>2, <1>6, <1>7
<1> QED BY <1>7, <1>8

(* A request that comes to the deletion has just read the row. *)
LEMMA ServerSnapshots ==
  ASSUME SafetyInv, ServerNext, NEW r \in Requests, req'[r].pc = "delete", req'[r] # req[r]
  PROVE  /\ UNCHANGED rows
         /\ req'[r].avatar \in Avatars
         /\ Live(req'[r].avatar)
         /\ req'[r].sizes = {SizeOriginal} \cup rows[req'[r].avatar].thumbs
<1>a. req \in [Requests -> Request]
  BY DEF SafetyInv, TypeOK, ServerTypeOK
<1>1. ASSUME NEW s \in Requests, Answer(s) PROVE FALSE
  BY <1>a, <1>1 DEF Answer, IdleRequest
<1>2. ASSUME NEW s \in Requests, NEW pc, NEW user, NEW a, NEW sizes, Continue(s, pc, user, a, sizes)
      PROVE  pc = "delete" /\ req'[r].avatar = a /\ req'[r].sizes = sizes
  BY <1>a, <1>2 DEF Continue
<1>3. ASSUME NEW s \in Requests, NEW user, NEW a \in Avatars, Live(a), Snapshot(s, user, a)
      PROVE  /\ req'[r].avatar \in Avatars /\ Live(req'[r].avatar)
             /\ req'[r].sizes = {SizeOriginal} \cup rows[req'[r].avatar].thumbs
  <2>1. req'[r].avatar = a /\ req'[r].sizes = {SizeOriginal} \cup rows[a].thumbs
    BY <1>2, <1>3 DEF Snapshot, DeleteEvent, Event
  <2> QED BY <1>3, <2>1
<1>4. ASSUME NEW s \in Requests, NEW user \in Users, UploadPut(s, user) \/ DeleteLatest(s, user)
      PROVE  FALSE
  BY <1>2, <1>4 DEF UploadPut, DeleteLatest
<1>5. ASSUME NEW s \in Requests, NEW user \in Users, DeleteByID(s, user)
      PROVE  /\ UNCHANGED rows /\ req'[r].avatar \in Avatars /\ Live(req'[r].avatar)
             /\ req'[r].sizes = {SizeOriginal} \cup rows[req'[r].avatar].thumbs
  <2>1. PICK a \in LiveOf(user) : Snapshot(s, user, a)
    BY <1>5 DEF DeleteByID
  <2> QED BY <1>3, <1>5, <2>1 DEF LiveOf, DeleteByID, repositoryVars
<1>6. ASSUME NEW s \in Requests, DeleteGet(s)
      PROVE  /\ UNCHANGED rows /\ req'[r].avatar \in Avatars /\ Live(req'[r].avatar)
             /\ req'[r].sizes = {SizeOriginal} \cup rows[req'[r].avatar].thumbs
  <2>1. req[s].avatar \in Avatars
    BY <1>6 DEF DeleteGet, SafetyInv, RequestInv
  <2>2. Deletable(req[s].avatar, req[s].user) /\ Snapshot(s, req[s].user, req[s].avatar)
    BY <1>1, <1>6 DEF DeleteGet
  <2> QED BY <1>3, <1>6, <2>1, <2>2 DEF Deletable, DeleteGet, repositoryVars
<1>7. ASSUME NEW s \in Requests, GetImage(s) PROVE FALSE
  BY <1>2, <1>7 DEF GetImage
<1>8. ASSUME NEW s \in Requests, UploadCreate(s) PROVE FALSE
  BY <1>1, <1>2, <1>8 DEF UploadCreate
<1>9. ASSUME NEW s \in Requests,
             UploadCompensate(s) \/ DeleteSoft(s) \/ DownloadImage(s) \/ RequestCancelled(s)
      PROVE  FALSE
  BY <1>1, <1>9 DEF UploadCompensate, DeleteSoft, DownloadImage, RequestCancelled
<1>10. ~ServerCrash
  BY DEF ServerCrash, IdleRequest
<1> QED BY <1>4, <1>5, <1>6, <1>7, <1>8, <1>9, <1>10 DEF ServerNext, RequestStep

(* The rows the server writes are new, without thumbnails, or deleted. *)
LEMMA ServerRows ==
  ASSUME SafetyInv, ServerNext, NEW a \in Avatars
  PROVE  \/ rows'[a] = rows[a]
         \/ ~Exists(a) /\ rows'[a].thumbs = {}
         \/ ~Live(a)' /\ rows'[a].thumbs = rows[a].thumbs
<1>a. rows \in [Avatars -> Row]
  BY DEF SafetyInv, TypeOK, RepositoryTypeOK
<1>1. ASSUME NEW r \in Requests, UploadCreate(r)
      PROVE  rows'[a] = rows[a] \/ (~Exists(a) /\ rows'[a].thumbs = {})
  <2>1. ~Exists(req[r].avatar)
    BY <1>1 DEF UploadCreate, SafetyInv, RequestInv
  <2> QED BY <1>a, <1>1, <2>1 DEF UploadCreate, CreateWithOutbox, NoRow, repositoryVars
<1>2. ASSUME NEW r \in Requests, DeleteSoft(r)
      PROVE  rows'[a] = rows[a] \/ (~Live(a)' /\ rows'[a].thumbs = rows[a].thumbs)
  BY <1>a, <1>2 DEF DeleteSoft, SoftDeleteOwnedWithOutbox, repositoryVars, Row, Live
<1>3. UNCHANGED rows \/ \E r \in Requests : UploadCreate(r) \/ DeleteSoft(r)
  BY DEF ServerNext, RequestStep, UploadPut, DeleteByID, DeleteLatest, GetImage, UploadCompensate,
         DeleteGet, DownloadImage, RequestCancelled, ServerCrash, repositoryVars
<1> QED BY <1>1, <1>2, <1>3

(* The server: a deletion whose snapshot shows thumbnails comes after the    *)
(* completion.                                                               *)
LEMMA ServerSettled ==
  ASSUME SafetyInv, SettledInv, KeepsCompleted, ClaimInv', ServerNext, UNCHANGED workerVars
  PROVE  SettledInv'
<1>1. ThumbsCompleted'
  <2> SUFFICES ASSUME NEW a \in Avatars, Live(a)', rows'[a].thumbs # {}
               PROVE  rows'[a].status = "completed"
    BY DEF ThumbsCompleted
  <2>1. rows'[a] = rows[a]
    BY ServerRows
  <2> QED BY <2>1 DEF SettledInv, ThumbsCompleted, Live, Exists
<1>2. SnapshotSettled'
  <2> SUFFICES ASSUME NEW r \in Requests, req'[r].pc = "delete", req'[r].sizes # {SizeOriginal},
                      NEW a, a = req'[r].avatar, Live(a)'
               PROVE  rows'[a].status = "completed"
    BY DEF SnapshotSettled, Live, Exists
  <2>1. CASE req'[r] = req[r]
    <3>1. a \in Avatars /\ Exists(a)
      BY <2>1 DEF SafetyInv, RequestInv
    <3>2. rows'[a] = rows[a]
      BY <3>1, ServerRows
    <3> QED BY <2>1, <3>2 DEF SettledInv, SnapshotSettled, Live, Exists
  <2>2. CASE req'[r] # req[r]
    <3>1. UNCHANGED rows /\ a \in Avatars /\ Live(a) /\ rows[a].thumbs # {}
      BY <2>2, ServerSnapshots
    <3> QED BY <3>1 DEF SettledInv, ThumbsCompleted
  <2> QED BY <2>1, <2>2
<1>3. NamedSettled'
  <2> SUFFICES ASSUME NEW a \in Avatars, ~(Named(a)' \subseteq {SizeOriginal})
               PROVE  Holders(a) = {}
    BY DEF NamedSettled, Holders, workerVars
  <2>1. CASE Events(OutboxDelete, a) # {}
    BY <2>1, ServerEvents, NamedKept DEF SettledInv, NamedSettled
  <2>2. CASE Events(OutboxDelete, a) = {}
    <3>1. PICK size \in Named(a)' : size # SizeOriginal
      OBVIOUS
    <3>2. PICK i \in Events(OutboxDelete, a)' : size \in outbox'[i].sizes
      BY <3>1 DEF Named
    <3>3. /\ i \in DOMAIN outbox' \ DOMAIN outbox
          /\ outbox'[i].kind = OutboxDelete /\ outbox'[i].avatar = a
      BY <2>2, <3>2, ServerEvents DEF Events, EventsKept
    <3>4. PICK r \in Requests : /\ req[r].pc = "delete" /\ req[r].avatar = a /\ Live(a)
                                /\ size \in req[r].sizes
      BY <3>1, <3>2, <3>3, ServerNames
    <3>5. rows[a].status = "completed"
      BY <3>1, <3>4 DEF SettledInv, SnapshotSettled
    <3> QED BY <3>4, <3>5 DEF SettledInv, ClaimInv
  <2> QED BY <2>1, <2>2
<1> QED BY <1>1, <1>2, <1>3 DEF SettledInv

-----------------------------------------------------------------------------

(* Every step keeps the deletions settled, *)
LEMMA NextSettled ==
  ASSUME "slow" \notin Faults, SafetyInv, SettledInv, [Next]_vars
  PROVE  SettledInv'
<1>1. ClaimInv' /\ KeepsCompleted
  BY NextClaims DEF SettledInv
<1>2. CASE ServerNext /\ UNCHANGED <<topic, workerVars>>
  BY <1>1, <1>2, ServerSettled
<1>3. CASE WorkerNext /\ UNCHANGED serverVars
  BY <1>1, <1>3, WorkerSettled
<1>4. CASE UNCHANGED vars
  BY <1>1, <1>4 DEF vars, serverVars, workerVars, SettledInv, ThumbsCompleted, SnapshotSettled,
     NamedSettled, Live, Exists, Named, Events, Holders
<1> QED BY <1>2, <1>3, <1>4 DEF Next

(* and what they owe on its way. *)
LEMMA NextDeletes ==
  ASSUME NothingDropped, SafetyInv, "slow" \notin Faults => SettledInv, DeleteInv, AttemptsCounted,
         [Next]_vars
  PROVE  DeleteInv'
<1>1. CASE ServerNext /\ UNCHANGED <<topic, workerVars>>
  BY <1>1, ServerDeletes
<1>2. CASE WorkerNext
  <2>1. CASE \E p \in Processors : ProcessUpload(p)
    BY <2>1, ProcessUploadDeletes DEF SettledInv
  <2>2. CASE \E a \in Avatars : DeleteFetch(a)
    BY <2>2, DeleteFetchDeletes
  <2>3. CASE \E size \in AllowedSizes : DeleteRemove(size)
    BY <2>3, DeleteRemoveDeletes
  <2>4. CASE DeleteCommit
    BY <2>4, DeleteCommitDeletes
  <2>5. CASE \E i \in maint.batch : FlushPublish(i) \/ FlushMark(i)
    BY <2>5, FlushPublishDeletes, FlushMarkDeletes
  <2> QED BY <1>2, <2>1, <2>2, <2>3, <2>4, <2>5, OtherWorkDeletes
          DEF WorkerNext, UploadConsumer, DeleteConsumer, MaintenanceLoop, Processors
<1>3. CASE UNCHANGED vars
  <2>1. UNCHANGED <<outbox, objects, topic, del, maint, stopping>>
    BY <1>3 DEF vars, workerVars
  <2> QED BY <2>1, DeleteFrame DEF DeleteInv, EventsKept, OwedKept, Stored
<1> QED BY <1>1, <1>2, <1>3 DEF Next

(* At the start nothing is deleted and nothing is on its way. *)
LEMMA InitDeletes == Init => DeleteInv /\ AttemptsCounted /\ SettledInv
<1> SUFFICES ASSUME Init PROVE DeleteInv /\ AttemptsCounted /\ SettledInv
  OBVIOUS
<1>1. ~stopping /\ del.pc = "idle" /\ maint.pc = "idle"
  BY DEF Init, WorkerInit, Quiet, IdleDeleter, IdleMaintenance
<1>2. outbox = << >> /\ \A a \in Avatars : topic[OutboxDelete][a] = << >> /\ ~Live(a)
  BY DEF Init, RepositoryInit, BrokerInit, NoRow, EventKinds, Live, Exists
<1>3. \A a : Named(a) = {}
  BY <1>2 DEF Named, Events
<1>4. \A a : ~Remains(a)
  BY <1>3 DEF Remains, Owed
<1>5. DeleteInv /\ AttemptsCounted
  <2>1. EventsNameOriginal /\ MessagesNamed
    BY <1>2 DEF EventsNameOriginal, MessagesNamed
  <2> QED BY <1>1, <1>4, <2>1
          DEF DeleteInv, RemovedBeforeCommit, PublishedBeforeMark, Carried, AttemptsCounted
<1>6. \A r \in Requests : req[r].pc # "delete"
  BY DEF Init, ServerInit, IdleRequest
<1>7. SettledInv
  BY <1>2, <1>3, <1>6, InitClaims DEF SettledInv, ThumbsCompleted, SnapshotSettled, NamedSettled
<1> QED BY <1>5, <1>7

(* The invariant of deletions, in every behaviour in which nothing is        *)
(* dropped.                                                                  *)
THEOREM Deletes ==
  ASSUME NothingDropped
  PROVE  Spec => []DeleteInv
<1> DEFINE Inv == DeleteInv /\ AttemptsCounted /\ ("slow" \notin Faults => SettledInv)
<1>1. Init => Inv
  BY InitDeletes
<1>2. SafetyInv /\ Inv /\ [Next]_vars => Inv'
  BY NextDeletes, NextAttempts, NextSettled
<1>3. Inv => DeleteInv
  OBVIOUS
<1> HIDE DEF Inv
<1> QED BY <1>1, <1>2, <1>3, Safety, PTL DEF Spec

(* While the original of a deleted avatar is in the bucket, its delete event *)
(* is in the outbox, unpublished, or in the topic, uncommitted: FlushOutbox  *)
(* marks after it has published, and the consumer commits after it has       *)
(* removed, across crashes at any point, failed statements, and as many      *)
(* failures of the object store as withRetry has attempts, less one.         *)
THEOREM DeletionKept ==
  ASSUME NothingDropped
  PROVE  Spec => []DeleteNotLost
<1>1. SafetyInv /\ DeleteInv => DeleteNotLost
  <2> SUFFICES ASSUME SafetyInv, DeleteInv, NEW a \in Avatars, rows[a].deleted,
                      Stored(OriginalObjectKey(a))
               PROVE  DeleteUnderWay(a)
    BY DEF DeleteNotLost
  <2>1. PICK i \in Events(OutboxDelete, a) : TRUE
    BY DEF SafetyInv, OutboxMatchesRows
  <2>2. SizeOriginal \in outbox[i].sizes
    BY <2>1 DEF Events, DeleteInv, EventsNameOriginal
  <2>3. SizeOriginal \in Owed(a)
    BY <2>1, <2>2 DEF Owed, Named, AllowedSizes
  <2> QED BY <2>3 DEF DeleteInv, Carried, Remains, OriginalObjectKey
<1> QED BY <1>1, Deletes, Safety, PTL

(* If, besides, nobody works on a claimed avatar for more than two minutes,  *)
(* a deletion that is neither in the outbox nor in the topic any more has    *)
(* left nothing of what its event names, thumbnails included: a deletion     *)
(* that names thumbnails has read a completed row, and since a completed row *)
(* is never claimed again, no processUpload is left to store one of them     *)
(* after its removal.                                                        *)
THEOREM DeletionCarriedOut ==
  ASSUME NothingDropped, "slow" \notin Faults
  PROVE  Spec => []DeletionComplete
<1>1. DeleteInv => DeletionComplete
  <2> SUFFICES ASSUME DeleteInv, NEW a \in Avatars, ~DeleteUnderWay(a),
                      NEW size \in Named(a), <<a, size>> \in objects
               PROVE  FALSE
    BY DEF DeletionComplete, KeysOf
  <2>1. size \in Owed(a)
    BY DEF Owed
  <2> QED BY <2>1 DEF DeleteInv, Carried, Remains, Stored
<1> QED BY <1>1, Deletes, PTL

-----------------------------------------------------------------------------
(* The deletions that DeletedObjectsGone is right about.                     *)

(* The steps of the server keep thumbnails and events whole, *)
LEMMA ServerWhole ==
  ASSUME SafetyInv, SafetyInv', WholeInv, ServerNext
  PROVE  WholeInv'
<1>a. AllowedSizes = {SizeOriginal} \cup ThumbnailSizes
  BY DEF AllowedSizes
<1>1. ThumbsWhole'
  BY ServerRows DEF WholeInv, ThumbsWhole
<1>2. SnapshotWhole'
  <2> SUFFICES ASSUME NEW r \in Requests, req'[r].pc = "delete"
               PROVE  req'[r].sizes \in {{SizeOriginal}, AllowedSizes}
    BY DEF SnapshotWhole
  <2>1. CASE req'[r] = req[r]
    BY <2>1 DEF WholeInv, SnapshotWhole
  <2>2. CASE req'[r] # req[r]
    <3>1. PICK a \in Avatars : req'[r].sizes = {SizeOriginal} \cup rows[a].thumbs
      BY <2>2, ServerSnapshots
    <3> QED BY <1>a, <3>1 DEF WholeInv, ThumbsWhole
  <2> QED BY <2>1, <2>2
<1>3. NamedWhole'
  <2> SUFFICES ASSUME NEW a \in Avatars, Named(a)' # {}
               PROVE  Named(a)' \in {{SizeOriginal}, AllowedSizes}
    BY DEF NamedWhole
  <2>1. CASE Events(OutboxDelete, a) # {}
    BY <2>1, ServerEvents, NamedKept DEF WholeInv, NamedWhole
  <2>2. CASE Events(OutboxDelete, a) = {}
    <3>1. PICK i \in Events(OutboxDelete, a)' : TRUE
      BY DEF Named
    <3>2. /\ i \in DOMAIN outbox' \ DOMAIN outbox
          /\ outbox'[i].kind = OutboxDelete /\ outbox'[i].avatar = a
      BY <2>2, <3>1, ServerEvents DEF Events, EventsKept
    <3>3. PICK r \in Requests : /\ req[r].pc = "delete"
                                /\ outbox'[i].sizes = {SizeOriginal} \cup req[r].sizes
      BY <3>2, ServerNames
    <3>4. outbox'[i].sizes \in {{SizeOriginal}, AllowedSizes}
      BY <1>a, <3>3 DEF WholeInv, SnapshotWhole
    <3>5. \A j \in Events(OutboxDelete, a)' : j = i
      BY <3>2 DEF Events, SafetyInv, OutboxMatchesRows, SameEventID
    <3>6. Named(a)' = outbox'[i].sizes
      BY <1>a, <3>1, <3>4, <3>5 DEF Named
    <3> QED BY <3>4, <3>6
  <2> QED BY <2>1, <2>2
<1> QED BY <1>1, <1>2, <1>3 DEF WholeInv

(* and so do those of the worker. *)
LEMMA NextWhole ==
  ASSUME SafetyInv, SafetyInv', WholeInv, [Next]_vars
  PROVE  WholeInv'
<1>1. CASE ServerNext
  BY <1>1, ServerWhole
<1>2. CASE WorkerNext /\ UNCHANGED serverVars
  <2>1. ThumbsWhole'
    BY <1>2, WorkerThumbs DEF WholeInv, ThumbsWhole
  <2>2. SnapshotWhole'
    BY <1>2 DEF WholeInv, SnapshotWhole, serverVars
  <2>3. NamedWhole'
    BY <1>2, WorkerEventsStand, EventsStandKeep DEF WholeInv, NamedWhole
  <2> QED BY <2>1, <2>2, <2>3 DEF WholeInv
<1>3. CASE UNCHANGED vars
  BY <1>3 DEF vars, serverVars, WholeInv, ThumbsWhole, SnapshotWhole, NamedWhole, Named, Events
<1> QED BY <1>1, <1>2, <1>3 DEF Next

(* DeletedObjectsGone, for every avatar whose deletion found thumbnails in   *)
(* the row: a deletion that did not names the original alone.                *)
GoneIfSeen ==
  \A a \in Avatars :
    rows[a].deleted /\ ~DeleteUnderWay(a) /\ Named(a) # {SizeOriginal}
      => objects \cap KeysOf(a, AllowedSizes) = {}

(* What a deletion leaves behind in a system that drops nothing and holds no *)
(* claim for more than two minutes, it leaves because delete read the row    *)
(* before the worker completed it: a deletion that saw one thumbnail saw all *)
(* of them, its event names every object of the avatar, and once it is       *)
(* carried through the bucket holds nothing of the avatar.                   *)
THEOREM OnlySnapshotsLeave ==
  ASSUME NothingDropped, "slow" \notin Faults
  PROVE  Spec => []GoneIfSeen
<1>1. Init => WholeInv
  <2> SUFFICES ASSUME Init PROVE WholeInv
    OBVIOUS
  <2>1. outbox = << >> /\ \A a \in Avatars : rows[a].thumbs = {}
    BY DEF Init, RepositoryInit, NoRow
  <2>2. \A r \in Requests : req[r].pc = "idle"
    BY DEF Init, ServerInit, IdleRequest
  <2> QED BY <2>1, <2>2 DEF WholeInv, ThumbsWhole, SnapshotWhole, NamedWhole, Named, Events
<1>2. SafetyInv /\ SafetyInv' /\ WholeInv /\ [Next]_vars => WholeInv'
  BY NextWhole
<1>3. SafetyInv /\ DeleteInv /\ WholeInv /\ DeletionComplete => GoneIfSeen
  <2> SUFFICES ASSUME SafetyInv, DeleteInv, WholeInv, DeletionComplete, NEW a \in Avatars,
                      rows[a].deleted, ~DeleteUnderWay(a), Named(a) # {SizeOriginal}
               PROVE  objects \cap KeysOf(a, AllowedSizes) = {}
    BY DEF GoneIfSeen
  <2>1. PICK i \in Events(OutboxDelete, a) : TRUE
    BY DEF SafetyInv, OutboxMatchesRows
  <2>2. SizeOriginal \in outbox[i].sizes
    BY <2>1 DEF Events, DeleteInv, EventsNameOriginal
  <2>3. SizeOriginal \in Named(a)
    BY <2>1, <2>2 DEF Named, AllowedSizes
  <2>4. Named(a) = AllowedSizes
    BY <2>3 DEF WholeInv, NamedWhole
  <2> QED BY <2>4 DEF DeletionComplete
<1> QED BY <1>1, <1>2, <1>3, Deletes, DeletionCarriedOut, Safety, PTL DEF Spec
=============================================================================
