------------------------- MODULE GophProfile_refinement -------------------------
(* Server and worker implement AvatarLifecycle: every step of GophProfile is  *)
(* a step of it, or leaves what it sees alone.                                *)
EXTENDS GophProfile_proofs, LifecycleMapping

(* Who uploads is a user. *)
UploaderInv == \A r \in Requests : req[r].pc = "create" => req[r].user \in Users

RefinementInv == SafetyInv /\ UploaderInv

LifecycleStep == [Lifecycle!Next]_(Lifecycle!lifecycleVars)

(* The abstract specification speaks of the same avatars and sizes. *)
LEMMA Vocabulary ==
  /\ Lifecycle!Avatars = Avatars
  /\ Lifecycle!SizeOriginal = SizeOriginal
  /\ Lifecycle!ThumbnailSizes = ThumbnailSizes
  /\ Lifecycle!AllowedSizes = AllowedSizes
BY DEF Lifecycle!Avatars, Avatars, Lifecycle!SizeOriginal, SizeOriginal,
       Lifecycle!ThumbnailSizes, ThumbnailSizes, Lifecycle!AllowedSizes, AllowedSizes,
       Lifecycle!Size100, Size100, Lifecycle!Size300, Size300

(* What a step that touches only the row of a does to the phases. *)
LEMMA PhasesFollow ==
  ASSUME NEW a \in Avatars, \A b \in Avatars : b # a => rows'[b] = rows[b]
  PROVE  phases' = [phases EXCEPT ![a] = phaseOf(a)']
BY DEF phases, phaseOf, Exists

(* What a step that touches only the objects of a does to what is kept. *)
LEMMA KeptFollows ==
  ASSUME NEW a \in Avatars, NEW size \in AllowedSizes
  PROVE  /\ objects' = objects \cup {<<a, size>>}
              => keptSizes' = [keptSizes EXCEPT ![a] = keptSizes[a] \cup {size}]
         /\ objects' = objects \ {<<a, size>>}
              => keptSizes' = [keptSizes EXCEPT ![a] = keptSizes[a] \ {size}]
<1> USE DEF keptSizes, keptOf
<1>1. ASSUME objects' = objects \cup {<<a, size>>}
      PROVE  keptSizes' = [keptSizes EXCEPT ![a] = keptSizes[a] \cup {size}]
  BY <1>1
<1>2. ASSUME objects' = objects \ {<<a, size>>}
      PROVE  keptSizes' = [keptSizes EXCEPT ![a] = keptSizes[a] \ {size}]
  BY <1>2
<1> QED BY <1>1, <1>2

(* A step that leaves phases, owners, acknowledgements and objects alone. *)
LEMMA Stutters ==
  ASSUME rows \in [Avatars -> Row], UNCHANGED <<acked, objects>>,
         \A a \in Avatars : phaseOf(a)' = phaseOf(a) /\ rows'[a].owner = rows[a].owner
  PROVE  UNCHANGED Lifecycle!lifecycleVars
<1>1. UNCHANGED phases
  BY DEF phases
<1>2. UNCHANGED owners
  BY DEF owners
<1>3. UNCHANGED keptSizes
  BY DEF keptSizes, keptOf
<1> QED BY <1>1, <1>2, <1>3 DEF Lifecycle!lifecycleVars

LEMMA FrameStutters ==
  ASSUME rows \in [Avatars -> Row], UNCHANGED <<rows, acked, objects>>
  PROVE  UNCHANGED Lifecycle!lifecycleVars
<1>1. \A a \in Avatars : phaseOf(a)' = phaseOf(a)
  BY DEF phaseOf, Exists
<1> QED BY <1>1, Stutters

-----------------------------------------------------------------------------
(* Steps that only touch the bucket.                                         *)

LEMMA StoreSteps ==
  ASSUME RefinementInv, UNCHANGED <<rows, acked>>,
         NEW a \in Avatars, NEW size \in AllowedSizes, objects' = objects \cup {<<a, size>>},
         \/ size = SizeOriginal /\ ~Exists(a)
         \/ size \in ThumbnailSizes /\ Exists(a)
  PROVE  LifecycleStep
<1>1. UNCHANGED <<phases, owners>>
  BY DEF phases, phaseOf, Exists, owners
<1>2. keptSizes' = [keptSizes EXCEPT ![a] = keptSizes[a] \cup {size}]
  BY KeptFollows
<1>3. /\ ~Exists(a) => phases[a] = "unknown"
      /\ Exists(a) => phases[a] # "unknown"
  BY DEF phases, phaseOf
<1>4. CASE size = SizeOriginal /\ ~Exists(a)
  <2>1. Lifecycle!Arrive(a)
    BY <1>1, <1>2, <1>3, <1>4, Vocabulary DEF Lifecycle!Arrive, Lifecycle!Keep
  <2> QED BY <2>1, Vocabulary DEF LifecycleStep, Lifecycle!Next
<1>5. CASE size \in ThumbnailSizes /\ Exists(a)
  <2>1. Lifecycle!StoreThumbnail(a, size)
    BY <1>1, <1>2, <1>3, <1>5 DEF Lifecycle!StoreThumbnail, Lifecycle!Keep
  <2> QED BY <1>5, <2>1, Vocabulary DEF LifecycleStep, Lifecycle!Next
<1> QED BY <1>4, <1>5

LEMMA RemoveSteps ==
  ASSUME RefinementInv, UNCHANGED <<rows, acked>>,
         NEW a \in Avatars, NEW size \in AllowedSizes, objects' = objects \ {<<a, size>>},
         \/ size = SizeOriginal /\ a \notin acked
         \/ Exists(a) /\ rows[a].deleted
  PROVE  LifecycleStep
<1>1. UNCHANGED <<phases, owners>>
  BY DEF phases, phaseOf, Exists, owners
<1>2. keptSizes' = [keptSizes EXCEPT ![a] = keptSizes[a] \ {size}]
  BY KeptFollows
<1>3. CASE size = SizeOriginal /\ a \notin acked
  <2>1. Lifecycle!Withdraw(a)
    BY <1>1, <1>2, <1>3, Vocabulary DEF Lifecycle!Withdraw, Lifecycle!Keep
  <2> QED BY <2>1, Vocabulary DEF LifecycleStep, Lifecycle!Next
<1>4. CASE Exists(a) /\ rows[a].deleted
  <2>1. phases[a] = "deleted"
    BY <1>4 DEF phases, phaseOf
  <2>2. Lifecycle!Clear(a, size)
    BY <1>1, <1>2, <2>1 DEF Lifecycle!Clear, Lifecycle!Keep
  <2> QED BY <2>2, Vocabulary DEF LifecycleStep, Lifecycle!Next
<1> QED BY <1>3, <1>4

-----------------------------------------------------------------------------
(* Steps that write a row.                                                   *)

(* CreateWithOutbox accepts the avatar. *)
LEMMA CreateSteps ==
  ASSUME RefinementInv, NEW a \in Avatars, NEW user \in Users,
         ~Exists(a), Stored(OriginalObjectKey(a)), CreateWithOutbox(a, user),
         acked' \in {acked, acked \cup {a}}, UNCHANGED objects
  PROVE  LifecycleStep
<1> DEFINE row == [NoRow EXCEPT !.status = "pending", !.owner = user]
<1>1. rows' = [rows EXCEPT ![a] = row] /\ rows \in [Avatars -> Row]
  BY DEF CreateWithOutbox, RefinementInv, SafetyInv, TypeOK, RepositoryTypeOK
<1>2. row.status = "pending" /\ row.owner = user /\ ~row.deleted /\ row.thumbs = {}
  BY DEF NoRow
<1> HIDE DEF row
<1>3. rows'[a] = row /\ \A b \in Avatars : b # a => rows'[b] = rows[b]
  BY <1>1
<1>4. phaseOf(a)' = "accepted" /\ phases[a] = "unknown"
  BY <1>2, <1>3 DEF phaseOf, Exists, phases
<1>5. phases' = [phases EXCEPT ![a] = "accepted"]
  BY <1>3, <1>4, PhasesFollow
<1>6. owners' = [owners EXCEPT ![a] = user]
  BY <1>2, <1>3 DEF owners
<1>7. UNCHANGED keptSizes /\ SizeOriginal \in keptSizes[a]
  BY DEF keptSizes, keptOf, Stored, OriginalObjectKey, AllowedSizes
<1>8. Lifecycle!Accept(a, user)
  BY <1>4, <1>5, <1>6, <1>7, Vocabulary DEF Lifecycle!Accept, Lifecycle!Advance
<1> QED BY <1>8, Vocabulary DEF LifecycleStep, Lifecycle!Next

(* SoftDeleteOwnedWithOutbox deletes it. *)
LEMMA SoftDeleteSteps ==
  ASSUME RefinementInv, NEW a \in Avatars, NEW thumbs, Live(a),
         SoftDeleteOwnedWithOutbox(a, thumbs), UNCHANGED <<acked, objects>>
  PROVE  LifecycleStep
<1>1. /\ rows' = [rows EXCEPT ![a].deleted = TRUE, ![a].stale = FALSE]
      /\ rows \in [Avatars -> Row]
  BY DEF SoftDeleteOwnedWithOutbox, RefinementInv, SafetyInv, TypeOK, RepositoryTypeOK
<1>2. /\ \A b \in Avatars : b # a => rows'[b] = rows[b]
      /\ rows'[a].status = rows[a].status
      /\ rows'[a].owner = rows[a].owner
      /\ rows'[a].deleted
  BY <1>1 DEF Row
<1>3. phaseOf(a)' = "deleted" /\ phases[a] \in {"accepted", "ready"}
  BY <1>2 DEF phaseOf, phases, Live, Exists
<1>4. phases' = [phases EXCEPT ![a] = "deleted"]
  BY <1>2, <1>3, PhasesFollow
<1>5. UNCHANGED <<owners, keptSizes>>
  BY <1>2 DEF owners, keptSizes, keptOf
<1>6. Lifecycle!Delete(a)
  BY <1>3, <1>4, <1>5 DEF Lifecycle!Delete, Lifecycle!Advance
<1> QED BY <1>6, Vocabulary DEF LifecycleStep, Lifecycle!Next

(* CompleteProcessing makes it ready, if it was not. *)
LEMMA CompleteSteps ==
  ASSUME RefinementInv, NEW a \in Avatars, CompleteProcessing(a, ThumbnailSizes),
         Live(a) => KeysOf(a, ThumbnailSizes) \subseteq objects,
         UNCHANGED <<acked, objects>>
  PROVE  LifecycleStep
<1>a. rows \in [Avatars -> Row]
  BY DEF RefinementInv, SafetyInv, TypeOK, RepositoryTypeOK
<1>1. CASE ~Live(a)
  <2>1. UNCHANGED rows
    BY <1>1 DEF CompleteProcessing
  <2> QED BY <1>a, <2>1, FrameStutters DEF LifecycleStep
<1>2. CASE Live(a)
  <2>1. rows' = [rows EXCEPT ![a].status = "completed", ![a].thumbs = ThumbnailSizes,
                             ![a].stale = FALSE]
    BY <1>2 DEF CompleteProcessing
  <2>2. /\ \A b \in Avatars : b # a => rows'[b] = rows[b]
        /\ rows'[a].status = "completed"
        /\ rows'[a].owner = rows[a].owner
        /\ rows'[a].deleted = rows[a].deleted
        /\ rows'[a].thumbs = ThumbnailSizes
    BY <1>a, <2>1 DEF Row
  <2>3. phaseOf(a)' = "ready" /\ phases[a] \in {"accepted", "ready"}
    BY <1>2, <2>2 DEF phaseOf, phases, Live, Exists, ThumbnailSizes
  <2>4. phases' = [phases EXCEPT ![a] = "ready"]
    BY <2>2, <2>3, PhasesFollow
  <2>5. UNCHANGED <<owners, keptSizes>>
    BY <2>2 DEF owners, keptSizes, keptOf
  <2>6. ThumbnailSizes \subseteq keptSizes[a]
    BY <1>2 DEF keptSizes, keptOf, KeysOf, AllowedSizes
  <2>7. CASE phases[a] = "accepted"
    <3>1. Lifecycle!MakeReady(a)
      BY <2>4, <2>5, <2>6, <2>7, Vocabulary DEF Lifecycle!MakeReady, Lifecycle!Advance
    <3> QED BY <3>1, Vocabulary DEF LifecycleStep, Lifecycle!Next
  <2>8. CASE phases[a] = "ready"
    <3>1. UNCHANGED phases
      BY <2>4, <2>8 DEF phases
    <3> QED BY <2>5, <3>1 DEF LifecycleStep, Lifecycle!lifecycleVars
  <2> QED BY <2>3, <2>7, <2>8
<1> QED BY <1>1, <1>2

(* The other statements change nothing that AvatarLifecycle sees. *)
LEMMA StatusSteps ==
  ASSUME RefinementInv, NEW a \in Avatars, Exists(a), UNCHANGED <<acked, objects>>,
         MarkProcessing(a) \/ FailProcessing(a) \/ BecomeStale(a)
  PROVE  LifecycleStep
<1>a. rows \in [Avatars -> Row]
  BY DEF RefinementInv, SafetyInv, TypeOK, RepositoryTypeOK
<1>1. CASE UNCHANGED rows
  BY <1>a, <1>1, FrameStutters DEF LifecycleStep
<1>2. CASE rows' # rows
  <2>1. /\ \A b \in Avatars : b # a => rows'[b] = rows[b]
        /\ rows'[a].status # "absent"
        /\ rows'[a].owner = rows[a].owner
        /\ rows'[a].deleted = rows[a].deleted
        /\ rows'[a].thumbs = rows[a].thumbs
    <3>1. CASE MarkProcessing(a)
      BY <1>a, <3>1 DEF MarkProcessing, Row
    <3>2. CASE FailProcessing(a)
      BY <1>a, <1>2, <3>2 DEF FailProcessing, Row
    <3>3. CASE BecomeStale(a)
      BY <1>a, <3>3 DEF BecomeStale, Row, Live, Exists
    <3> QED BY <3>1, <3>2, <3>3
  <2>2. \A b \in Avatars : phaseOf(b)' = phaseOf(b) /\ rows'[b].owner = rows[b].owner
    BY <2>1 DEF phaseOf, Exists
  <2> QED BY <1>a, <2>2, Stutters DEF LifecycleStep
<1> QED BY <1>1, <1>2

-----------------------------------------------------------------------------
(* The server.                                                               *)

LEMMA ServerSteps ==
  ASSUME RefinementInv, ServerNext
  PROVE  LifecycleStep
<1> USE DEF RefinementInv
<1>a. /\ rows \in [Avatars -> Row] /\ ServerTypeOK /\ RequestInv
      /\ SizeOriginal \in AllowedSizes
  BY DEF SafetyInv, TypeOK, RepositoryTypeOK, AllowedSizes
<1>b. ASSUME UNCHANGED <<rows, acked, objects>>
      PROVE  LifecycleStep
  BY <1>a, <1>b, FrameStutters DEF LifecycleStep
<1>1. ASSUME NEW r \in Requests, NEW user \in Users, UploadPut(r, user)
      PROVE  LifecycleStep
  <2>1. /\ nextID \in Avatars
        /\ ~Exists(nextID)
        /\ UNCHANGED <<rows, acked>>
        /\ objects' = objects \cup {<<nextID, SizeOriginal>>} \/ UNCHANGED objects
    BY <1>a, <1>1 DEF UploadPut, ServerTypeOK, RequestInv, Avatars, repositoryVars, Put, PutFails,
                      OriginalObjectKey
  <2> QED BY <1>a, <1>b, <2>1, StoreSteps
<1>2. ASSUME NEW r \in Requests, UploadCreate(r)
      PROVE  LifecycleStep
  <2> DEFINE a == req[r].avatar
  <2>1. /\ a \in Avatars /\ ~Exists(a) /\ Stored(OriginalObjectKey(a)) /\ req[r].user \in Users
        /\ UNCHANGED objects
    BY <1>a, <1>2 DEF UploadCreate, RequestInv, UploaderInv
  <2>2. CASE CreateWithOutbox(a, req[r].user) /\ acked' \in {acked, acked \cup {a}}
    BY <2>1, <2>2, CreateSteps
  <2>3. CASE UNCHANGED <<repositoryVars, acked>>
    BY <1>b, <2>1, <2>3 DEF repositoryVars
  <2> QED BY <1>2, <2>2, <2>3 DEF UploadCreate
<1>3. ASSUME NEW r \in Requests, UploadCompensate(r)
      PROVE  LifecycleStep
  <2> DEFINE a == req[r].avatar
  <2>1. /\ a \in Avatars /\ a \notin acked
        /\ UNCHANGED <<rows, acked>>
        /\ objects' = objects \ {<<a, SizeOriginal>>} \/ UNCHANGED objects
    BY <1>a, <1>3 DEF UploadCompensate, RequestInv, Uploading, repositoryVars, Remove, RemoveFails,
                      OriginalObjectKey
  <2> QED BY <1>a, <1>b, <2>1, RemoveSteps
<1>4. ASSUME NEW r \in Requests, DeleteSoft(r)
      PROVE  LifecycleStep
  <2> DEFINE a == req[r].avatar
             thumbs == req[r].sizes \ {SizeOriginal}
  <2>1. a \in Avatars /\ UNCHANGED <<acked, objects>>
    BY <1>a, <1>4 DEF DeleteSoft, RequestInv
  <2>2. CASE Deletable(a, req[r].user) /\ SoftDeleteOwnedWithOutbox(a, thumbs)
    BY <2>1, <2>2, SoftDeleteSteps DEF Deletable
  <2>3. CASE UNCHANGED repositoryVars
    BY <1>b, <2>1, <2>3 DEF repositoryVars
  <2> QED BY <1>4, <2>2, <2>3 DEF DeleteSoft
<1>5. ASSUME NEW r \in Requests, NEW user \in Users, DeleteByID(r, user) \/ DeleteLatest(r, user)
      PROVE  LifecycleStep
  BY <1>5, <1>b DEF DeleteByID, DeleteLatest, repositoryVars
<1>6. ASSUME NEW r \in Requests, DeleteGet(r) \/ GetImage(r) \/ DownloadImage(r) \/ RequestCancelled(r)
      PROVE  LifecycleStep
  BY <1>6, <1>b DEF DeleteGet, GetImage, DownloadImage, RequestCancelled, repositoryVars
<1>7. CASE ServerCrash
  BY <1>7, <1>b DEF ServerCrash, repositoryVars
<1> QED BY <1>1, <1>2, <1>3, <1>4, <1>5, <1>6, <1>7 DEF ServerNext, RequestStep

-----------------------------------------------------------------------------
(* The worker.                                                               *)

LEMMA ProcessUploadSteps ==
  ASSUME RefinementInv, NEW p \in Processors, ProcessUpload(p), UNCHANGED acked
  PROVE  LifecycleStep
<1> USE DEF RefinementInv
<1> DEFINE a == proc[p].avatar
<1>a. rows \in [Avatars -> Row] /\ proc[p] \in Processor
  BY DEF SafetyInv, TypeOK, RepositoryTypeOK, WorkerTypeOK
<1>b. a \in Avatars /\ Exists(a)
  BY DEF SafetyInv, WorkInv, Busy, ProcessUpload, ProcessGet, ProcessMark, ProcessDownload,
         ProcessThumb, ProcessComplete, ProcessFail, At
<1>c. ASSUME UNCHANGED <<rows, objects>>
      PROVE  LifecycleStep
  BY <1>a, <1>c, FrameStutters DEF LifecycleStep
<1>1. CASE ProcessGet(p) \/ ProcessDownload(p)
  BY <1>1, <1>c DEF ProcessGet, ProcessDownload, repositoryVars
<1>2. CASE ProcessMark(p)
  BY <1>2, <1>b, <1>c, StatusSteps DEF ProcessMark, repositoryVars
<1>3. CASE ProcessThumb(p)
  <2> DEFINE size == NextSize(proc[p].done)
  <2>1. size \in ThumbnailSizes /\ size \in AllowedSizes
    BY DEF NextSize, ThumbnailSizes, AllowedSizes
  <2>2. UNCHANGED rows /\ (objects' = objects \cup {<<a, size>>} \/ UNCHANGED objects)
    BY <1>3 DEF ProcessThumb, Put, PutFails, ThumbnailObjectKey, repositoryVars
  <2> HIDE DEF size
  <2> QED BY <1>b, <1>c, <2>1, <2>2, StoreSteps
<1>4. CASE ProcessComplete(p)
  <2>1. proc[p].pc = "complete" /\ proc[p].done = ThumbnailSizes
    BY <1>4 DEF ProcessComplete, At, SafetyInv, ProcessorInv
  <2>2. Live(a) => KeysOf(a, ThumbnailSizes) \subseteq objects
    BY <2>1 DEF SafetyInv, ProcessorInv, Busy
  <2>3. CASE CompleteProcessing(a, ThumbnailSizes)
    BY <1>4, <1>b, <2>2, <2>3, CompleteSteps DEF ProcessComplete
  <2>4. CASE UNCHANGED repositoryVars
    BY <1>4, <1>c, <2>4 DEF ProcessComplete, repositoryVars
  <2> QED BY <1>4, <2>1, <2>3, <2>4 DEF ProcessComplete
<1>5. CASE ProcessFail(p)
  BY <1>5, <1>b, <1>c, StatusSteps DEF ProcessFail, repositoryVars
<1> QED BY <1>1, <1>2, <1>3, <1>4, <1>5 DEF ProcessUpload

LEMMA WorkerSteps ==
  ASSUME RefinementInv, WorkerNext, UNCHANGED serverVars
  PROVE  LifecycleStep
<1> USE DEF RefinementInv
<1>a. rows \in [Avatars -> Row] /\ UNCHANGED acked
  BY DEF SafetyInv, TypeOK, RepositoryTypeOK, serverVars
<1>b. ASSUME UNCHANGED <<rows, objects>>
      PROVE  LifecycleStep
  BY <1>a, <1>b, FrameStutters DEF LifecycleStep
<1>1. CASE UploadConsumer
  BY <1>1, <1>a, <1>b, ProcessUploadSteps
     DEF UploadConsumer, UploadFetch, UploadCommit, UploadExit, Processors, repositoryVars
<1>2. CASE DeleteConsumer
  <2>1. ASSUME NEW size \in AllowedSizes, DeleteRemove(size)
        PROVE  LifecycleStep
    <3> DEFINE a == del.avatar
    <3>1. /\ a \in Avatars /\ Exists(a) /\ rows[a].deleted
          /\ UNCHANGED rows
          /\ objects' = objects \ {<<a, size>>} \/ UNCHANGED objects
      BY <2>1 DEF DeleteRemove, SafetyInv, WorkInv, EventKinds, Remove, RemoveFails, repositoryVars
    <3> QED BY <1>a, <1>b, <3>1, RemoveSteps
  <2>2. CASE (\E a \in Avatars : DeleteFetch(a)) \/ DeleteCommit \/ DeleteExit
    BY <2>2, <1>b DEF DeleteFetch, DeleteCommit, DeleteExit, repositoryVars
  <2> QED BY <1>2, <2>1, <2>2 DEF DeleteConsumer
<1>3. CASE MaintenanceLoop
  <2>1. CASE ProcessUpload("recovery")
    BY <2>1, <1>a, ProcessUploadSteps DEF Processors
  <2>2. CASE FlushList \/ RecoverList \/ RecoverEnd \/ MaintenanceExit
    BY <2>2, <1>b DEF FlushList, RecoverList, RecoverEnd, MaintenanceExit, repositoryVars
  <2>3. ASSUME NEW i \in maint.batch, FlushPublish(i) \/ FlushMark(i)
        PROVE  LifecycleStep
    BY <2>3, <1>b DEF FlushPublish, FlushMark, MarkOutboxPublished, repositoryVars
  <2>4. ASSUME NEW a \in maint.stuck, RecoverNext(a)
        PROVE  LifecycleStep
    BY <2>4, <1>b DEF RecoverNext, repositoryVars
  <2> QED BY <1>3, <2>1, <2>2, <2>3, <2>4 DEF MaintenanceLoop
<1>4. CASE WorkerStop \/ WorkerRestart \/ WorkerCrash
  BY <1>4, <1>b DEF WorkerStop, WorkerRestart, WorkerCrash, repositoryVars
<1>5. ASSUME NEW a \in Avatars, ClaimExpires(a)
      PROVE  LifecycleStep
  <2>1. BecomeStale(a) /\ Exists(a) /\ UNCHANGED objects
    BY <1>5 DEF ClaimExpires, BecomeStale, Live
  <2> QED BY <1>a, <2>1, StatusSteps
<1> QED BY <1>1, <1>2, <1>3, <1>4, <1>5 DEF WorkerNext

-----------------------------------------------------------------------------

(* Only UploadPut leads to "create", with the user of the request. *)
LEMMA UploaderStep == RefinementInv /\ [Next]_vars => UploaderInv'
<1> SUFFICES ASSUME RefinementInv, [Next]_vars PROVE UploaderInv'
  OBVIOUS
<1> USE DEF RefinementInv
<1>a. req \in [Requests -> Request]
  BY DEF SafetyInv, TypeOK, ServerTypeOK
<1>1. CASE UNCHANGED req
  BY <1>1 DEF UploaderInv
<1>2. ASSUME NEW r \in Requests, NEW x, req' = [req EXCEPT ![r] = x],
             x.pc = "create" => x.user \in Users
      PROVE  UploaderInv'
  BY <1>a, <1>2 DEF UploaderInv
<1>3. ASSUME NEW r \in Requests, Answer(r)
      PROVE  UploaderInv'
  <2>1. IdleRequest.pc # "create"
    BY DEF IdleRequest
  <2> QED BY <1>2, <1>3, <2>1 DEF Answer
<1>4. ASSUME NEW r \in Requests, NEW pc, NEW user, NEW a, NEW sizes,
             Continue(r, pc, user, a, sizes), pc = "create" => user \in Users
      PROVE  UploaderInv'
  <2> DEFINE x == [pc |-> pc, user |-> user, avatar |-> a, sizes |-> sizes]
  <2>1. req' = [req EXCEPT ![r] = x] /\ (x.pc = "create" => x.user \in Users)
    BY <1>4 DEF Continue
  <2> HIDE DEF x
  <2> QED BY <1>2, <2>1
<1>5. CASE ServerNext
  <2>1. ASSUME NEW r \in Requests, NEW user \in Users, UploadPut(r, user)
        PROVE  UploaderInv'
    BY <1>1, <1>4, <2>1 DEF UploadPut
  <2>2. ASSUME NEW r \in Requests, UploadCreate(r)
        PROVE  UploaderInv'
    <3>1. Continue(r, "compensate", req[r].user, req[r].avatar, req[r].sizes) => UploaderInv'
      BY <1>4
    <3> QED BY <1>3, <2>2, <3>1 DEF UploadCreate
  <2>3. ASSUME NEW r \in Requests,
               UploadCompensate(r) \/ DeleteSoft(r) \/ DownloadImage(r) \/ RequestCancelled(r)
        PROVE  UploaderInv'
    BY <1>3, <2>3 DEF UploadCompensate, DeleteSoft, DownloadImage, RequestCancelled
  <2>4. ASSUME NEW r \in Requests, NEW user, NEW a, Snapshot(r, user, a)
        PROVE  UploaderInv'
    BY <1>4, <2>4 DEF Snapshot
  <2>5. ASSUME NEW r \in Requests, NEW user \in Users, DeleteByID(r, user) \/ DeleteLatest(r, user)
        PROVE  UploaderInv'
    BY <1>4, <2>4, <2>5 DEF DeleteByID, DeleteLatest
  <2>6. ASSUME NEW r \in Requests, DeleteGet(r) \/ GetImage(r)
        PROVE  UploaderInv'
    <3>1. CASE DeleteGet(r)
      BY <1>3, <2>4, <3>1 DEF DeleteGet
    <3>2. CASE GetImage(r)
      <4>1. PICK a \in Avatars, size \in AllowedSizes :
              Continue(r, "download", NoUser, a, {ImageSize(a, size)})
        BY <3>2 DEF GetImage
      <4> QED BY <1>4, <4>1
    <3> QED BY <2>6, <3>1, <3>2
  <2>7. CASE ServerCrash
    BY <2>7 DEF ServerCrash, UploaderInv, IdleRequest
  <2> QED BY <1>5, <2>1, <2>2, <2>3, <2>5, <2>6, <2>7 DEF ServerNext, RequestStep
<1> QED BY <1>1, <1>5 DEF Next, vars, serverVars

(* The initial state maps to the initial state. *)
LEMMA InitMaps == Init => RefinementInv /\ Lifecycle!Init
<1> SUFFICES ASSUME Init PROVE RefinementInv /\ Lifecycle!Init
  OBVIOUS
<1>1. RefinementInv
  BY InitSafe DEF RefinementInv, UploaderInv, Init, ServerInit, IdleRequest
<1>2. \A a \in Avatars : rows[a] = NoRow
  BY DEF Init, RepositoryInit
<1>3. phases = [a \in Avatars |-> "unknown"]
  BY <1>2 DEF phases, phaseOf, Exists, NoRow
<1>4. owners = [a \in Avatars |-> NoUser]
  BY <1>2 DEF owners, NoRow
<1>5. keptSizes = [a \in Avatars |-> {}] /\ acked = {}
  BY DEF keptSizes, keptOf, Init, ObjectStoreInit, ServerInit
<1> QED BY <1>1, <1>3, <1>4, <1>5, Vocabulary DEF Lifecycle!Init

(* Every step maps to a step of AvatarLifecycle or to none. *)
LEMMA StepMaps ==
  RefinementInv /\ [Next]_vars => RefinementInv' /\ [Lifecycle!Next]_(Lifecycle!lifecycleVars)
<1> SUFFICES ASSUME RefinementInv, [Next]_vars PROVE RefinementInv' /\ LifecycleStep
  BY DEF LifecycleStep
<1>1. RefinementInv'
  BY NextSafe, UploaderStep DEF RefinementInv
<1>2. CASE Next
  BY <1>1, <1>2, ServerSteps, WorkerSteps DEF Next
<1>3. CASE UNCHANGED vars
  <2>1. rows \in [Avatars -> Row] /\ UNCHANGED <<rows, acked, objects>>
    BY <1>3 DEF RefinementInv, SafetyInv, TypeOK, RepositoryTypeOK, vars, serverVars
  <2> QED BY <1>1, <2>1, FrameStutters DEF LifecycleStep
<1> QED BY <1>2, <1>3

(* Server and worker implement AvatarLifecycle: for any users, requests and  *)
(* avatars and under all failures, the row and the objects of an avatar only *)
(* move forward along its life, an acknowledged original is never withdrawn, *)
(* and nothing of an avatar that is not deleted is cleared away.             *)
THEOREM Refinement == Spec => ImplementsLifecycle
  BY InitMaps, StepMaps, PTL DEF Spec, ImplementsLifecycle, Lifecycle!Spec

-----------------------------------------------------------------------------
(* What AvatarLifecycle promises of every step of an avatar.                 *)

(* Its phase goes forward, *)
Forward(a) ==
  \/ phaseOf(a)' = phaseOf(a)
  \/ phaseOf(a) = "unknown" /\ phaseOf(a)' = "accepted"
  \/ phaseOf(a) = "accepted" /\ phaseOf(a)' \in {"ready", "deleted"}
  \/ phaseOf(a) = "ready" /\ phaseOf(a)' = "deleted"

(* its owner stays, *)
OwnerStays(a) == phaseOf(a) # "unknown" => owners'[a] = owners[a]

(* what leaves the bucket is of a deleted avatar, or is the original of an   *)
(* upload that was not acknowledged; and an upload is acknowledged for good, *)
(* as its avatar becomes known, with the original there.                     *)
LeavesWithReason(a) ==
  /\ \A size \in keptOf(a) \ keptOf(a)' :
       phaseOf(a) = "deleted" \/ (size = SizeOriginal /\ a \notin acked)
  /\ a \in acked => a \in acked'
  /\ a \in acked' \ acked => phaseOf(a) = "unknown" /\ SizeOriginal \in keptOf(a)

Promise == \A a \in Avatars : Forward(a) /\ OwnerStays(a) /\ LeavesWithReason(a)

(* Every step of AvatarLifecycle keeps the promise. *)
LEMMA LifecycleKeepsPromise ==
  ASSUME [Lifecycle!Next]_(Lifecycle!lifecycleVars)
  PROVE  Promise
<1> SUFFICES ASSUME NEW a \in Avatars PROVE Forward(a) /\ OwnerStays(a) /\ LeavesWithReason(a)
  BY DEF Promise
<1>a. /\ phases[a] = phaseOf(a) /\ phases'[a] = phaseOf(a)'
      /\ keptSizes[a] = keptOf(a) /\ keptSizes'[a] = keptOf(a)'
  BY DEF phases, keptSizes
<1>b. DOMAIN phases = Avatars /\ DOMAIN owners = Avatars /\ DOMAIN keptSizes = Avatars
  BY DEF phases, owners, keptSizes
<1>c. phases = [b \in Avatars |-> phases[b]] /\ owners = [b \in Avatars |-> owners[b]]
      /\ keptSizes = [b \in Avatars |-> keptSizes[b]]
  BY DEF phases, owners, keptSizes
<1>1. CASE UNCHANGED Lifecycle!lifecycleVars
  BY <1>a, <1>1 DEF Lifecycle!lifecycleVars, Forward, OwnerStays, LeavesWithReason
<1>2. ASSUME NEW b \in Avatars, NEW size \in AllowedSizes, NEW user,
             \/ Lifecycle!Arrive(b) \/ Lifecycle!Accept(b, user) \/ Lifecycle!Withdraw(b)
             \/ Lifecycle!StoreThumbnail(b, size) \/ Lifecycle!MakeReady(b) \/ Lifecycle!Delete(b)
             \/ Lifecycle!Clear(b, size)
      PROVE  Forward(a) /\ OwnerStays(a) /\ LeavesWithReason(a)
  <2>1. Forward(a)
    BY <1>a, <1>b, <1>c, <1>2 DEF Forward, Lifecycle!Arrive, Lifecycle!Accept, Lifecycle!Withdraw,
       Lifecycle!StoreThumbnail, Lifecycle!MakeReady, Lifecycle!Delete, Lifecycle!Clear,
       Lifecycle!Advance
  <2>2. OwnerStays(a)
    BY <1>a, <1>b, <1>c, <1>2 DEF OwnerStays, Lifecycle!Arrive, Lifecycle!Accept, Lifecycle!Withdraw,
       Lifecycle!StoreThumbnail, Lifecycle!MakeReady, Lifecycle!Delete, Lifecycle!Clear
  <2>3. LeavesWithReason(a)
    BY <1>a, <1>b, <1>c, <1>2, Vocabulary DEF LeavesWithReason, Lifecycle!Arrive, Lifecycle!Accept,
       Lifecycle!Withdraw, Lifecycle!StoreThumbnail, Lifecycle!MakeReady, Lifecycle!Delete,
       Lifecycle!Clear, Lifecycle!Keep
  <2> QED BY <2>1, <2>2, <2>3
<1>3. CASE Lifecycle!Next
  <2>1. SizeOriginal \in AllowedSizes /\ ThumbnailSizes \subseteq AllowedSizes
    BY DEF AllowedSizes
  <2> QED BY <1>2, <1>3, <2>1, Vocabulary DEF Lifecycle!Next
<1> QED BY <1>1, <1>3

(* So does every step of the server and of the worker, under every failure:  *)
(* an avatar never changes hands and never goes back, and what leaves the    *)
(* bucket is of a deleted avatar or an original nobody was promised.         *)
THEOREM LifeOfAnAvatar == Spec => [][Promise]_vars
<1>1. RefinementInv /\ [Next]_vars => RefinementInv' /\ [Promise]_vars
  BY StepMaps, LifecycleKeepsPromise
<1> QED BY <1>1, InitMaps, PTL DEF Spec
=============================================================================
