-------------------------- MODULE GophProfile_claims --------------------------
(* Proofs about the claim of MarkProcessing, in a system in which nobody     *)
(* works on a claimed avatar for more than two minutes: at most one caller   *)
(* of processUpload works on a live avatar, and a completed avatar stays     *)
(* completed.  Everything else may fail.                                     *)
EXTENDS GophProfile_proofs

(* A live avatar that somebody works on is claimed in the table, and the     *)
(* claim has not expired; this is what keeps the second caller out.          *)
ClaimInv ==
  \A a \in Avatars :
    Live(a) => /\ \A p, q \in Holders(a) : p = q
               /\ Holders(a) # {} => rows[a].status = "processing" /\ ~rows[a].stale

(* A row that is completed stays so; CompletedStable says it of every step. *)
KeepsCompleted ==
  \A a \in Avatars :
    rows[a].status = "completed"
      => rows'[a].status = "completed" /\ rows[a].thumbs \subseteq rows'[a].thumbs

-----------------------------------------------------------------------------

(* A step keeps the invariant if each avatar is gone, or abandoned, or loses *)
(* at most holders, or has just been claimed by one.                         *)
LEMMA ClaimStep ==
  ASSUME ClaimInv,
         \A a \in Avatars :
           \/ ~Live(a)'
           \/ Holders(a)' = {}
           \/ /\ Live(a) /\ Holders(a)' \subseteq Holders(a)
              /\ rows'[a].status = rows[a].status /\ rows'[a].stale = rows[a].stale
           \/ /\ \E p : Holders(a)' \subseteq {p}
              /\ rows'[a].status = "processing" /\ ~rows'[a].stale
  PROVE  ClaimInv'
BY DEF ClaimInv

(* The transactions of the server: an upload creates a row that did not      *)
(* exist, a deletion keeps what processing recorded.                         *)
LEMMA ServerClaims ==
  ASSUME SafetyInv, ClaimInv, ServerNext, UNCHANGED <<topic, workerVars>>
  PROVE  ClaimInv' /\ KeepsCompleted
<1>a. UNCHANGED proc
  BY DEF workerVars
<1>b. \A a : Holders(a)' = Holders(a)
  BY <1>a DEF Holders
<1>c. \A a \in Avatars : ~Exists(a) => Holders(a) = {}
  BY DEF SafetyInv, WorkInv, Holders, Busy
<1>d. rows \in [Avatars -> Row]
  BY DEF SafetyInv, TypeOK, RepositoryTypeOK
<1> DEFINE Kept(a) ==
      \/ rows'[a] = rows[a]
      \/ ~Exists(a)
      \/ rows'[a].deleted /\ rows'[a].status = rows[a].status /\ rows'[a].thumbs = rows[a].thumbs
<1>1. \A a \in Avatars : Kept(a)
  <2>1. CASE UNCHANGED rows
    BY <2>1
  <2>2. ASSUME NEW r \in Requests, UploadCreate(r) PROVE \A a \in Avatars : Kept(a)
    <3>1. ~Exists(req[r].avatar)
      BY <2>2 DEF UploadCreate, SafetyInv, RequestInv
    <3>2. \A a \in Avatars : a # req[r].avatar => rows'[a] = rows[a]
      BY <1>d, <2>2 DEF UploadCreate, CreateWithOutbox, repositoryVars
    <3> QED BY <3>1, <3>2
  <2>3. ASSUME NEW r \in Requests, DeleteSoft(r) PROVE \A a \in Avatars : Kept(a)
    BY <1>d, <2>3 DEF DeleteSoft, SoftDeleteOwnedWithOutbox, repositoryVars, Row
  <2>4. UNCHANGED rows \/ \E r \in Requests : UploadCreate(r) \/ DeleteSoft(r)
    BY DEF ServerNext, RequestStep, UploadPut, DeleteByID, DeleteLatest, GetImage, UploadCompensate,
           DeleteGet, DownloadImage, RequestCancelled, ServerCrash, repositoryVars
  <2> QED BY <2>1, <2>2, <2>3, <2>4
<1>2. KeepsCompleted
  BY <1>1 DEF KeepsCompleted, Exists
<1>3. ClaimInv'
  <2>1. \A a \in Avatars : \/ ~Live(a)'
                           \/ Holders(a)' = {}
                           \/ Live(a) /\ rows'[a] = rows[a]
    BY <1>1, <1>b, <1>c DEF Live, Exists
  <2> QED BY <1>b, <2>1, ClaimStep
<1> QED BY <1>2, <1>3

(* The steps of the worker outside processUpload, but for the time that      *)
(* passes on a claim.                                                        *)
OtherWork ==
  \/ \E a \in Avatars : UploadFetch(a) \/ DeleteFetch(a)
  \/ UploadCommit \/ UploadExit
  \/ \E size \in AllowedSizes : DeleteRemove(size)
  \/ DeleteCommit \/ DeleteExit
  \/ FlushList
  \/ \E i \in maint.batch : FlushPublish(i) \/ FlushMark(i)
  \/ RecoverList
  \/ \E a \in maint.stuck : RecoverNext(a)
  \/ RecoverEnd \/ MaintenanceExit
  \/ WorkerStop \/ WorkerRestart \/ WorkerCrash

(* They give nobody a claim, *)
LEMMA OtherWorkHolders ==
  ASSUME SafetyInv, OtherWork, NEW a
  PROVE  Holders(a)' \subseteq Holders(a)
<1>a. proc \in [Processors -> Processor]
  BY DEF SafetyInv, TypeOK, WorkerTypeOK
<1>b. \A p \in Processors : proc'[p] = proc[p] \/ proc'[p].pc \in {"idle", "exited", "get"}
  <2>1. CASE UNCHANGED proc
    BY <2>1
  <2>2. CASE \/ \E b \in Avatars : UploadFetch(b)
             \/ \E b \in maint.stuck : RecoverNext(b)
    BY <1>a, <2>2 DEF UploadFetch, RecoverNext, Begin
  <2>3. CASE UploadCommit
    BY <1>a, <2>3 DEF UploadCommit, IdleProcessor
  <2>4. CASE UploadExit
    BY <1>a, <2>4 DEF UploadExit, Processor
  <2>5. CASE WorkerRestart \/ WorkerCrash
    BY <2>5 DEF WorkerRestart, WorkerCrash, IdleProcessor
  <2> QED BY <2>1, <2>2, <2>3, <2>4, <2>5
          DEF OtherWork, DeleteFetch, DeleteRemove, DeleteCommit, DeleteExit, FlushList, FlushPublish,
              FlushMark, RecoverList, RecoverEnd, MaintenanceExit, WorkerStop
<1> QED BY <1>b DEF Holders

(* and write no row. *)
LEMMA OtherWorkClaims ==
  ASSUME SafetyInv, ClaimInv, OtherWork
  PROVE  ClaimInv' /\ KeepsCompleted
<1>a. UNCHANGED rows
  BY DEF OtherWork, UploadFetch, DeleteFetch, UploadCommit, UploadExit, DeleteRemove, DeleteCommit,
         DeleteExit, FlushList, FlushPublish, FlushMark, RecoverList, RecoverNext, RecoverEnd,
         MaintenanceExit, WorkerStop, WorkerRestart, WorkerCrash, repositoryVars, MarkOutboxPublished
<1>1. \A a \in Avatars : Holders(a)' \subseteq Holders(a)
  BY OtherWorkHolders
<1>2. \A a \in Avatars : Live(a)' => Live(a)
  BY <1>a DEF Live, Exists
<1>3. ClaimInv'
  BY <1>a, <1>1, <1>2, ClaimStep
<1>4. KeepsCompleted
  BY <1>a DEF KeepsCompleted
<1> QED BY <1>3, <1>4

(* Time passes on claims that nobody works on. *)
LEMMA ExpiryClaims ==
  ASSUME SafetyInv, ClaimInv, "slow" \notin Faults, NEW a \in Avatars, ClaimExpires(a)
  PROVE  ClaimInv' /\ KeepsCompleted
<1>a. rows \in [Avatars -> Row]
  BY DEF SafetyInv, TypeOK, RepositoryTypeOK
<1>b. Holders(a) = {} /\ UNCHANGED proc
  BY DEF ClaimExpires, Fault, workerVars
<1>c. \A b : Holders(b)' = Holders(b)
  BY <1>b DEF Holders
<1>d. /\ \A b \in Avatars : b # a => rows'[b] = rows[b]
      /\ rows[a].status = "processing"
  BY <1>a DEF ClaimExpires, BecomeStale
<1>1. \A b \in Avatars : \/ Holders(b)' = {}
                         \/ rows'[b] = rows[b]
  BY <1>b, <1>c, <1>d
<1>2. ClaimInv'
  BY <1>c, <1>1, ClaimStep DEF Live, Exists
<1>3. KeepsCompleted
  BY <1>d DEF KeepsCompleted
<1> QED BY <1>2, <1>3

(* processUpload has no claim once it has returned. *)
LEMMA ReturnReleases ==
  ASSUME SafetyInv, NEW p \in Processors, NEW err, Return(p, err)
  PROVE  proc'[p].pc \in {"idle", "get", "commit"}
<1>1. proc \in [Processors -> Processor]
  BY DEF SafetyInv, TypeOK, WorkerTypeOK
<1> QED BY <1>1 DEF Return, Begin, IdleProcessor

(* Nobody starts to work on an avatar that is deleted. *)
LEMMA NoClaimOnDeleted ==
  ASSUME SafetyInv, WorkerNext, NEW a, ~Live(a)
  PROVE  Holders(a)' \subseteq Holders(a)
<1>a. WorkerTypeOK
  BY DEF SafetyInv, TypeOK
<1>1. ASSUME NEW p \in Processors, ProcessUpload(p) PROVE Holders(a)' \subseteq Holders(a)
  <2>1. \A q \in Processors : q # p => proc'[q] = proc[q]
    BY <1>a, <1>1 DEF WorkerTypeOK, ProcessUpload, ProcessGet, ProcessMark, ProcessDownload, ProcessThumb,
       ProcessComplete, ProcessFail, Return, Goto, Abort
  <2>2. ASSUME p \in Holders(a)' PROVE p \in Holders(a)
    <3>1. ASSUME NEW err, Return(p, err) PROVE FALSE
      BY <2>2, <3>1, ReturnReleases DEF Holders
    <3>2. CASE ProcessGet(p)
      <4>1. Goto(p, "mark")
        BY <3>1, <3>2 DEF ProcessGet
      <4>2. proc'[p].pc = "mark"
        BY <1>a, <4>1, GotoMoves
      <4> QED BY <2>2, <4>2 DEF Holders
    <3>3. CASE ProcessMark(p)
      <4>1. Claimable(proc[p].avatar) /\ Goto(p, "download")
        BY <3>1, <3>3 DEF ProcessMark
      <4>2. proc'[p].avatar = proc[p].avatar
        BY <1>a, <4>1, GotoMoves
      <4> QED BY <2>2, <4>1, <4>2 DEF Holders, Claimable
    <3>4. CASE ProcessDownload(p) \/ ProcessThumb(p)
      <4>1. proc'[p].avatar = proc[p].avatar
        BY <1>a, <3>4 DEF WorkerTypeOK, ProcessDownload, ProcessThumb, Goto, Abort, Processor
      <4>2. proc[p].pc \in {"download", "thumb"}
        BY <3>4 DEF ProcessDownload, ProcessThumb, At
      <4> QED BY <2>2, <4>1, <4>2 DEF Holders
    <3>5. CASE ProcessComplete(p) \/ ProcessFail(p)
      BY <3>1, <3>5 DEF ProcessComplete, ProcessFail
    <3> QED BY <1>1, <3>2, <3>3, <3>4, <3>5 DEF ProcessUpload
  <2> QED BY <2>1, <2>2 DEF Holders
<1>2. CASE \E b \in Avatars : ClaimExpires(b)
  BY <1>2 DEF ClaimExpires, workerVars, Holders
<1> QED BY <1>1, <1>2, OtherWorkHolders
        DEF WorkerNext, UploadConsumer, DeleteConsumer, MaintenanceLoop, Processors, OtherWork

(* The steps of processUpload: MarkProcessing claims only what nobody works  *)
(* on, and CompleteProcessing and FailProcessing, which do not look at the   *)
(* status, are called by the one who has the claim.                          *)
LEMMA ProcessUploadClaims ==
  ASSUME SafetyInv, ClaimInv, NEW p \in Processors, ProcessUpload(p), NEW a, a = proc[p].avatar
  PROVE  ClaimInv' /\ KeepsCompleted
<1>a. Busy(p)
  BY DEF ProcessUpload, ProcessGet, ProcessMark, ProcessDownload, ProcessThumb, ProcessComplete,
         ProcessFail, At, Busy
<1>b. /\ a \in Avatars /\ WorkerTypeOK
      /\ rows \in [Avatars -> Row] /\ proc \in [Processors -> Processor] /\ proc[p] \in Processor
  BY <1>a DEF SafetyInv, WorkInv, TypeOK, WorkerTypeOK, RepositoryTypeOK
(* What a step with these effects on the rows and on p does. *)
<1>c. ASSUME \A q \in Processors : q # p => proc'[q] = proc[q],
             proc'[p].pc \in {"idle", "get", "mark", "commit"} \/ proc'[p].avatar = a,
             \A b \in Avatars : b # a => rows'[b] = rows[b],
             \/ ~Live(a)'
             \/ Holders(a)' = {}
             \/ rows'[a] = rows[a] /\ Holders(a)' \subseteq Holders(a)
             \/ /\ Holders(a)' \subseteq {p}
                /\ rows'[a].status = "processing" /\ ~rows'[a].stale
      PROVE  ClaimInv'
  <2>1. ASSUME NEW b \in Avatars, b # a PROVE Holders(b)' \subseteq Holders(b)
    BY <1>c, <2>1 DEF Holders
  <2>2. \A b \in Avatars : rows'[b] = rows[b] => (Live(b)' => Live(b))
    BY DEF Live, Exists
  <2> QED BY <1>c, <2>1, <2>2, ClaimStep
<1>d. p \notin Holders(a)' /\ (\A q \in Processors : q # p => proc'[q] = proc[q])
        => Holders(a)' \subseteq Holders(a) \ {p}
  BY DEF Holders
<1>e. ASSUME NEW err, Return(p, err)
      PROVE  /\ \A q \in Processors : q # p => proc'[q] = proc[q]
             /\ proc'[p].pc \in {"idle", "get", "commit"}
             /\ p \notin Holders(a)'
  <2>1. \A q \in Processors : q # p => proc'[q] = proc[q]
    BY <1>b, <1>e, ReturnMoves DEF ProcessorMoves
  <2>2. proc'[p].pc \in {"idle", "get", "commit"}
    BY <1>e, ReturnReleases
  <2> QED BY <2>1, <2>2 DEF Holders
<1>1. CASE ProcessGet(p) \/ (ProcessMark(p) /\ UNCHANGED rows)
  <2>1. UNCHANGED rows
    BY <1>1 DEF ProcessGet, repositoryVars
  <2>2. CASE \E err : Return(p, err)
    <3>1. PICK err : Return(p, err)
      BY <2>2
    <3> QED BY <1>c, <1>d, <1>e, <2>1, <3>1 DEF KeepsCompleted
  <2>3. CASE Goto(p, "mark")
    <3>1. ProcessorMoves(p) /\ proc'[p].pc = "mark"
      BY <1>b, <2>3, GotoMoves
    <3>2. p \notin Holders(a)'
      BY <3>1 DEF Holders
    <3> QED BY <1>c, <1>d, <2>1, <3>1, <3>2 DEF KeepsCompleted, ProcessorMoves
  <2>4. CASE Claimable(a) /\ MarkProcessing(a)
    (* A claim that leaves the row as it is: impossible, a claimable row is  *)
    (* not one with a fresh claim.                                           *)
    BY <1>b, <2>1, <2>4 DEF MarkProcessing, Claimable, Row
  <2> QED BY <1>1, <2>2, <2>3, <2>4 DEF ProcessGet, ProcessMark
<1>2. CASE ProcessMark(p) /\ Claimable(a) /\ MarkProcessing(a)
  <2>1. Holders(a) = {}
    BY <1>b, <1>2 DEF Claimable, ClaimInv
  <2>2. /\ \A b \in Avatars : b # a => rows'[b] = rows[b]
        /\ rows'[a].status = "processing" /\ ~rows'[a].stale
    BY <1>b, <1>2 DEF MarkProcessing, Row
  <2>3. KeepsCompleted
    BY <1>b, <1>2, <2>2 DEF KeepsCompleted, Claimable
  <2>4. CASE \E err : Return(p, err)
    <3>1. PICK err : Return(p, err)
      BY <2>4
    <3> QED BY <1>c, <1>d, <1>e, <2>1, <2>2, <2>3, <3>1
  <2>5. CASE Goto(p, "download")
    <3>1. ProcessorMoves(p) /\ proc'[p].avatar = a
      BY <1>b, <2>5, GotoMoves
    <3>2. Holders(a)' \subseteq {p}
      BY <2>1, <3>1 DEF Holders, ProcessorMoves
    <3> QED BY <1>c, <2>2, <2>3, <3>1, <3>2 DEF ProcessorMoves
  <2> QED BY <1>2, <2>4, <2>5 DEF ProcessMark
<1>3. CASE ProcessDownload(p) \/ ProcessThumb(p)
  <2>1. UNCHANGED rows /\ p \in Holders(a)
    BY <1>3 DEF ProcessDownload, ProcessThumb, repositoryVars, Holders, At
  <2>2. \A q \in Processors : q # p => proc'[q] = proc[q]
    BY <1>3, <1>b DEF ProcessDownload, ProcessThumb, Goto, Abort
  <2>3. proc'[p].avatar = a
    BY <1>3, <1>b DEF ProcessDownload, ProcessThumb, Goto, Abort, Processor
  <2>4. Holders(a)' \subseteq Holders(a)
    BY <2>1, <2>2 DEF Holders
  <2> QED BY <1>c, <2>1, <2>2, <2>3, <2>4 DEF KeepsCompleted
<1>4. CASE ProcessComplete(p) \/ ProcessFail(p)
  <2>1. p \in Holders(a) /\ (ProcessComplete(p) => proc[p].done = ThumbnailSizes)
    BY <1>4 DEF ProcessComplete, ProcessFail, Holders, At, SafetyInv, ProcessorInv
  <2>2. PICK err : Return(p, err)
    BY <1>4 DEF ProcessComplete, ProcessFail
  <2>3. /\ \A b \in Avatars : b # a => rows'[b] = rows[b]
        /\ rows'[a] # rows[a] => Live(a)
        /\ rows'[a].deleted = rows[a].deleted
    BY <1>4, <1>b DEF ProcessComplete, ProcessFail, CompleteProcessing, FailProcessing,
       repositoryVars, Row
  <2>4. Live(a) => rows[a].status = "processing" /\ Holders(a) = {p}
    BY <1>b, <2>1 DEF ClaimInv
  <2>5. KeepsCompleted
    BY <2>3, <2>4 DEF KeepsCompleted
  <2>6. Live(a) => Holders(a)' = {}
    BY <1>d, <1>e, <2>2, <2>4
  <2>7. ~Live(a) => ~Live(a)'
    BY <2>3 DEF Live, Exists
  <2> QED BY <1>c, <1>e, <2>2, <2>3, <2>5, <2>6, <2>7
<1> QED BY <1>1, <1>2, <1>3, <1>4 DEF ProcessUpload, ProcessMark, repositoryVars

(* Every step keeps the claims in order and completed avatars completed. *)
LEMMA NextClaims ==
  ASSUME "slow" \notin Faults, SafetyInv, ClaimInv, [Next]_vars
  PROVE  ClaimInv' /\ KeepsCompleted
<1>1. CASE ServerNext /\ UNCHANGED <<topic, workerVars>>
  BY <1>1, ServerClaims
<1>2. CASE WorkerNext
  <2>1. CASE \E p \in Processors : ProcessUpload(p)
    <3>1. PICK p \in Processors : ProcessUpload(p)
      BY <2>1
    <3> QED BY <3>1, ProcessUploadClaims
  <2>2. CASE \E a \in Avatars : ClaimExpires(a)
    BY <2>2, ExpiryClaims
  <2> QED BY <1>2, <2>1, <2>2, OtherWorkClaims
          DEF WorkerNext, UploadConsumer, DeleteConsumer, MaintenanceLoop, Processors, OtherWork
<1>3. CASE UNCHANGED vars
  BY <1>3 DEF vars, workerVars, ClaimInv, Live, Exists, Holders, KeepsCompleted
<1> QED BY <1>1, <1>2, <1>3 DEF Next

(* At the start nobody works on anything. *)
LEMMA InitClaims == Init => ClaimInv
BY DEF Init, RepositoryInit, NoRow, ClaimInv, Live, Exists

(* The claim of MarkProcessing excludes: without a call that takes more than *)
(* two minutes, and whatever else fails, the upload consumer and             *)
(* RecoverStuck never work on the same live avatar at the same time.         *)
THEOREM ClaimsExclude ==
  ASSUME "slow" \notin Faults
  PROVE  Spec => []ClaimExclusive
<1>1. SafetyInv /\ ClaimInv /\ [Next]_vars => ClaimInv'
  BY NextClaims
<1>2. ClaimInv => ClaimExclusive
  BY DEF ClaimInv, ClaimExclusive
<1> QED BY <1>1, <1>2, InitClaims, Safety, PTL DEF Spec

(* Under the same condition no late FailProcessing and no second claim takes *)
(* a completed avatar back, and its thumbnails stay recorded.                *)
THEOREM CompletedIsStable ==
  ASSUME "slow" \notin Faults
  PROVE  Spec => CompletedStable
<1>1. SafetyInv /\ ClaimInv /\ [Next]_vars => ClaimInv'
  BY NextClaims
<1>2. SafetyInv /\ ClaimInv /\ [Next]_vars => [KeepsCompleted]_vars
  BY NextClaims
<1>3. CompletedStable <=> [][KeepsCompleted]_vars
  BY DEF CompletedStable, KeepsCompleted
<1> QED BY <1>1, <1>2, <1>3, InitClaims, Safety, PTL DEF Spec
=============================================================================
