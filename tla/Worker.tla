------------------------------- MODULE Worker -------------------------------
(* The worker process: Run starts the consumer of avatar.uploaded, the       *)
(* consumer of avatar.deleted and the maintenance loop, three goroutines     *)
(* that share one context.  Maintenance flushes the outbox and then, in      *)
(* RecoverStuck, calls the same ProcessUpload that the upload consumer       *)
(* calls: uploading has two callers, here the processors "consumer" and      *)
(* "recovery".  One step is one call to the database, the object store or    *)
(* the broker.                                                               *)
EXTENDS Environment, Repository, ObjectStore, Broker

CONSTANTS Attempts,          \* Worker.attempts
          PublishAttempts,   \* the retries of FlushOutbox
          OutboxLimit,       \* the batch of ListUnpublished
          StuckLimit         \* the batch of ListStuckUploads

ASSUME LimitsAssumption ==
  {Attempts, PublishAttempts, OutboxLimit, StuckLimit} \subseteq Nat \ {0}

VARIABLES proc,       \* proc[p]: processUpload as run by processor p
          del,        \* the consumer of avatar.deleted
          maint,      \* the maintenance loop
          stopping    \* the context of Run is cancelled

workerVars == <<proc, del, maint, stopping>>

Processors == {"consumer", "recovery"}

(* done: the thumbnails stored by this call of processUpload.                *)
(* err:  the error it will return once FailProcessing has been called.       *)
Processor == [pc      : {"idle", "get", "mark", "download", "thumb", "complete",
                         "fail", "commit", "exited"},
              avatar  : Avatars \cup {NoAvatar},
              attempt : 0..Attempts,
              done    : SUBSET ThumbnailSizes,
              err     : {"none", "transient", "permanent"}]

Deleter == [pc      : {"idle", "remove", "commit", "exited"},
            avatar  : Avatars \cup {NoAvatar},
            attempt : 0..Attempts,
            todo    : SUBSET AllowedSizes]

(* batch: the ids ListUnpublished returned and FlushOutbox has yet to treat. *)
(* stuck: the avatars ListStuckUploads returned and RecoverStuck has yet to  *)
(*        treat.                                                             *)
Maintenance == [pc    : {"idle", "publish", "mark", "list", "recover", "exited"},
                batch : SUBSET Nat,
                tries : 0..PublishAttempts,
                stuck : SUBSET Avatars]

IdleProcessor == [pc |-> "idle", avatar |-> NoAvatar, attempt |-> 0,
                  done |-> {}, err |-> "none"]
IdleDeleter == [pc |-> "idle", avatar |-> NoAvatar, attempt |-> 0, todo |-> {}]
IdleMaintenance == [pc |-> "idle", batch |-> {}, tries |-> 0, stuck |-> {}]

Quiet ==
  /\ proc = [p \in Processors |-> IdleProcessor]
  /\ del = IdleDeleter
  /\ maint = IdleMaintenance

WorkerInit == Quiet /\ stopping = FALSE

WorkerTypeOK ==
  /\ proc \in [Processors -> Processor]
  /\ del \in Deleter
  /\ maint \in Maintenance
  /\ stopping \in BOOLEAN

(* A call fails because of the environment, or because its context is        *)
(* cancelled.                                                                *)
Fails(class) == Fault(class) \/ (stopping /\ Healthy)

-----------------------------------------------------------------------------
(* processUpload.                                                            *)

At(p, pc) == proc[p].pc = pc

Goto(p, pc) == proc' = [proc EXCEPT ![p].pc = pc] /\ UNCHANGED maint

Begin(a, attempt) == [pc |-> "get", avatar |-> a, attempt |-> attempt,
                      done |-> {}, err |-> "none"]

(* FailProcessing comes next, then the return of err. *)
Abort(p, err) ==
  /\ proc' = [proc EXCEPT ![p].pc = "fail", ![p].err = err]
  /\ UNCHANGED maint

(* Mutant of Return: every result is retried, without end. *)
Return_Unbounded(p, err) ==
  /\ proc' = [proc EXCEPT ![p] = Begin(@.avatar, @.attempt + 1)]
  /\ UNCHANGED maint

(* processUpload returns.  RecoverStuck goes on to its next avatar whatever  *)
(* the result is.  The consumer retries an error that is not permanent, with *)
(* withRetry; otherwise, and after the last attempt, it commits the message: *)
(* a message that could not be handled is dropped that way.  A cancelled     *)
(* context ends the retries.                                                 *)
Return(p, err) ==
  \/ /\ p = "recovery"
     /\ proc' = [proc EXCEPT ![p] = IdleProcessor]
     /\ maint' = [maint EXCEPT !.stuck = @ \ {proc[p].avatar}]
  \/ /\ p = "consumer"
     /\ err = "transient"
     /\ proc[p].attempt < Attempts
     /\ proc' = [proc EXCEPT ![p] = Begin(@.avatar, @.attempt + 1)]
     /\ UNCHANGED maint
  \/ /\ p = "consumer"
     /\ err # "transient" \/ proc[p].attempt = Attempts \/ stopping
     /\ proc' = [proc EXCEPT ![p] = [Begin(@.avatar, @.attempt) EXCEPT !.pc = "commit"]]
     /\ UNCHANGED maint

(* GetByID; a row that is gone or completed needs no work. *)
ProcessGet(p) ==
  LET a == proc[p].avatar
  IN /\ At(p, "get")
     /\ \/ /\ Healthy
           /\ IF Live(a) /\ rows[a].status # "completed"
              THEN Goto(p, "mark")
              ELSE Return(p, "none")
        \/ Fails("db") /\ Return(p, "transient")
     /\ UNCHANGED <<repositoryVars, objects, topic, del, stopping>>

(* MarkProcessing, the claim; somebody else's claim is respected silently. *)
ProcessMark(p) ==
  LET a == proc[p].avatar
  IN /\ At(p, "mark")
     /\ \/ Healthy /\ Claimable(a) /\ MarkProcessing(a) /\ Goto(p, "download")
        \/ Healthy /\ ~Claimable(a) /\ UNCHANGED repositoryVars /\ Return(p, "none")
        \/ Fails("db") /\ UNCHANGED repositoryVars /\ Return(p, "transient")
        \/ Fault("commit") /\ Claimable(a) /\ MarkProcessing(a) /\ Return(p, "transient")
     /\ UNCHANGED <<objects, topic, del, stopping>>

(* Download of the original.  Inspect accepts what it accepted at upload. *)
ProcessDownload(p) ==
  LET key == OriginalObjectKey(proc[p].avatar)
  IN /\ At(p, "download")
     /\ \/ Healthy /\ Stored(key) /\ Goto(p, "thumb")
        \/ Healthy /\ ~Stored(key) /\ Abort(p, "transient")
        \/ Fails("s3") /\ Abort(p, "transient")
     /\ UNCHANGED <<repositoryVars, objects, topic, del, stopping>>

(* Mutant of NextSize: the loop misses its first size. *)
NextSize_Last(done) == Size300

NextSize(done) == IF Size100 \notin done THEN Size100 ELSE Size300

(* One turn of the loop over the sizes: MakeThumbnail, which fails for good  *)
(* on an image that cannot be decoded, and the PutObject of the result.      *)
ProcessThumb(p) ==
  LET a == proc[p].avatar
      size == NextSize(proc[p].done)
      key == ThumbnailObjectKey(a, size)
  IN /\ At(p, "thumb")
     /\ \/ /\ a \in Truncated
           /\ Healthy
           /\ Abort(p, "permanent")
           /\ UNCHANGED objects
        \/ /\ a \notin Truncated
           /\ Healthy
           /\ Put(key)
           /\ proc' = [proc EXCEPT ![p].done = @ \cup {size},
                                   ![p].pc = IF size = Size300 THEN "complete" ELSE "thumb"]
           /\ UNCHANGED maint
        \/ /\ a \notin Truncated
           /\ Fails("s3")
           /\ PutFails(key)
           /\ Abort(p, "transient")
     /\ UNCHANGED <<repositoryVars, topic, del, stopping>>

(* CompleteProcessing; a row deleted in the meantime is an error like any    *)
(* other, and its retry finds the row gone.  No error leads to               *)
(* FailProcessing here.                                                      *)
ProcessComplete(p) ==
  LET a == proc[p].avatar
  IN /\ At(p, "complete")
     /\ \/ /\ Healthy
           /\ CompleteProcessing(a, proc[p].done)
           /\ Return(p, IF Live(a) THEN "none" ELSE "transient")
        \/ Fails("db") /\ UNCHANGED repositoryVars /\ Return(p, "transient")
        \/ Fault("commit") /\ CompleteProcessing(a, proc[p].done) /\ Return(p, "transient")
     /\ UNCHANGED <<objects, topic, del, stopping>>

(* `_ = s.repo.FailProcessing`: its own error is dropped. *)
ProcessFail(p) ==
  /\ At(p, "fail")
  /\ \/ Healthy /\ FailProcessing(proc[p].avatar)
     \/ Fails("db") /\ UNCHANGED repositoryVars
  /\ Return(p, proc[p].err)
  /\ UNCHANGED <<objects, topic, del, stopping>>

ProcessUpload(p) ==
  \/ ProcessGet(p)
  \/ ProcessMark(p)
  \/ ProcessDownload(p)
  \/ ProcessThumb(p)
  \/ ProcessComplete(p)
  \/ ProcessFail(p)
-----------------------------------------------------------------------------
(* consume, on avatar.uploaded.                                              *)

UploadFetch(a) ==
  /\ At("consumer", "idle")
  /\ Pending(OutboxUpload, a)
  /\ proc' = [proc EXCEPT !["consumer"] = Begin(a, 1)]
  /\ Healthy
  /\ UNCHANGED <<repositoryVars, objects, topic, del, maint, stopping>>

(* The offset commit that ends the handling of every message, also of one    *)
(* that is dropped.  When it fails the goroutine returns the error, and Run  *)
(* cancels the others.                                                       *)
UploadCommit ==
  LET a == proc["consumer"].avatar
      leave(pc) == proc' = [proc EXCEPT !["consumer"] = [IdleProcessor EXCEPT !.pc = pc]]
  IN /\ At("consumer", "commit")
     /\ \/ Healthy /\ Commit(OutboxUpload, a) /\ leave("idle") /\ UNCHANGED stopping
        \/ Fails("kafka") /\ CommitFails(OutboxUpload, a) /\ leave("exited") /\ stopping' = TRUE
     /\ UNCHANGED <<repositoryVars, objects, del, maint>>

(* Fetch fails, or reports the cancelled context, and the goroutine returns. *)
(* (A Fetch under a cancelled context may also return a message that the     *)
(* reader already holds: UploadFetch has no guard on stopping.)              *)
UploadExit ==
  /\ At("consumer", "idle")
  /\ Fails("kafka")
  /\ proc' = [proc EXCEPT !["consumer"].pc = "exited"]
  /\ stopping' = TRUE
  /\ UNCHANGED <<repositoryVars, objects, topic, del, maint>>

-----------------------------------------------------------------------------
(* consume, on avatar.deleted, with ProcessDelete as the handler.            *)

DeleteFetch(a) ==
  /\ del.pc = "idle"
  /\ Pending(OutboxDelete, a)
  /\ del' = [pc |-> "remove", avatar |-> a, attempt |-> 1,
             todo |-> Fetched(OutboxDelete, a)]
  /\ Healthy
  /\ UNCHANGED <<repositoryVars, objects, topic, proc, maint, stopping>>

(* One RemoveObject of S3.Delete, which takes the keys in the order of the   *)
(* event: the original first, the thumbnails in any order.  The first error  *)
(* ends the call; a retry starts from the first key again.                   *)
DeleteRemove(size) ==
  LET key == <<del.avatar, size>>
      todo == del.todo \ {size}
  IN /\ del.pc = "remove"
     /\ size \in del.todo
     /\ SizeOriginal \in del.todo => size = SizeOriginal
     /\ \/ /\ Healthy
           /\ Remove(key)
           /\ del' = [del EXCEPT !.todo = todo,
                                !.pc = IF todo = {} THEN "commit" ELSE "remove"]
        \/ /\ Fails("s3")
           /\ RemoveFails(key)
           /\ \/ /\ del.attempt < Attempts
                 /\ del' = [del EXCEPT !.attempt = @ + 1,
                                      !.todo = Fetched(OutboxDelete, del.avatar)]
              \/ /\ del.attempt = Attempts \/ stopping
                 /\ del' = [del EXCEPT !.todo = {}, !.pc = "commit"]
     /\ UNCHANGED <<repositoryVars, topic, proc, maint, stopping>>

DeleteCommit ==
  LET leave(pc) == del' = [IdleDeleter EXCEPT !.pc = pc]
  IN /\ del.pc = "commit"
     /\ \/ Healthy /\ Commit(OutboxDelete, del.avatar) /\ leave("idle") /\ UNCHANGED stopping
        \/ /\ Fails("kafka")
           /\ CommitFails(OutboxDelete, del.avatar)
           /\ leave("exited")
           /\ stopping' = TRUE
     /\ UNCHANGED <<repositoryVars, objects, proc, maint>>

DeleteExit ==
  /\ del.pc = "idle"
  /\ Fails("kafka")
  /\ del' = [del EXCEPT !.pc = "exited"]
  /\ stopping' = TRUE
  /\ UNCHANGED <<repositoryVars, objects, topic, proc, maint>>

-----------------------------------------------------------------------------
(* maintenance: FlushOutbox, then RecoverStuck, at every tick.  An error in  *)
(* either is logged and the loop goes on.                                    *)

(* FlushOutbox is left when the batch is used up. *)
FlushFrom(batch) ==
  maint' = [maint EXCEPT !.batch = batch, !.tries = 0,
                         !.pc = IF batch = {} THEN "list" ELSE "publish"]

(* Under a cancelled context a tick does nothing that succeeds. *)
FlushList ==
  /\ maint.pc = "idle"
  /\ ~stopping
  /\ \/ Healthy /\ FlushFrom(ListUnpublished(OutboxLimit))
     \/ Fault("db") /\ FlushFrom({})
  /\ UNCHANGED <<repositoryVars, objects, topic, proc, del, stopping>>

(* One attempt of publishWithRetry on the first event of the batch.  When    *)
(* the attempts are used up the event stays unpublished for the next tick.   *)
(* The payload is that of ListUnpublished; no event is ever rewritten, so    *)
(* that it is the one in the outbox still.                                   *)
FlushPublish(i) ==
  /\ maint.pc = "publish"
  /\ IsFirst(i, maint.batch)
  /\ \/ /\ Healthy
        /\ Publish(outbox[i])
        /\ maint' = [maint EXCEPT !.pc = "mark"]
     \/ /\ Fails("kafka")
        /\ PublishFails(outbox[i])
        /\ \/ /\ maint.tries + 1 < PublishAttempts
              /\ maint' = [maint EXCEPT !.tries = @ + 1]
           \/ /\ maint.tries + 1 = PublishAttempts \/ stopping
              /\ FlushFrom(maint.batch \ {i})
  /\ UNCHANGED <<repositoryVars, objects, proc, del, stopping>>

(* MarkOutboxPublished; if it fails the event will be published again. *)
FlushMark(i) ==
  /\ maint.pc = "mark"
  /\ IsFirst(i, maint.batch)
  /\ \/ Healthy /\ MarkOutboxPublished(i)
     \/ Fails("db") /\ UNCHANGED repositoryVars
  /\ FlushFrom(maint.batch \ {i})
  /\ UNCHANGED <<objects, topic, proc, del, stopping>>

RecoverList ==
  /\ maint.pc = "list"
  /\ \/ /\ Healthy
        /\ maint' = [maint EXCEPT !.pc = "recover", !.stuck = ListStuckUploads(StuckLimit)]
     \/ Fails("db") /\ maint' = IdleMaintenance
  /\ UNCHANGED <<repositoryVars, objects, topic, proc, del, stopping>>

(* One turn of the loop of RecoverStuck, and its end. *)
RecoverNext(a) ==
  /\ maint.pc = "recover"
  /\ At("recovery", "idle")
  /\ IsFirst(a, maint.stuck)
  /\ proc' = [proc EXCEPT !["recovery"] = Begin(a, 1)]
  /\ Healthy
  /\ UNCHANGED <<repositoryVars, objects, topic, del, maint, stopping>>

RecoverEnd ==
  /\ maint.pc = "recover"
  /\ maint.stuck = {}
  /\ maint' = IdleMaintenance
  /\ Healthy
  /\ UNCHANGED <<repositoryVars, objects, topic, proc, del, stopping>>

MaintenanceExit ==
  /\ maint.pc = "idle"
  /\ stopping
  /\ maint' = [maint EXCEPT !.pc = "exited"]
  /\ Healthy
  /\ UNCHANGED <<repositoryVars, objects, topic, proc, del, stopping>>

-----------------------------------------------------------------------------
(* The process as a whole.                                                   *)

(* SIGTERM cancels the context that Run was given. *)
WorkerStop ==
  /\ ~stopping
  /\ Fault("stop")
  /\ stopping' = TRUE
  /\ UNCHANGED <<repositoryVars, objects, topic, proc, del, maint>>

(* Run has returned, the process has ended and a new one is started. *)
WorkerRestart ==
  /\ At("consumer", "exited")
  /\ del.pc = "exited"
  /\ maint.pc = "exited"
  /\ proc' = [p \in Processors |-> IdleProcessor]
  /\ del' = IdleDeleter
  /\ maint' = IdleMaintenance
  /\ stopping' = FALSE
  /\ Healthy
  /\ UNCHANGED <<repositoryVars, objects, topic>>

(* The process is killed and started again: all it had in memory is lost. *)
WorkerCrash ==
  /\ ~Quiet
  /\ Fault("crash")
  /\ proc' = [p \in Processors |-> IdleProcessor]
  /\ del' = IdleDeleter
  /\ maint' = IdleMaintenance
  /\ stopping' = FALSE
  /\ UNCHANGED <<repositoryVars, objects, topic>>

(* The processors that believe they have the claim on an avatar. *)
Holders(a) ==
  {p \in Processors : /\ proc[p].avatar = a
                      /\ proc[p].pc \in {"download", "thumb", "complete", "fail"}}

(* Two minutes pass on a claim.  For a claim that nobody works on any more   *)
(* that is a matter of time, for one that is being worked on it is a failure *)
(* of its own: a decode, or a call without a timeout, that takes so long.    *)
ClaimExpires(a) ==
  /\ BecomeStale(a)
  /\ IF Holders(a) = {} THEN Healthy ELSE Fault("slow")
  /\ UNCHANGED <<objects, topic, workerVars>>

UploadConsumer ==
  \/ \E a \in Avatars : UploadFetch(a)
  \/ ProcessUpload("consumer")
  \/ UploadCommit
  \/ UploadExit

DeleteConsumer ==
  \/ \E a \in Avatars : DeleteFetch(a)
  \/ \E size \in AllowedSizes : DeleteRemove(size)
  \/ DeleteCommit
  \/ DeleteExit

MaintenanceLoop ==
  \/ FlushList
  \/ \E i \in maint.batch : FlushPublish(i) \/ FlushMark(i)
  \/ RecoverList
  \/ \E a \in maint.stuck : RecoverNext(a)
  \/ ProcessUpload("recovery")
  \/ RecoverEnd
  \/ MaintenanceExit

WorkerNext ==
  \/ UploadConsumer
  \/ DeleteConsumer
  \/ MaintenanceLoop
  \/ WorkerStop
  \/ WorkerRestart
  \/ WorkerCrash
  \/ \E a \in Avatars : ClaimExpires(a)
=============================================================================
