------------------------------ MODULE Bootstrap ------------------------------
(* The start of a process, server or worker: app.New with migrate.Up under    *)
(* the advisory lock, EnsureBucket and EnsureTopics, one step per call.  An   *)
(* error ends the process and it is started again.  The lock belongs to the   *)
(* database session: a process that dies leaves the session to Postgres,      *)
(* which keeps the lock, or the place in the queue for it, until it notices.  *)
EXTENDS Environment, FiniteSets

CONSTANTS Processes,       \* the processes that start against one database
          NoOne, Orphan,   \* no session, and a session whose process is gone
          NumMigrations    \* how many .sql files are embedded

ASSUME ProcessesAssumption == NoOne \notin Processes /\ Orphan \notin Processes /\ NoOne # Orphan
ASSUME NumMigrationsAssumption == NumMigrations \in Nat

(* The files in the order of their sorted names; 001, 002, ... sort like the *)
(* numbers that versionOf reads from them.                                   *)
Versions == 1..NumMigrations

VARIABLES boot,       \* boot[p]: how far the start of process p has come
          lock,       \* who holds advisory lock 812001
          waiting,    \* the processes that died in the queue for it
          schema,     \* the versions whose statements are committed
          recorded,   \* the table schema_migrations
          bucket,     \* the bucket exists
          topics      \* the topics exist

database == <<lock, waiting, schema, recorded>>
bootstrapVars == <<boot, database, bucket, topics>>

Migrating == {"table", "check", "apply", "record", "commit", "unlock"}

(* next:   the file Up is at.                                                *)
(* failed: Up will return an error once the deferred unlock is done.         *)
(* warned: EnsureTopics failed, which is only logged.                        *)
Boot == [pc     : {"down", "ping", "lock", "lost", "exists", "make", "topics", "silent", "running"}
                    \cup Migrating,
         next   : 0..(NumMigrations + 1),
         failed : BOOLEAN,
         warned : BOOLEAN]

Down == [pc |-> "down", next |-> 0, failed |-> FALSE, warned |-> FALSE]

BootstrapInit ==
  /\ boot = [p \in Processes |-> Down]
  /\ lock = NoOne
  /\ waiting = {}
  /\ schema = {}
  /\ recorded = {}
  /\ bucket = FALSE
  /\ topics = FALSE

BootstrapTypeOK ==
  /\ boot \in [Processes -> Boot]
  /\ lock \in Processes \cup {NoOne, Orphan}
  /\ waiting \subseteq Processes
  /\ schema \subseteq Versions
  /\ recorded \subseteq Versions
  /\ bucket \in BOOLEAN
  /\ topics \in BOOLEAN

At(p, pc) == boot[p].pc = pc

Goto(p, pc) == boot' = [boot EXCEPT ![p].pc = pc]

(* New returns an error, main calls os.Exit(1). *)
Exit(p) == boot' = [boot EXCEPT ![p] = Down]

-----------------------------------------------------------------------------

Start(p) ==
  /\ At(p, "down")
  /\ Goto(p, "ping")
  /\ Healthy
  /\ UNCHANGED <<database, bucket, topics>>

Ping(p) ==
  /\ At(p, "ping")
  /\ \/ Healthy /\ Goto(p, "lock")
     \/ Fault("db") /\ Exit(p)
  /\ UNCHANGED <<database, bucket, topics>>

(* Mutant of MayLock: the process does not wait for the lock. *)
MayLock_Try == TRUE

(* pg_advisory_lock waits until nobody has it. *)
MayLock == lock = NoOne

AcquireLock(p) ==
  /\ At(p, "lock")
  /\ \/ /\ MayLock
        /\ Healthy
        /\ lock' = p
        /\ Goto(p, "table")
     \/ Fault("db") /\ Exit(p) /\ UNCHANGED lock
     \/ MayLock /\ Fault("commit") /\ lock' = Orphan /\ Exit(p)
  /\ UNCHANGED <<waiting, schema, recorded, bucket, topics>>

(* Mutant of Proceed: the loop does not end with the last file. *)
Proceed_PastEnd(p, n) == boot' = [boot EXCEPT ![p].next = n, ![p].pc = "check"]

(* On to file number n, or to the deferred unlock after the last. *)
Proceed(p, n) ==
  boot' = [boot EXCEPT ![p].next = n,
                       ![p].pc = IF n \in Versions THEN "check" ELSE "unlock"]

(* An error anywhere in Up: the open transaction is rolled back and the      *)
(* deferred unlock comes next.  A cancelled context is such an error.        *)
UpFails(p) ==
  /\ Fault("db") \/ Fault("stop")
  /\ boot' = [boot EXCEPT ![p].pc = "unlock", ![p].failed = TRUE]

(* CREATE TABLE IF NOT EXISTS schema_migrations *)
CreateTable(p) ==
  /\ At(p, "table")
  /\ (Healthy /\ Proceed(p, 1)) \/ UpFails(p)
  /\ UNCHANGED <<database, bucket, topics>>

CheckVersion(p) ==
  /\ At(p, "check")
  /\ \/ Healthy /\ boot[p].next \in recorded /\ Proceed(p, boot[p].next + 1)
     \/ Healthy /\ boot[p].next \notin recorded /\ Goto(p, "apply")
     \/ UpFails(p)
  /\ UNCHANGED <<database, bucket, topics>>

(* Mutant of ApplySQL: the file runs outside of the transaction. *)
ApplySQL_NoTx(p) ==
  /\ At(p, "apply")
  /\ Healthy
  /\ Goto(p, "record")
  /\ schema' = schema \cup {boot[p].next}
  /\ UNCHANGED <<lock, waiting, recorded, bucket, topics>>

(* applyFile: Begin and the statements of the file; nobody sees them yet. *)
ApplySQL(p) ==
  /\ At(p, "apply")
  /\ (Healthy /\ Goto(p, "record")) \/ UpFails(p)
  /\ UNCHANGED <<database, bucket, topics>>

(* applyFile: the INSERT, which the primary key refuses for a known version. *)
RecordVersion(p) ==
  /\ At(p, "record")
  /\ \/ Healthy /\ boot[p].next \notin recorded /\ Goto(p, "commit")
     \/ /\ Healthy
        /\ boot[p].next \in recorded
        /\ boot' = [boot EXCEPT ![p].pc = "unlock", ![p].failed = TRUE]
     \/ UpFails(p)
  /\ UNCHANGED <<database, bucket, topics>>

CommitEffect(p) ==
  /\ schema' = schema \cup {boot[p].next}
  /\ recorded' = recorded \cup {boot[p].next}

(* applyFile: COMMIT.  When its answer is lost so is the session. *)
CommitFile(p) ==
  /\ At(p, "commit")
  /\ \/ Healthy /\ CommitEffect(p) /\ Proceed(p, boot[p].next + 1) /\ UNCHANGED lock
     \/ Fault("commit") /\ CommitEffect(p) /\ Exit(p) /\ lock' = Orphan
     \/ UpFails(p) /\ UNCHANGED <<schema, recorded, lock>>
  /\ UNCHANGED <<waiting, bucket, topics>>

(* The deferred pg_advisory_unlock, whose error is dropped: the session is   *)
(* lost then, and the lock left to Postgres.                                 *)
Unlock(p) ==
  /\ At(p, "unlock")
  /\ \/ Healthy /\ lock' = NoOne
     \/ Fault("db") /\ lock' = Orphan
  /\ IF boot[p].failed THEN Exit(p) ELSE Goto(p, "exists")
  /\ UNCHANGED <<waiting, schema, recorded, bucket, topics>>

(* Postgres ends the session of a process that goes on: the lock is free at  *)
(* once and the transaction rolled back.  At the deferred unlock it makes no *)
(* difference.                                                               *)
SessionLost(p) ==
  /\ boot[p].pc \in Migrating \ {"unlock"}
  /\ Fault("db")
  /\ lock' = NoOne
  /\ Goto(p, "lost")
  /\ UNCHANGED <<waiting, schema, recorded, bucket, topics>>

(* Up has that one session for all it does: its next statement fails, and so *)
(* does the deferred unlock, whose error is dropped.                         *)
LossNoticed(p) ==
  /\ At(p, "lost")
  /\ Exit(p)
  /\ Healthy
  /\ UNCHANGED <<database, bucket, topics>>

-----------------------------------------------------------------------------

(* EnsureBucket looks first and creates later; a bucket that another process *)
(* has created in between is an error.                                       *)
BucketExists(p) ==
  /\ At(p, "exists")
  /\ \/ Healthy /\ Goto(p, IF bucket THEN "topics" ELSE "make")
     \/ Fault("s3") /\ Exit(p)
  /\ UNCHANGED <<database, bucket, topics>>

(* Mutant of MakeBucket: its error is only logged. *)
MakeBucket_ErrorLogged(p) ==
  /\ At(p, "make")
  /\ \/ Healthy /\ bucket' = TRUE
     \/ Fault("s3") /\ UNCHANGED bucket
  /\ Goto(p, "topics")
  /\ UNCHANGED <<database, topics>>

(* Mutant of MakeBucket: it is tried again until it succeeds. *)
MakeBucket_Retried(p) ==
  /\ At(p, "make")
  /\ Healthy
  /\ \/ ~bucket /\ bucket' = TRUE /\ Goto(p, "topics")
     \/ bucket /\ Goto(p, "make") /\ UNCHANGED bucket
  /\ UNCHANGED <<database, topics>>

MakeBucket(p) ==
  /\ At(p, "make")
  /\ \/ Healthy /\ ~bucket /\ bucket' = TRUE /\ Goto(p, "topics")
     \/ Healthy /\ bucket /\ Exit(p) /\ UNCHANGED bucket
     \/ Fault("s3") /\ Exit(p) /\ bucket' \in {bucket, TRUE}
  /\ UNCHANGED <<database, topics>>

(* The error of EnsureTopics, which may have created them, is only logged. *)
TopicsFail(p) ==
  /\ topics' \in {topics, TRUE}
  /\ boot' = [boot EXCEPT ![p].pc = "running", ![p].warned = TRUE]

(* EnsureTopics asks one broker after the other.  Only the dial has a        *)
(* deadline: a broker that took the connection and stays silent keeps it.    *)
EnsureTopics(p) ==
  /\ At(p, "topics")
  /\ \/ Healthy /\ topics' = TRUE /\ Goto(p, "running")
     \/ Fault("kafka") /\ TopicsFail(p)
     \/ Fault("kafka") /\ topics' \in {topics, TRUE} /\ Goto(p, "silent")
  /\ UNCHANGED <<database, bucket>>

(* The broker breaks its silence or the connection, if it ever does. *)
BrokerSpeaks(p) ==
  /\ At(p, "silent")
  /\ Healthy
  /\ (topics' = TRUE /\ Goto(p, "running")) \/ TopicsFail(p)
  /\ UNCHANGED <<database, bucket>>

(* The process is killed, or ends on a signal; while it starts, a signal     *)
(* cancels the context of the call under way, which costs the session.  The  *)
(* wait for a silent broker has no context to cancel.                        *)
Terminate(p) ==
  /\ ~At(p, "down")
  /\ Fault("crash") \/ (~At(p, "silent") /\ Fault("stop"))
  /\ lock' = IF lock = p THEN Orphan ELSE lock
  /\ waiting' = IF At(p, "lock") THEN waiting \cup {p} ELSE waiting
  /\ Exit(p)
  /\ UNCHANGED <<schema, recorded, bucket, topics>>

(* What Postgres does with the sessions of the dead: one that still waits    *)
(* may be given the lock, and sooner or later each is noticed.               *)
OrphanAcquires(p) ==
  /\ p \in waiting
  /\ lock = NoOne
  /\ lock' = Orphan
  /\ waiting' = waiting \ {p}
  /\ Healthy
  /\ UNCHANGED <<boot, schema, recorded, bucket, topics>>

OrphanLeaves(p) ==
  /\ p \in waiting
  /\ waiting' = waiting \ {p}
  /\ Healthy
  /\ UNCHANGED <<boot, lock, schema, recorded, bucket, topics>>

OrphanEnds ==
  /\ lock = Orphan
  /\ lock' = NoOne
  /\ Healthy
  /\ UNCHANGED <<boot, waiting, schema, recorded, bucket, topics>>

BootStep(p) ==
  \/ Start(p) \/ Ping(p) \/ AcquireLock(p)
  \/ CreateTable(p) \/ CheckVersion(p) \/ ApplySQL(p) \/ RecordVersion(p)
  \/ CommitFile(p) \/ Unlock(p) \/ LossNoticed(p)
  \/ BucketExists(p) \/ MakeBucket(p) \/ EnsureTopics(p)

BootstrapNext ==
  \/ \E p \in Processes : BootStep(p) \/ SessionLost(p) \/ BrokerSpeaks(p) \/ Terminate(p)
                           \/ OrphanAcquires(p) \/ OrphanLeaves(p)
  \/ OrphanEnds
=============================================================================
