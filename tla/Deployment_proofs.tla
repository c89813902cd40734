--------------------------- MODULE Deployment_proofs ---------------------------
(* For any number of processes that start against one database, any number of *)
(* migrations and any failures: who migrates does so alone, the schema is     *)
(* what schema_migrations says, and a process that runs, or that answers a    *)
(* probe with 200, finds all it needs.                                        *)
EXTENDS Deployment, TLAPS

Applying == {"apply", "record", "commit"}
Migrated == {"exists", "make", "topics", "silent", "running"}

(* What is true of a process that has come as far as b: the files before the *)
(* one it is at are recorded, the one it applies is not, and whatever it has *)
(* passed is there.                                                          *)
Consistent(b, done, bkt, tps) ==
  /\ b.failed => b.pc = "unlock"
  /\ b.pc \in {"check"} \cup Applying => b.next \in Versions /\ 1..(b.next - 1) \subseteq done
  /\ b.pc \in Applying => b.next \notin done
  /\ b.pc = "unlock" /\ ~b.failed => done = Versions
  /\ b.pc \in Migrated => done = Versions
  /\ b.pc \in {"topics", "silent", "running"} => bkt
  /\ b.pc = "running" => tps \/ b.warned

(* The inductive invariant of the start. *)
BootInv ==
  /\ BootstrapTypeOK
  /\ MigratesAlone
  /\ SchemaIsRecorded
  /\ \A p \in Processes : Consistent(boot[p], recorded, bucket, topics)

-----------------------------------------------------------------------------

(* A step of process p that leaves the database alone. *)
LEMMA MoveSafe ==
  ASSUME BootInv, NEW p \in Processes, NEW b \in Boot,
         boot' = [boot EXCEPT ![p] = b],
         UNCHANGED database,
         bucket' \in BOOLEAN, bucket => bucket',
         topics' \in BOOLEAN, topics => topics',
         b.pc \in Migrating => lock = p,
         Consistent(b, recorded, bucket', topics')
  PROVE  BootInv'
<1> USE DEF BootInv
<1>1. BootstrapTypeOK'
  BY DEF BootstrapTypeOK, database
<1>2. boot'[p] = b /\ \A q \in Processes : q # p => boot'[q] = boot[q]
  BY DEF BootstrapTypeOK
<1>3. MigratesAlone'
  BY <1>2 DEF MigratesAlone, database
<1>4. SchemaIsRecorded'
  BY DEF SchemaIsRecorded, database
<1>5. \A q \in Processes : Consistent(boot[q], recorded, bucket, topics)'
  BY <1>2 DEF Consistent, database
<1> QED BY <1>1, <1>3, <1>4, <1>5

(* A process that ends, with the lock left to whoever holds it now or to its *)
(* orphaned session; a commit may have happened before.                      *)
LEMMA ExitSafe ==
  ASSUME BootInv, NEW p \in Processes, Exit(p),
         lock' = lock \/ (lock' = Orphan /\ lock \in {p, NoOne}),
         waiting' \subseteq Processes,
         UNCHANGED <<schema, recorded, topics>>,
         bucket' \in BOOLEAN, bucket => bucket'
  PROVE  BootInv'
<1> USE DEF BootInv
<1>1. Down \in Boot
  BY NumMigrationsAssumption DEF Down, Boot, Migrating
<1>2. boot'[p] = Down /\ \A q \in Processes : q # p => boot'[q] = boot[q]
  BY DEF Exit, BootstrapTypeOK
<1>3. BootstrapTypeOK'
  BY <1>1 DEF BootstrapTypeOK, Exit
<1>4. MigratesAlone'
  BY <1>2, ProcessesAssumption DEF MigratesAlone, Down, Migrating
<1>5. SchemaIsRecorded'
  BY DEF SchemaIsRecorded
<1>6. \A q \in Processes : Consistent(boot[q], recorded, bucket, topics)'
  BY <1>2 DEF Consistent, Down, Applying, Migrated
<1> QED BY <1>3, <1>4, <1>5, <1>6

(* A process that goes on to pc, with all else as it was. *)
LEMMA GotoSafe ==
  ASSUME BootInv, NEW p \in Processes,
         NEW pc \in {"ping", "lock", "make", "topics"} \cup Migrating,
         Goto(p, pc), UNCHANGED <<database, topics>>,
         bucket' \in BOOLEAN, bucket => bucket',
         pc \in Migrating => lock = p,
         Consistent([boot[p] EXCEPT !.pc = pc], recorded, bucket', topics)
  PROVE  BootInv'
<1> DEFINE b == [boot[p] EXCEPT !.pc = pc]
<1>1. boot' = [boot EXCEPT ![p] = b]
  BY DEF Goto
<1>2. b \in Boot /\ b.pc = pc
  BY DEF BootInv, BootstrapTypeOK, Boot
<1>3. topics' \in BOOLEAN /\ topics' = topics
  BY DEF BootInv, BootstrapTypeOK
<1> HIDE DEF b
<1>4. Consistent(b, recorded, bucket', topics')
  BY <1>3 DEF b
<1>5. UNCHANGED database
  BY DEF database
<1>6. (topics => topics') /\ (b.pc \in Migrating => lock = p)
  BY <1>2, <1>3
<1> QED BY <1>1, <1>2, <1>3, <1>4, <1>5, <1>6, MoveSafe

(* Up goes on to the next file, or is done. *)
LEMMA ProceedSafe ==
  ASSUME BootInv, NEW p \in Processes, NEW n \in 1..(NumMigrations + 1),
         Proceed(p, n), UNCHANGED <<database, bucket, topics>>,
         boot[p].pc \in Migrating, ~boot[p].failed,
         1..(n - 1) \subseteq recorded
  PROVE  BootInv'
<1> DEFINE b == [boot[p] EXCEPT !.next = n, !.pc = IF n \in Versions THEN "check" ELSE "unlock"]
<1>1. boot' = [boot EXCEPT ![p] = b]
  BY DEF Proceed, BootInv, BootstrapTypeOK
<1>2. b \in Boot /\ b.next = n /\ ~b.failed
      /\ b.pc = IF n \in Versions THEN "check" ELSE "unlock"
  <2>1. boot[p] \in Boot
    BY DEF BootInv, BootstrapTypeOK
  <2>2. n \in 0..(NumMigrations + 1)
    BY NumMigrationsAssumption
  <2> QED BY <2>1, <2>2 DEF Boot, Migrating
<1>3. lock = p
  BY DEF BootInv, MigratesAlone
<1>4. n \notin Versions => recorded = Versions
  <2>1. n \notin Versions => n - 1 = NumMigrations
    BY NumMigrationsAssumption DEF Versions
  <2> QED BY <2>1 DEF Versions, BootInv, BootstrapTypeOK
<1> HIDE DEF b
<1>5. Consistent(b, recorded, bucket', topics')
  BY <1>2, <1>4 DEF Consistent, Applying, Migrated
<1>6. /\ bucket' \in BOOLEAN /\ (bucket => bucket')
      /\ topics' \in BOOLEAN /\ (topics => topics')
  BY DEF BootInv, BootstrapTypeOK
<1>7. UNCHANGED database
  BY DEF database
<1> QED BY <1>1, <1>2, <1>3, <1>5, <1>6, <1>7, MoveSafe

(* Up fails: the deferred unlock comes next. *)
LEMMA FailSafe ==
  ASSUME BootInv, NEW p \in Processes,
         boot' = [boot EXCEPT ![p].pc = "unlock", ![p].failed = TRUE],
         UNCHANGED <<database, bucket, topics>>,
         boot[p].pc \in Migrating
  PROVE  BootInv'
<1> DEFINE b == [boot[p] EXCEPT !.pc = "unlock", !.failed = TRUE]
<1>1. boot' = [boot EXCEPT ![p] = b]
  BY DEF BootInv, BootstrapTypeOK
<1>2. b \in Boot /\ b.pc = "unlock" /\ b.failed = TRUE
  BY DEF BootInv, BootstrapTypeOK, Boot, Migrating
<1>3. lock = p
  BY DEF BootInv, MigratesAlone
<1> HIDE DEF b
<1>4. Consistent(b, recorded, bucket', topics')
  BY <1>2 DEF Consistent, Applying, Migrated
<1>5. /\ bucket' \in BOOLEAN /\ (bucket => bucket')
      /\ topics' \in BOOLEAN /\ (topics => topics')
  BY DEF BootInv, BootstrapTypeOK
<1>6. UNCHANGED database
  BY DEF database
<1> QED BY <1>1, <1>2, <1>3, <1>4, <1>5, <1>6, MoveSafe

-----------------------------------------------------------------------------

(* The calls before the lock and after it, up to the topics. *)
LEMMA CallsSafe ==
  ASSUME BootInv, NEW p \in Processes,
         Start(p) \/ Ping(p) \/ LossNoticed(p) \/ BucketExists(p) \/ MakeBucket(p)
  PROVE  BootInv'
<1>a. boot[p] \in Boot /\ bucket \in BOOLEAN /\ Consistent(boot[p], recorded, bucket, topics)
  BY DEF BootInv, BootstrapTypeOK
<1>b. boot[p].failed => boot[p].pc = "unlock"
  BY <1>a DEF Consistent
<1>1. CASE Start(p)
  <2>1. Consistent([boot[p] EXCEPT !.pc = "ping"], recorded, bucket, topics)
    BY <1>a, <1>b, <1>1 DEF Start, At, Consistent, Boot, Applying, Migrated
  <2> QED BY <1>1, <1>a, <2>1, GotoSafe DEF Start, Migrating
<1>2. CASE Ping(p) /\ Goto(p, "lock")
  <2>1. Consistent([boot[p] EXCEPT !.pc = "lock"], recorded, bucket, topics)
    BY <1>a, <1>b, <1>2 DEF Ping, At, Consistent, Boot, Applying, Migrated
  <2> QED BY <1>2, <1>a, <2>1, GotoSafe DEF Ping, Migrating
<1>3. CASE BucketExists(p) /\ Goto(p, IF bucket THEN "topics" ELSE "make")
  <2>1. Consistent([boot[p] EXCEPT !.pc = IF bucket THEN "topics" ELSE "make"],
                   recorded, bucket, topics)
    BY <1>a, <1>b, <1>3 DEF BucketExists, At, Consistent, Boot, Applying, Migrated
  <2> QED BY <1>3, <1>a, <2>1, GotoSafe DEF BucketExists, Migrating
<1>4. CASE MakeBucket(p) /\ Goto(p, "topics") /\ bucket' = TRUE
  <2>1. Consistent([boot[p] EXCEPT !.pc = "topics"], recorded, bucket', topics)
    BY <1>a, <1>b, <1>4 DEF MakeBucket, At, Consistent, Boot, Applying, Migrated
  <2>2. UNCHANGED <<database, topics>>
    BY <1>4 DEF MakeBucket
  <2> QED BY <1>4, <1>a, <2>1, <2>2, GotoSafe DEF Migrating
<1>5. CASE (Ping(p) \/ LossNoticed(p) \/ BucketExists(p) \/ MakeBucket(p)) /\ Exit(p)
  <2>1. UNCHANGED <<lock, waiting, schema, recorded, topics>>
    BY <1>5 DEF Ping, LossNoticed, BucketExists, MakeBucket, database
  <2>2. bucket' \in BOOLEAN /\ (bucket => bucket')
    BY <1>5, <1>a DEF Ping, LossNoticed, BucketExists, MakeBucket
  <2>3. waiting' \subseteq Processes
    BY <2>1 DEF BootInv, BootstrapTypeOK
  <2> QED BY <1>5, <2>1, <2>2, <2>3, ExitSafe
<1> QED BY <1>1, <1>2, <1>3, <1>4, <1>5 DEF Ping, LossNoticed, BucketExists, MakeBucket

(* EnsureTopics, with the wait for a broker that is silent. *)
LEMMA EnsureTopicsSafe ==
  ASSUME BootInv, NEW p \in Processes, EnsureTopics(p) \/ BrokerSpeaks(p)
  PROVE  BootInv'
<1>a. /\ boot[p] \in Boot /\ Consistent(boot[p], recorded, bucket, topics)
      /\ boot[p].pc \in {"topics", "silent"} /\ UNCHANGED database
      /\ bucket' = bucket /\ bucket \in BOOLEAN /\ topics \in BOOLEAN
  BY DEF BootInv, BootstrapTypeOK, EnsureTopics, BrokerSpeaks, At
<1>1. PICK pc \in {"silent", "running"}, w \in BOOLEAN :
        /\ boot' = [boot EXCEPT ![p] = [boot[p] EXCEPT !.pc = pc, !.warned = w]]
        /\ topics' \in BOOLEAN /\ (topics => topics') /\ (pc = "running" => topics' \/ w)
  <2>1. ASSUME NEW pc \in {"silent", "running"}, Goto(p, pc), topics' \in {topics, TRUE},
               pc = "running" => topics'
        PROVE  \E w \in BOOLEAN :
                 /\ boot' = [boot EXCEPT ![p] = [boot[p] EXCEPT !.pc = pc, !.warned = w]]
                 /\ topics' \in BOOLEAN /\ (topics => topics') /\ (pc = "running" => topics' \/ w)
    <3>1. [boot[p] EXCEPT !.pc = pc, !.warned = boot[p].warned] = [boot[p] EXCEPT !.pc = pc]
      BY <1>a DEF Boot
    <3>2. boot[p].warned \in BOOLEAN
      BY <1>a DEF Boot
    <3>3. boot' = [boot EXCEPT ![p] = [boot[p] EXCEPT !.pc = pc, !.warned = boot[p].warned]]
      BY <2>1, <3>1 DEF Goto
    <3>4. topics' \in BOOLEAN /\ (topics => topics')
      <4>1. topics' = topics \/ topics' = TRUE
        BY <2>1, Zenon
      <4>2. CASE topics' = topics
        BY <1>a, <4>2
      <4>3. CASE topics' = TRUE
        BY <4>3
      <4> QED BY <4>1, <4>2, <4>3
    <3>5. pc = "running" => topics' \/ boot[p].warned
      BY <2>1
    <3> WITNESS boot[p].warned \in BOOLEAN
    <3> QED BY <3>3, <3>4, <3>5
  <2>2. CASE TopicsFail(p)
    <3>1. boot' = [boot EXCEPT ![p] = [boot[p] EXCEPT !.pc = "running", !.warned = TRUE]]
      BY <2>2 DEF TopicsFail, BootInv, BootstrapTypeOK
    <3> QED BY <1>a, <2>2, <3>1 DEF TopicsFail
  <2>3. CASE topics' = TRUE /\ Goto(p, "running")
    BY <2>1, <2>3
  <2>4. CASE topics' \in {topics, TRUE} /\ Goto(p, "silent")
    BY <2>1, <2>4
  <2> QED BY <2>2, <2>3, <2>4 DEF EnsureTopics, BrokerSpeaks
<1> DEFINE b == [boot[p] EXCEPT !.pc = pc, !.warned = w]
<1>2. b \in Boot /\ b.pc = pc /\ b.warned = w /\ b.failed = boot[p].failed
  BY <1>a DEF Boot
<1>3. Consistent(b, recorded, bucket', topics')
  BY <1>a, <1>1, <1>2 DEF Consistent, Applying, Migrated
<1>4. boot' = [boot EXCEPT ![p] = b]
  BY <1>1
<1>5. b.pc \notin Migrating
  BY <1>2 DEF Migrating
<1> HIDE DEF b
<1> QED BY <1>a, <1>1, <1>2, <1>3, <1>4, <1>5, MoveSafe

(* Taking the lock: nobody migrates while it is free. *)
LEMMA AcquireLockSafe ==
  ASSUME BootInv, NEW p \in Processes, AcquireLock(p)
  PROVE  BootInv'
<1>a. /\ boot[p] \in Boot /\ boot[p].pc = "lock" /\ waiting \subseteq Processes
      /\ Consistent(boot[p], recorded, bucket, topics) /\ bucket \in BOOLEAN
  BY DEF BootInv, BootstrapTypeOK, AcquireLock, At
<1>1. CASE lock = NoOne /\ lock' = p /\ Goto(p, "table")
  <2> DEFINE b == [boot[p] EXCEPT !.pc = "table"]
  <2>1. boot'[p] = b /\ \A q \in Processes : q # p => boot'[q] = boot[q]
    BY <1>1 DEF Goto, BootInv, BootstrapTypeOK
  <2>2. b \in Boot /\ b.pc = "table" /\ b.failed = boot[p].failed
    BY <1>a DEF Boot, Migrating
  <2>3. BootstrapTypeOK'
    BY <1>1, <2>2 DEF AcquireLock, Goto, BootInv, BootstrapTypeOK
  <2>4. Consistent(b, recorded', bucket', topics')
    BY <1>a, <2>2 DEF Consistent, Applying, Migrated
  <2> HIDE DEF b
  <2>5. \A q \in Processes : boot[q].pc \notin Migrating
    BY <1>1, ProcessesAssumption DEF BootInv, MigratesAlone
  <2>6. MigratesAlone'
    BY <1>1, <2>1, <2>5 DEF MigratesAlone
  <2>7. SchemaIsRecorded'
    BY DEF AcquireLock, BootInv, SchemaIsRecorded
  <2>8. \A q \in Processes : Consistent(boot[q], recorded, bucket, topics)'
    BY <2>1, <2>4 DEF AcquireLock, BootInv
  <2> QED BY <2>3, <2>6, <2>7, <2>8 DEF BootInv
<1>2. CASE Exit(p) /\ (lock' = lock \/ (lock = NoOne /\ lock' = Orphan))
  <2>1. UNCHANGED <<waiting, schema, recorded, bucket, topics>>
    BY DEF AcquireLock
  <2> QED BY <1>a, <1>2, <2>1, ExitSafe
<1> QED BY <1>1, <1>2 DEF AcquireLock, MayLock

(* The steps of Up before a file is committed. *)
LEMMA FilesSafe ==
  ASSUME BootInv, NEW p \in Processes,
         CreateTable(p) \/ CheckVersion(p) \/ ApplySQL(p) \/ RecordVersion(p)
  PROVE  BootInv'
<1>a. /\ boot[p] \in Boot /\ bucket \in BOOLEAN
      /\ Consistent(boot[p], recorded, bucket, topics)
      /\ boot[p].pc \in {"table", "check", "apply", "record"}
      /\ UNCHANGED <<database, bucket, topics>>
  BY DEF BootInv, BootstrapTypeOK, At, CreateTable, CheckVersion, ApplySQL, RecordVersion
<1>b. boot[p].pc \in Migrating /\ ~boot[p].failed /\ lock = p
  BY <1>a DEF Migrating, Consistent, BootInv, MigratesAlone
<1>c. boot[p].pc # "table" =>
        boot[p].next \in Versions /\ 1..(boot[p].next - 1) \subseteq recorded
  BY <1>a DEF Consistent, Applying
<1>1. CASE CreateTable(p) /\ Proceed(p, 1)
  <2>1. 1 \in 1..(NumMigrations + 1) /\ 1..(1 - 1) \subseteq recorded
    BY NumMigrationsAssumption
  <2> QED BY <1>1, <1>a, <1>b, <2>1, ProceedSafe
<1>2. CASE CheckVersion(p) /\ boot[p].next \in recorded /\ Proceed(p, boot[p].next + 1)
  <2>1. boot[p].next \in Versions /\ 1..(boot[p].next - 1) \subseteq recorded
    BY <1>2, <1>c DEF CheckVersion, At
  <2> DEFINE n == boot[p].next + 1
  <2>2. n \in 1..(NumMigrations + 1)
    BY <2>1, NumMigrationsAssumption DEF Versions
  <2>3. 1..(n - 1) \subseteq recorded
    BY <1>2, <2>1, NumMigrationsAssumption DEF Versions
  <2>4. Proceed(p, n)
    BY <1>2
  <2> HIDE DEF n
  <2> QED BY <1>a, <1>b, <2>2, <2>3, <2>4, ProceedSafe
<1>3. CASE CheckVersion(p) /\ boot[p].next \notin recorded /\ Goto(p, "apply")
  <2>1. Consistent([boot[p] EXCEPT !.pc = "apply"], recorded, bucket, topics)
    BY <1>a, <1>b, <1>3 DEF CheckVersion, At, Consistent, Boot, Applying, Migrated
  <2> QED BY <1>3, <1>a, <1>b, <2>1, GotoSafe DEF Migrating
<1>4. CASE ApplySQL(p) /\ Goto(p, "record")
  <2>1. Consistent([boot[p] EXCEPT !.pc = "record"], recorded, bucket, topics)
    BY <1>a, <1>b, <1>4 DEF ApplySQL, At, Consistent, Boot, Applying, Migrated
  <2> QED BY <1>4, <1>a, <1>b, <2>1, GotoSafe DEF Migrating
<1>5. CASE RecordVersion(p) /\ Goto(p, "commit")
  <2>1. Consistent([boot[p] EXCEPT !.pc = "commit"], recorded, bucket, topics)
    BY <1>a, <1>b, <1>5 DEF RecordVersion, At, Consistent, Boot, Applying, Migrated
  <2> QED BY <1>5, <1>a, <1>b, <2>1, GotoSafe DEF Migrating
<1>6. CASE boot' = [boot EXCEPT ![p].pc = "unlock", ![p].failed = TRUE]
  BY <1>6, <1>a, <1>b, FailSafe
<1> QED BY <1>1, <1>2, <1>3, <1>4, <1>5, <1>6
        DEF CreateTable, CheckVersion, ApplySQL, RecordVersion, UpFails

(* The commit adds the next version, and the only process that may be at a   *)
(* file is the one that commits it.                                          *)
LEMMA CommitFileSafe ==
  ASSUME BootInv, NEW p \in Processes, CommitFile(p)
  PROVE  BootInv'
<1> DEFINE n == boot[p].next
<1>a. /\ boot[p] \in Boot /\ boot[p].pc = "commit"
      /\ Consistent(boot[p], recorded, bucket, topics)
      /\ UNCHANGED <<waiting, bucket, topics>>
  BY DEF BootInv, BootstrapTypeOK, At, CommitFile
<1>b. boot[p].pc \in Migrating /\ ~boot[p].failed /\ lock = p
  BY <1>a DEF Migrating, Consistent, BootInv, MigratesAlone
<1>c. n \in Versions /\ 1..(n - 1) \subseteq recorded
  BY <1>a DEF Consistent, Applying
<1>d. n \in Nat /\ n >= 1 /\ n <= NumMigrations
  BY <1>c, NumMigrationsAssumption DEF Versions
<1> HIDE DEF n
<1>e. \A q \in Processes : q # p => boot[q].pc \notin Migrating
  BY <1>b DEF BootInv, MigratesAlone
<1>1. CASE CommitEffect(p)
  <2>1. schema' = schema \cup {n} /\ recorded' = recorded \cup {n}
    BY <1>1 DEF CommitEffect, n
  <2>2. SchemaIsRecorded'
    <3>1. schema' = recorded'
      BY <2>1 DEF BootInv, SchemaIsRecorded
    <3>2. 1..n \subseteq recorded'
      BY <1>c, <1>d, <2>1
    <3> QED BY <2>1, <3>1, <3>2 DEF BootInv, SchemaIsRecorded
  <2>3. schema' \subseteq Versions /\ recorded' \subseteq Versions
    BY <1>c, <2>1 DEF BootInv, BootstrapTypeOK
  <2>4. \A q \in Processes : q # p => Consistent(boot[q], recorded', bucket', topics')
    <3>1. SUFFICES ASSUME NEW q \in Processes, q # p
                   PROVE  Consistent(boot[q], recorded', bucket', topics')
      OBVIOUS
    <3>2. Consistent(boot[q], recorded, bucket, topics) /\ boot[q].pc \notin Migrating
      BY <1>e, <3>1 DEF BootInv
    <3>3. recorded = Versions => recorded' = Versions
      BY <1>c, <2>1
    <3> QED BY <1>a, <3>2, <3>3 DEF Consistent, Applying, Migrating
  <2>5. PICK b \in Boot :
          /\ boot' = [boot EXCEPT ![p] = b]
          /\ lock' \in {lock, Orphan}
          /\ b.pc \in Migrating => lock' = p
          /\ Consistent(b, recorded', bucket', topics')
    <3>1. CASE Proceed(p, n + 1) /\ UNCHANGED lock
      <4> DEFINE c == [boot[p] EXCEPT !.next = n + 1,
                                      !.pc = IF n + 1 \in Versions THEN "check" ELSE "unlock"]
      <4>1. boot' = [boot EXCEPT ![p] = c]
        BY <3>1 DEF Proceed, BootInv, BootstrapTypeOK
      <4>2. n + 1 \in 0..(NumMigrations + 1)
        BY <1>d, NumMigrationsAssumption
      <4>3. /\ c \in Boot /\ c.next = n + 1 /\ ~c.failed
            /\ c.pc = IF n + 1 \in Versions THEN "check" ELSE "unlock"
        BY <1>a, <1>b, <4>2 DEF Boot, Migrating
      <4> HIDE DEF c
      <4>4. 1..((n + 1) - 1) \subseteq recorded'
        BY <1>c, <1>d, <2>1
      <4>5. n + 1 \notin Versions => recorded' = Versions
        <5>1. n + 1 \notin Versions => (n + 1) - 1 = NumMigrations
          BY <1>d, NumMigrationsAssumption DEF Versions
        <5> QED BY <2>3, <4>4, <5>1 DEF Versions
      <4>6. Consistent(c, recorded', bucket', topics')
        BY <4>3, <4>4, <4>5 DEF Consistent, Applying, Migrated
      <4> QED BY <1>b, <3>1, <4>1, <4>3, <4>6
    <3>2. CASE Exit(p) /\ lock' = Orphan
      <4>1. Down \in Boot /\ Down.pc = "down" /\ ~Down.failed
        BY NumMigrationsAssumption DEF Down, Boot, Migrating
      <4>2. Consistent(Down, recorded', bucket', topics') /\ Down.pc \notin Migrating
        BY <4>1 DEF Consistent, Applying, Migrated, Migrating
      <4> QED BY <3>2, <4>1, <4>2 DEF Exit
    <3>3. CASE UpFails(p) /\ UNCHANGED <<schema, recorded, lock>>
      <4>1. n \in recorded /\ n \notin recorded
        BY <1>a, <2>1, <3>3 DEF Consistent, Applying, n
      <4> QED BY <4>1
    <3> QED BY <3>1, <3>2, <3>3 DEF CommitFile, n
  <2>6. boot'[p] = b /\ \A q \in Processes : q # p => boot'[q] = boot[q]
    BY <2>5 DEF BootInv, BootstrapTypeOK
  <2>7. BootstrapTypeOK'
    BY <1>a, <2>3, <2>5 DEF BootInv, BootstrapTypeOK
  <2>8. MigratesAlone'
    BY <1>e, <2>5, <2>6 DEF MigratesAlone
  <2>9. \A q \in Processes : Consistent(boot[q], recorded, bucket, topics)'
    BY <2>4, <2>5, <2>6
  <2> QED BY <2>2, <2>7, <2>8, <2>9 DEF BootInv
<1>2. CASE UpFails(p) /\ UNCHANGED <<schema, recorded, lock>>
  <2>1. UNCHANGED <<database, bucket, topics>>
    BY <1>a, <1>2 DEF database
  <2> QED BY <1>2, <1>b, <2>1, FailSafe DEF UpFails
<1> QED BY <1>1, <1>2 DEF CommitFile

(* The deferred unlock, by the process that holds the lock. *)
LEMMA UnlockSafe ==
  ASSUME BootInv, NEW p \in Processes, Unlock(p)
  PROVE  BootInv'
<1>a. /\ boot[p] \in Boot /\ boot[p].pc = "unlock"
      /\ Consistent(boot[p], recorded, bucket, topics)
      /\ UNCHANGED <<waiting, schema, recorded, bucket, topics>>
  BY DEF BootInv, BootstrapTypeOK, At, Unlock
<1>b. lock = p /\ lock' \in {NoOne, Orphan}
  BY <1>a DEF Migrating, BootInv, MigratesAlone, Unlock
<1>1. PICK b \in Boot :
        /\ boot' = [boot EXCEPT ![p] = b]
        /\ b.pc \notin Migrating
        /\ Consistent(b, recorded, bucket, topics)
  <2>1. CASE boot[p].failed /\ Exit(p)
    <3>1. Down \in Boot /\ Down.pc = "down" /\ ~Down.failed
      BY NumMigrationsAssumption DEF Down, Boot, Migrating
    <3>2. Consistent(Down, recorded, bucket, topics) /\ Down.pc \notin Migrating
      BY <3>1 DEF Consistent, Applying, Migrated, Migrating
    <3> QED BY <2>1, <3>1, <3>2 DEF Exit
  <2>2. CASE ~boot[p].failed /\ Goto(p, "exists")
    <3> DEFINE c == [boot[p] EXCEPT !.pc = "exists"]
    <3>1. c \in Boot /\ c.pc = "exists" /\ c.failed = boot[p].failed
      BY <1>a DEF Boot
    <3>2. boot' = [boot EXCEPT ![p] = c]
      BY <2>2 DEF Goto
    <3> HIDE DEF c
    <3>3. Consistent(c, recorded, bucket, topics) /\ c.pc \notin Migrating
      BY <1>a, <2>2, <3>1 DEF Consistent, Applying, Migrated, Migrating
    <3> QED BY <3>1, <3>2, <3>3
  <2> QED BY <2>1, <2>2 DEF Unlock
<1>2. boot'[p] = b /\ \A q \in Processes : q # p => boot'[q] = boot[q]
  BY <1>1 DEF BootInv, BootstrapTypeOK
<1>3. BootstrapTypeOK'
  BY <1>a, <1>b, <1>1 DEF BootInv, BootstrapTypeOK
<1>4. MigratesAlone'
  BY <1>b, <1>1, <1>2 DEF BootInv, MigratesAlone
<1>5. SchemaIsRecorded'
  BY <1>a DEF BootInv, SchemaIsRecorded
<1>6. \A q \in Processes : Consistent(boot[q], recorded, bucket, topics)'
  BY <1>a, <1>1, <1>2 DEF BootInv
<1> QED BY <1>3, <1>4, <1>5, <1>6 DEF BootInv

(* A process that loses its session, and with it the lock, while it migrates. *)
LEMMA SessionLostSafe ==
  ASSUME BootInv, NEW p \in Processes, SessionLost(p)
  PROVE  BootInv'
<1>a. /\ boot[p] \in Boot /\ boot[p].pc \in Migrating /\ boot[p].pc # "unlock"
      /\ Consistent(boot[p], recorded, bucket, topics)
      /\ UNCHANGED <<waiting, schema, recorded, bucket, topics>>
  BY DEF BootInv, BootstrapTypeOK, SessionLost
<1>b. lock = p /\ lock' = NoOne
  BY <1>a DEF BootInv, MigratesAlone, SessionLost
<1> DEFINE b == [boot[p] EXCEPT !.pc = "lost"]
<1>1. b \in Boot /\ b.pc = "lost" /\ b.failed = boot[p].failed
  BY <1>a DEF Boot
<1>2. boot' = [boot EXCEPT ![p] = b]
  BY DEF SessionLost, Goto
<1> HIDE DEF b
<1>3. Consistent(b, recorded, bucket, topics) /\ b.pc \notin Migrating
  BY <1>a, <1>1 DEF Consistent, Applying, Migrated, Migrating
<1>4. boot'[p] = b /\ \A q \in Processes : q # p => boot'[q] = boot[q]
  BY <1>2 DEF BootInv, BootstrapTypeOK
<1>5. BootstrapTypeOK'
  BY <1>a, <1>b, <1>1, <1>2 DEF BootInv, BootstrapTypeOK
<1>6. MigratesAlone'
  BY <1>b, <1>3, <1>4 DEF BootInv, MigratesAlone
<1>7. SchemaIsRecorded'
  BY <1>a DEF BootInv, SchemaIsRecorded
<1>8. \A q \in Processes : Consistent(boot[q], recorded, bucket, topics)'
  BY <1>a, <1>3, <1>4 DEF BootInv
<1> QED BY <1>5, <1>6, <1>7, <1>8 DEF BootInv

(* Processes that are killed, and what Postgres does with their sessions. *)
LEMMA SessionsSafe ==
  ASSUME BootInv,
         OrphanEnds \/ \E p \in Processes : Terminate(p) \/ OrphanAcquires(p) \/ OrphanLeaves(p)
  PROVE  BootInv'
<1>1. CASE OrphanEnds \/ \E p \in Processes : OrphanAcquires(p) \/ OrphanLeaves(p)
  <2>1. /\ UNCHANGED <<boot, schema, recorded, bucket, topics>>
        /\ lock' = lock \/ (lock \in {NoOne, Orphan} /\ lock' \in {NoOne, Orphan})
        /\ waiting' \subseteq waiting
    BY <1>1 DEF OrphanEnds, OrphanAcquires, OrphanLeaves
  <2>2. BootstrapTypeOK' /\ SchemaIsRecorded'
    BY <2>1 DEF BootInv, BootstrapTypeOK, SchemaIsRecorded
  <2>3. MigratesAlone'
    BY <2>1, ProcessesAssumption DEF BootInv, MigratesAlone
  <2>4. \A q \in Processes : Consistent(boot[q], recorded, bucket, topics)'
    BY <2>1 DEF BootInv
  <2> QED BY <2>2, <2>3, <2>4 DEF BootInv
<1>2. ASSUME NEW p \in Processes, Terminate(p)
      PROVE  BootInv'
  <2>1. /\ Exit(p)
        /\ lock' = lock \/ (lock' = Orphan /\ lock \in {p, NoOne})
        /\ UNCHANGED <<schema, recorded, bucket, topics>>
    BY <1>2 DEF Terminate
  <2>2. waiting' \subseteq Processes /\ bucket' \in BOOLEAN /\ (bucket => bucket')
    BY <1>2, <2>1 DEF Terminate, BootInv, BootstrapTypeOK
  <2> QED BY <2>1, <2>2, ExitSafe
<1> QED BY <1>1, <1>2

(* Every step of the start keeps BootInv. *)
LEMMA BootstrapSafe == BootInv /\ BootstrapNext => BootInv'
<1> SUFFICES ASSUME BootInv, BootstrapNext PROVE BootInv'
  OBVIOUS
<1>1. ASSUME NEW p \in Processes, BootStep(p)
      PROVE  BootInv'
  BY <1>1, CallsSafe, EnsureTopicsSafe, AcquireLockSafe, FilesSafe, CommitFileSafe, UnlockSafe
     DEF BootStep
<1> QED BY <1>1, SessionsSafe, SessionLostSafe, EnsureTopicsSafe DEF BootstrapNext

LEMMA BootstrapStutter == BootInv /\ UNCHANGED bootstrapVars => BootInv'
  BY DEF BootInv, BootstrapTypeOK, MigratesAlone, SchemaIsRecorded, Consistent, bootstrapVars,
         database

-----------------------------------------------------------------------------

(* A goroutine that is done has sent its result, and whoever was told 200    *)
(* was told so by a running server that had a good result of every one.      *)
HealthInv ==
  /\ HealthTypeOK
  /\ probe = "wait" =>
       \A c \in Components : ping[c] = "done" => \E i \in DOMAIN results : results[i].name = c
  /\ answer.code = 200 => answer.ok = Components /\ At(Server, "running")

DeploymentInv == EnvironmentTypeOK /\ BootInv /\ HealthInv

(* The channel after a send. *)
LEMMA SendSafe ==
  ASSUME HealthInv, NEW c \in Components, NEW ok \in BOOLEAN, Send(c, ok),
         UNCHANGED boot
  PROVE  HealthInv'
<1> DEFINE r == [name |-> c, ok |-> ok]
           R == [name : Components, ok : BOOLEAN]
<1>a. /\ results \in Seq(R) /\ r \in R /\ r.name = c
      /\ ping \in [Components -> {"asked", "hung", "done"}]
  BY DEF HealthInv, HealthTypeOK
<1> HIDE DEF R
<1>1. results' = Append(results, r)
  BY DEF Send
<1> HIDE DEF r
<1>2. /\ results' \in Seq(R)
      /\ DOMAIN results' = 1..(Len(results) + 1)
      /\ \A i \in DOMAIN results : i \in DOMAIN results' /\ results'[i] = results[i]
      /\ Len(results) + 1 \in DOMAIN results' /\ results'[Len(results) + 1] = r
  BY <1>a, <1>1
<1>3. HealthTypeOK'
  BY <1>a, <1>2 DEF Send, HealthInv, HealthTypeOK, R
<1>4. ASSUME probe' = "wait", NEW d \in Components, ping'[d] = "done"
      PROVE  \E i \in DOMAIN results' : results'[i].name = d
  <2>1. CASE d = c
    BY <1>a, <1>2, <2>1
  <2>2. CASE d # c
    <3>1. probe = "wait" /\ ping[d] = "done"
      BY <1>4, <1>a, <2>2 DEF Send
    <3>2. PICK i \in DOMAIN results : results[i].name = d
      BY <3>1 DEF HealthInv
    <3> QED BY <1>2, <3>2
  <2> QED BY <2>1, <2>2
<1>5. (answer.code = 200 => answer.ok = Components /\ At(Server, "running"))'
  BY DEF HealthInv, Send, At
<1> QED BY <1>3, <1>4, <1>5 DEF HealthInv

(* The answer that Respond gives. *)
LEMMA RespondSafe ==
  ASSUME HealthInv, Respond, Served
  PROVE  HealthInv'
<1> DEFINE got == {results[i] : i \in DOMAIN results}
           oks == {res.name : res \in {res \in got : res.ok}}
<1>1. answer' = [code |-> IF \E res \in got : ~res.ok THEN 503 ELSE 200, ok |-> oks]
  BY DEF Respond
<1>2. \A res \in got : res.name \in Components /\ res.ok \in BOOLEAN
  <2>1. results \in Seq([name : Components, ok : BOOLEAN])
    BY DEF HealthInv, HealthTypeOK
  <2>2. ASSUME NEW S, results \in Seq(S)
        PROVE  \A i \in DOMAIN results : results[i] \in S
    BY <2>2
  <2>3. \A i \in DOMAIN results : results[i] \in [name : Components, ok : BOOLEAN]
    BY <2>1, <2>2
  <2> QED BY <2>3
<1>3. oks \subseteq Components
  BY <1>2
<1>4. \A c \in Components : \E res \in got : res.name = c
  BY DEF HealthInv, Respond, AllDone
<1> HIDE DEF got
<1>5. (\A res \in got : res.ok) => oks = Components
  BY <1>3, <1>4
<1> HIDE DEF oks
<1>6. answer'.ok = oks /\ answer'.code = IF \E res \in got : ~res.ok THEN 503 ELSE 200
  BY <1>1
<1>7. answer' \in [code : {0, 200, 503}, ok : SUBSET Components]
  BY <1>1, <1>3
<1>8. HealthTypeOK'
  BY <1>7 DEF HealthInv, HealthTypeOK, Respond
<1>9. At(Server, "running")'
  BY DEF Served, At, bootstrapVars
<1> QED BY <1>5, <1>6, <1>8, <1>9 DEF HealthInv, Respond

(* Every step of a probe keeps HealthInv. *)
LEMMA HealthSafe == HealthInv /\ HealthNext /\ Served => HealthInv'
<1> SUFFICES ASSUME HealthInv, HealthNext, Served PROVE HealthInv'
  OBVIOUS
<1>a. UNCHANGED boot
  BY DEF Served, bootstrapVars
<1>b. \A c \in Components, ok \in BOOLEAN : Send(c, ok) => HealthInv'
  BY <1>a, SendSafe
<1>1. CASE ProbeStart
  <2>1. << >> \in Seq([name : Components, ok : BOOLEAN])
    OBVIOUS
  <2>2. NoAnswer \in [code : {0, 200, 503}, ok : SUBSET Components] /\ NoAnswer.code # 200
    BY DEF NoAnswer
  <2> QED BY <1>1, <2>1, <2>2 DEF ProbeStart, HealthInv, HealthTypeOK
<1>2. CASE \E c \in Components : PingStep(c)
  BY <1>2, <1>b DEF PingStep, PingReturns, PingExpires
<1>3. ASSUME NEW c \in Components, PingHangs(c)
      PROVE  HealthInv'
  BY <1>3, <1>a DEF PingHangs, HealthInv, HealthTypeOK, At
<1>4. CASE SilenceEnds
  BY <1>4, <1>b DEF SilenceEnds, Components
<1>5. CASE Deadline
  BY <1>5, <1>a DEF Deadline, HealthInv, HealthTypeOK, At
<1>6. CASE Respond
  BY <1>6, RespondSafe
<1> QED BY <1>1, <1>2, <1>3, <1>4, <1>5, <1>6 DEF HealthNext

(* A probe lives and dies with its server. *)
LEMMA ProbeSafe == HealthInv /\ BootstrapNext /\ ProbeFollows => HealthInv'
<1> SUFFICES ASSUME HealthInv, ProbeFollows PROVE HealthInv'
  OBVIOUS
<1>1. CASE boot'[Server].pc = "running"
  <2>1. UNCHANGED <<probe, ping, expired, results, answer>>
    BY <1>1 DEF ProbeFollows, healthVars
  <2>2. HealthTypeOK'
    BY <2>1 DEF HealthInv, HealthTypeOK
  <2> QED BY <1>1, <2>1, <2>2 DEF HealthInv, At
<1>2. CASE boot'[Server].pc # "running"
  <2>1. << >> \in Seq([name : Components, ok : BOOLEAN])
    OBVIOUS
  <2>2. NoAnswer \in [code : {0, 200, 503}, ok : SUBSET Components] /\ NoAnswer.code # 200
    BY DEF NoAnswer
  <2>3. /\ probe' = "idle" /\ ping' = [c \in Components |-> "done"] /\ expired' = FALSE
        /\ results' = << >> /\ answer' = NoAnswer
    BY <1>2 DEF ProbeFollows
  <2>4. HealthTypeOK'
    BY <2>1, <2>2, <2>3 DEF HealthTypeOK
  <2> QED BY <2>2, <2>3, <2>4 DEF HealthInv
<1> QED BY <1>1, <1>2

(* No step spends more than is left of the budget. *)
LEMMA BudgetSafe == EnvironmentTypeOK /\ (BootstrapNext \/ HealthNext) => EnvironmentTypeOK'
<1> SUFFICES ASSUME EnvironmentTypeOK, BootstrapNext \/ HealthNext PROVE EnvironmentTypeOK'
  OBVIOUS
<1>1. Healthy => EnvironmentTypeOK'
  BY DEF Healthy, EnvironmentTypeOK
<1>2. \A class : Fault(class) => EnvironmentTypeOK'
  BY MaxFaultsAssumption DEF Fault, EnvironmentTypeOK
<1>3. ASSUME NEW p \in Processes, BootStep(p)
      PROVE  EnvironmentTypeOK'
  <2>1. CASE Start(p) \/ Ping(p) \/ AcquireLock(p)
    BY <2>1, <1>1, <1>2 DEF Start, Ping, AcquireLock
  <2>2. CASE CreateTable(p) \/ CheckVersion(p) \/ ApplySQL(p) \/ RecordVersion(p)
    BY <2>2, <1>1, <1>2 DEF CreateTable, CheckVersion, ApplySQL, RecordVersion, UpFails
  <2>3. CASE CommitFile(p) \/ Unlock(p) \/ LossNoticed(p)
    BY <2>3, <1>1, <1>2 DEF CommitFile, Unlock, LossNoticed, UpFails
  <2>4. CASE BucketExists(p) \/ MakeBucket(p) \/ EnsureTopics(p)
    BY <2>4, <1>1, <1>2 DEF BucketExists, MakeBucket, EnsureTopics
  <2> QED BY <1>3, <2>1, <2>2, <2>3, <2>4 DEF BootStep
<1>4. CASE BootstrapNext
  BY <1>4, <1>1, <1>2, <1>3 DEF BootstrapNext, SessionLost, BrokerSpeaks, Terminate, OrphanAcquires,
                                OrphanLeaves, OrphanEnds
<1>5. CASE HealthNext
  BY <1>5, <1>1, <1>2 DEF HealthNext, ProbeStart, PingStep, PingReturns, PingExpires, PingHangs,
                          SilenceEnds, Deadline, Respond
<1> QED BY <1>4, <1>5

-----------------------------------------------------------------------------

LEMMA InitInv == Init => DeploymentInv
<1> SUFFICES ASSUME Init PROVE DeploymentInv
  OBVIOUS
<1>1. EnvironmentTypeOK
  BY MaxFaultsAssumption DEF Init, EnvironmentInit, EnvironmentTypeOK
<1>2. Down \in Boot /\ Down.pc = "down" /\ ~Down.failed
  BY NumMigrationsAssumption DEF Down, Boot, Migrating
<1>3. \A p \in Processes : boot[p] = Down
  BY DEF Init, BootstrapInit
<1>4. BootstrapTypeOK
  BY <1>2 DEF Init, BootstrapInit, BootstrapTypeOK
<1>5. MigratesAlone /\ SchemaIsRecorded
  BY <1>2, <1>3 DEF Init, BootstrapInit, MigratesAlone, Migrating, SchemaIsRecorded
<1>6. \A p \in Processes : Consistent(boot[p], recorded, bucket, topics)
  BY <1>2, <1>3 DEF Consistent, Applying, Migrated
<1>7. HealthInv
  <2>1. << >> \in Seq([name : Components, ok : BOOLEAN])
    OBVIOUS
  <2>2. NoAnswer \in [code : {0, 200, 503}, ok : SUBSET Components] /\ NoAnswer.code # 200
    BY DEF NoAnswer
  <2> QED BY <2>1, <2>2 DEF Init, HealthInit, HealthInv, HealthTypeOK
<1> QED BY <1>1, <1>4, <1>5, <1>6, <1>7 DEF DeploymentInv, BootInv

LEMMA NextInv == DeploymentInv /\ [Next]_vars => DeploymentInv'
<1> SUFFICES ASSUME DeploymentInv, [Next]_vars PROVE DeploymentInv'
  OBVIOUS
<1> USE DEF DeploymentInv
<1>1. CASE BootstrapNext /\ ProbeFollows
  BY <1>1, BootstrapSafe, ProbeSafe, BudgetSafe
<1>2. CASE HealthNext /\ Served
  <2>1. UNCHANGED bootstrapVars
    BY <1>2 DEF Served
  <2> QED BY <1>2, <2>1, BootstrapStutter, HealthSafe, BudgetSafe
<1>3. CASE UNCHANGED vars
  <2>1. UNCHANGED budget /\ UNCHANGED bootstrapVars /\ UNCHANGED healthVars /\ UNCHANGED boot
    BY <1>3 DEF vars, bootstrapVars
  <2>2. UNCHANGED <<probe, ping, expired, results, answer>>
    BY <2>1 DEF healthVars
  <2>3. HealthTypeOK'
    BY <2>2 DEF HealthInv, HealthTypeOK
  <2>4. HealthInv'
    BY <2>1, <2>2, <2>3 DEF HealthInv, At
  <2> QED BY <2>1, <2>4, BootstrapStutter DEF EnvironmentTypeOK
<1> QED BY <1>1, <1>2, <1>3 DEF Next

(* The invariant holds of every behaviour. *)
THEOREM DeploymentSafety == Spec => []DeploymentInv
  BY InitInv, NextInv, PTL DEF Spec

(* Every variable of the deployment keeps its type. *)
THEOREM DeploymentTypes == Spec => []TypeOK
<1>1. DeploymentInv => TypeOK
  BY DEF DeploymentInv, BootInv, HealthInv, TypeOK
<1> QED BY <1>1, DeploymentSafety, PTL

(* migrate.Up is alone while it holds the lock, whoever else starts or dies. *)
THEOREM MigratingAlone == Spec => []MigratesAlone
<1>1. DeploymentInv => MigratesAlone
  BY DEF DeploymentInv, BootInv
<1> QED BY <1>1, DeploymentSafety, PTL

(* No migration is applied twice: applyFile runs for a version that is       *)
(* neither in the schema nor in schema_migrations.                           *)
THEOREM MigrationsAppliedOnce == Spec => []AppliesOnce
<1>1. DeploymentInv => AppliesOnce
  BY DEF DeploymentInv, BootInv, AppliesOnce, Consistent, Applying, SchemaIsRecorded
<1> QED BY <1>1, DeploymentSafety, PTL

(* The transaction of applyFile keeps schema_migrations true. *)
THEOREM SchemaRecorded == Spec => []SchemaIsRecorded
<1>1. DeploymentInv => SchemaIsRecorded
  BY DEF DeploymentInv, BootInv
<1> QED BY <1>1, DeploymentSafety, PTL

(* app.New returns only when the schema and the bucket are there. *)
THEOREM RunningReady == Spec => []RunningIsReady
<1>1. DeploymentInv => RunningIsReady
  BY DEF DeploymentInv, BootInv, RunningIsReady, At, Consistent, Migrated, SchemaIsRecorded
<1> QED BY <1>1, DeploymentSafety, PTL

(* A 200 of /health stands for all three dependencies and a set-up database. *)
THEOREM HealthyReady == Spec => []HealthyMeansReady
<1>1. DeploymentInv => HealthyMeansReady
  BY ServerAssumption DEF DeploymentInv, BootInv, HealthInv, HealthyMeansReady, At, Consistent,
                          Migrated, SchemaIsRecorded
<1> QED BY <1>1, DeploymentSafety, PTL
=============================================================================
