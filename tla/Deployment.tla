------------------------------ MODULE Deployment ------------------------------
(* Server and worker start, fail, are killed and start again against one      *)
(* database and one bucket, and the running server answers readiness probes.  *)
EXTENDS Bootstrap, Health

CONSTANT Server     \* the process that serves /health

ASSUME ServerAssumption == Server \in Processes

vars == <<budget, bootstrapVars, healthVars>>

Init == EnvironmentInit /\ BootstrapInit /\ HealthInit

(* A probe dies with the server that would answer it. *)
ProbeFollows ==
  IF boot'[Server].pc = "running"
  THEN UNCHANGED healthVars
  ELSE /\ probe' = "idle"
       /\ ping' = [c \in Components |-> "done"]
       /\ expired' = FALSE
       /\ results' = << >>
       /\ answer' = NoAnswer

(* The routes are served once the server is running. *)
Served == At(Server, "running") /\ UNCHANGED bootstrapVars

Next ==
  \/ BootstrapNext /\ ProbeFollows
  \/ HealthNext /\ Served

Spec == Init /\ [][Next]_vars

(* Every process goes on, an ended one is started again, Postgres notices    *)
(* that a session's client is gone, every Ping that is not hung returns, and *)
(* the deadline of a probe comes.                                            *)
Fairness ==
  /\ \A p \in Processes : WF_vars(BootStep(p) /\ ProbeFollows)
  /\ WF_vars(OrphanEnds /\ ProbeFollows)
  /\ \A c \in Components : WF_vars(PingStep(c) /\ Served)
  /\ WF_vars(Deadline /\ Served)
  /\ WF_vars(Respond /\ Served)

FairSpec == Spec /\ Fairness

-----------------------------------------------------------------------------

TypeOK == EnvironmentTypeOK /\ BootstrapTypeOK /\ HealthTypeOK

(* At most one process is between pg_advisory_lock and its unlock, and it is *)
(* the holder of the lock: sessions left behind by dead processes, holding   *)
(* the lock or queueing for it, let nobody in beside another, and a process  *)
(* that has lost its session migrates no more.                               *)
MigratesAlone ==
  \A p \in Processes : boot[p].pc \in Migrating => lock = p

(* A version is applied only while it is neither applied nor recorded: what  *)
(* CheckVersion read still holds when the file is run and committed, since   *)
(* no other process can have applied it in between.                          *)
AppliesOnce ==
  \A p \in Processes :
    boot[p].pc \in {"apply", "record", "commit"} => boot[p].next \notin schema \cup recorded

(* The schema is what schema_migrations says, and its versions have no gap,  *)
(* wherever a start was broken off.                                          *)
SchemaIsRecorded ==
  /\ schema = recorded
  /\ \A v \in recorded : 1..v \subseteq recorded

(* A process that has started finds all tables and the bucket, and has the   *)
(* topics or has logged that it has not.                                     *)
RunningIsReady ==
  \A p \in Processes :
    At(p, "running") => schema = Versions /\ bucket /\ (topics \/ boot[p].warned)

(* A probe that is answered 200 found every dependency, and a database and a *)
(* bucket that are set up; S3's Ping itself does not look whether the bucket *)
(* is there.                                                                 *)
HealthyMeansReady ==
  answer.code = 200 => answer.ok = Components /\ schema = Versions /\ bucket

(* Once nothing fails any more every process is running: a lock that died    *)
(* with its holder, and a bucket that somebody else was quicker to create,   *)
(* only delay the start.  Nothing but a Kafka broker that took the           *)
(* connection and stays silent can hold it up for ever.                      *)
EventuallyRunning == \A p \in Processes : []<>(At(p, "running") \/ At(p, "silent"))

(* A probe is answered, or ends with the server, although a dependency does  *)
(* not; only a Kafka broker that took the connection and stays silent can    *)
(* keep it.                                                                  *)
ProbeAnswered == (probe = "wait") ~> (probe = "idle" \/ ping["kafka"] = "hung")
=============================================================================
