SPECIFICATION FairSpec
CONSTANTS
  Processes = {server, worker}
  Server = server
  NoOne = none
  Orphan = orphan
  NumMigrations = 2
  Faults = {"db", "commit", "s3", "kafka", "crash", "stop"}
  MaxFaults = 2
INVARIANTS
  TypeOK
  MigratesAlone
  AppliesOnce
  SchemaIsRecorded
  RunningIsReady
  HealthyMeansReady
PROPERTIES
  EventuallyRunning
  ProbeAnswered
