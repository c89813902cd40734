-------------------------------- MODULE Health --------------------------------
(* GET /health: one goroutine per dependency pings it under a deadline of     *)
(* three seconds and sends its result to a channel; the handler waits for all *)
(* of them before it reads the channel.                                       *)
EXTENDS Environment, FiniteSets, Sequences

Components == {"postgres", "s3", "kafka"}

PingFault == [postgres |-> "db", s3 |-> "s3", kafka |-> "kafka"]

(* make(chan result, len(checks)) *)
Capacity == Cardinality(Components)

VARIABLES probe,     \* the handler: "idle" or at wg.Wait
          ping,      \* ping[c]: the goroutine of component c
          expired,   \* the deadline has passed
          results,   \* the channel
          answer     \* the last answer: its code and the components it calls ok

healthVars == <<probe, ping, expired, results, answer>>

NoAnswer == [code |-> 0, ok |-> {}]

HealthInit ==
  /\ probe = "idle"
  /\ ping = [c \in Components |-> "done"]
  /\ expired = FALSE
  /\ results = << >>
  /\ answer = NoAnswer

HealthTypeOK ==
  /\ probe \in {"idle", "wait"}
  /\ ping \in [Components -> {"asked", "hung", "done"}]
  /\ expired \in BOOLEAN
  /\ results \in Seq([name : Components, ok : BOOLEAN])
  /\ answer \in [code : {0, 200, 503}, ok : SUBSET Components]

ProbeStart ==
  /\ probe = "idle"
  /\ probe' = "wait"
  /\ ping' = [c \in Components |-> "asked"]
  /\ expired' = FALSE
  /\ results' = << >>
  /\ answer' = NoAnswer
  /\ Healthy

(* The send of a goroutine whose Ping has returned: it waits for room. *)
Send(c, ok) ==
  /\ Len(results) < Capacity
  /\ results' = Append(results, [name |-> c, ok |-> ok])
  /\ ping' = [ping EXCEPT ![c] = "done"]
  /\ UNCHANGED <<probe, expired, answer>>

PingReturns(c) ==
  /\ ping[c] = "asked"
  /\ \/ Healthy /\ ~expired /\ Send(c, TRUE)
     \/ Fault(PingFault[c]) /\ Send(c, FALSE)

(* A dependency that does not answer. *)
PingHangs(c) ==
  /\ ping[c] = "asked"
  /\ Fault(PingFault[c])
  /\ ping' = [ping EXCEPT ![c] = "hung"]
  /\ UNCHANGED <<probe, expired, results, answer>>

(* Mutant of PingExpires: a Ping pays no regard to its context. *)
PingExpires_Ignored(c) ==
  /\ expired
  /\ ping[c] \in {"asked", "hung"}
  /\ Healthy
  /\ UNCHANGED healthVars

(* The context ends every Ping of Postgres and S3, and the dial of Kafka;    *)
(* the request that Kafka's Ping sends on the connection has no deadline, so *)
(* that a hung one goes on.                                                  *)
PingExpires(c) ==
  /\ expired
  /\ ping[c] = "asked" \/ (ping[c] = "hung" /\ c # "kafka")
  /\ Healthy
  /\ Send(c, FALSE)

(* The broker breaks its silence or the connection, if it ever does. *)
SilenceEnds ==
  /\ ping["kafka"] = "hung"
  /\ Healthy
  /\ \E ok \in BOOLEAN : Send("kafka", ok)

Deadline ==
  /\ probe = "wait"
  /\ ~expired
  /\ expired' = TRUE
  /\ Healthy
  /\ UNCHANGED <<probe, ping, results, answer>>

(* Mutant of AllDone: the handler does not wait for all goroutines. *)
AllDone_Any == \E c \in Components : ping[c] = "done"

(* wg.Wait *)
AllDone == \A c \in Components : ping[c] = "done"

(* 200 unless the channel held an error. *)
Respond ==
  /\ probe = "wait"
  /\ AllDone
  /\ probe' = "idle"
  /\ answer' = LET got == {results[i] : i \in DOMAIN results}
               IN [code |-> IF \E res \in got : ~res.ok THEN 503 ELSE 200,
                   ok   |-> {res.name : res \in {res \in got : res.ok}}]
  /\ Healthy
  /\ UNCHANGED <<ping, expired, results>>

PingStep(c) == PingReturns(c) \/ PingExpires(c)

HealthNext ==
  \/ ProbeStart
  \/ \E c \in Components : PingStep(c) \/ PingHangs(c)
  \/ SilenceEnds
  \/ Deadline
  \/ Respond
=============================================================================
