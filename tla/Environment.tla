----------------------------- MODULE Environment -----------------------------
(* What the processes cannot control: calls that fail, requests given up by   *)
(* their client, processes that die.  A run chooses which classes of failure  *)
(* may happen and how many of them in one behaviour; every failure in the     *)
(* model spends one unit of the budget, so that a behaviour has only finitely *)
(* many of them and liveness can be asked of what happens afterwards.         *)
(*                                                                            *)
(*   "db"     a statement or transaction fails and has no effect              *)
(*   "commit" a statement or transaction takes effect, its caller is told of  *)
(*            an error (the connection dies under the answer)                 *)
(*   "s3"     an object-store call reports an error; it may have taken effect *)
(*   "kafka"  a write, fetch or offset commit reports an error; a write or a  *)
(*            commit may have taken effect                                    *)
(*   "cancel" the context of an HTTP request is cancelled (client gone, or    *)
(*            the 60 s timeout of the router): its remaining calls all fail   *)
(*   "crash"  a process is killed                                             *)
(*   "stop"   a process receives SIGTERM, or a thread of the worker gives up  *)
(*   "slow"   a thread works for more than two minutes on a claimed avatar    *)
EXTENDS Naturals

CONSTANTS Faults,      \* the classes of failure that may happen
          MaxFaults    \* how many failures one behaviour may have

FaultClasses == {"db", "commit", "s3", "kafka", "cancel", "crash", "stop", "slow"}

ASSUME FaultsAssumption == Faults \subseteq FaultClasses
ASSUME MaxFaultsAssumption == MaxFaults \in Nat

VARIABLE budget        \* failures this behaviour may still have

EnvironmentInit == budget = MaxFaults

EnvironmentTypeOK == budget \in 0..MaxFaults

Healthy == UNCHANGED budget

Fault(class) ==
  /\ class \in Faults
  /\ budget > 0
  /\ budget' = budget - 1
=============================================================================
