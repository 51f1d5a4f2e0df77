-------------------------- MODULE MCRegistryServer --------------------------
(* A small instance of RegistryServer: a peer that registers and queries,  *)
(* and one that sends a registration that lacks a field, and a heartbeat.  *)
EXTENDS RegistryServer

CONSTANTS p, q

MCConns == {p, q}
MCSent ==
    [c \in MCConns |->
        IF c = p
        THEN <<[seq |-> 1, type |-> "REGISTER_WORKER", fields |-> WorkerRegisterReq, size |-> 2],
               [seq |-> 2, type |-> "TASK_QUERY", fields |-> TaskQueryReq, size |-> 1]>>
        ELSE <<[seq |-> 3, type |-> "REGISTER_WORKER", fields |-> {"weight"}, size |-> 2],
               [seq |-> 4, type |-> "HEARTBEAT", fields |-> Heartbeat, size |-> 1]>>]

\* Each of these packets is sent once.
ASSUME MCSentAssumption == PacketsDistinct
=============================================================================
