------------------------------- MODULE MCSync -------------------------------
(* One connector and two replicas, without requests and with one fault.     *)
EXTENDS SyncScheduling

MCSyncWorkerId == [g \in Syncers |-> g]
=============================================================================
