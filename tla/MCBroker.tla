------------------------------ MODULE MCBroker ------------------------------
(* Small instances of Broker for TLC.                                      *)
EXTENDS BrokerInv

CONSTANTS l1, l2, o2

\* o2 is submitted under a lease of its own, the other operations share one.
MCLeaseOf == [op \in Ops |-> IF op = o2 THEN l2 ELSE l1]

\* Every operation is submitted under the same lease.
MCOneLease == [op \in Ops |-> l1]
=============================================================================
