--------------------------- MODULE MCBrokerOwner ---------------------------
(* A small instance of BrokerOwner for TLC.                                *)
EXTENDS BrokerOwner

CONSTANTS t1, t2, r1, r2

\* Both profiles were shipped with the installed build, or the second with the
\* one the upgrade installs.
MCShipments == {n \in [Runtimes -> Builds] : n[r1] = 1}
=============================================================================
