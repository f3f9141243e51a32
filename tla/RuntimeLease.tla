---------------------------- MODULE RuntimeLease ----------------------------
(***************************************************************************)
(* What one profile runtime promises whoever loads the profile: it is made *)
(* without a lease, leases the broker at most once in its life, and gives  *)
(* the lease back when it is closed, after which it is never leased again. *)
(***************************************************************************)
VARIABLE life

Lives == {"absent", "fresh", "leased", "releasing", "closed"}

Init == life \in {"absent", "fresh"}

Make    == life = "absent" /\ life' = "fresh"
Lease   == life = "fresh" /\ life' = "leased"
\* Closed without a lease: by close(), or because there is no broker.
Shut    == life = "fresh" /\ life' = "closed"
\* The two halves of close(), under the lock and after it.
Take    == life = "leased" /\ life' = "releasing"
Release == life = "releasing" /\ life' = "closed"

Next == Make \/ Lease \/ Shut \/ Take \/ Release

Spec == Init /\ [][Next]_life
=============================================================================
