--------------------------- MODULE BrokerService ---------------------------
(***************************************************************************)
(* BrokerAdmission with what the broker promises about leases and          *)
(* cancellation, which is all a runtime relies on: an operation is         *)
(* admitted under a live lease only; revoking a lease cancels every        *)
(* operation that holds a slot under it; work that was cancelled, or whose *)
(* lease was revoked, before it started never starts.                      *)
(***************************************************************************)
EXTENDS BrokerAdmission

CONSTANT Leases

VARIABLES
  lease,       \* none, live or revoked
  under,       \* which operation was admitted under which lease
  cancelled    \* operations that were told to stop

svars == <<avars, lease, under, cancelled>>

ServiceInit ==
  /\ Init
  /\ lease = [l \in Leases |-> "none"] /\ under = {}
  /\ cancelled = [op \in Ops |-> FALSE]

Acquire(l) ==
  /\ open /\ lease[l] = "none"
  /\ lease' = [lease EXCEPT ![l] = "live"]
  /\ UNCHANGED <<avars, under, cancelled>>

Revoke(l) ==
  /\ lease[l] = "live"
  /\ lease' = [lease EXCEPT ![l] = "revoked"]
  /\ cancelled' = [op \in Ops |-> \/ cancelled[op]
                                  \/ op \in Holding /\ <<op, l>> \in under]
  /\ UNCHANGED <<avars, under>>

AdmitUnder(op, l) ==
  /\ lease[l] = "live" /\ Admit(op)
  /\ under' = under \cup {<<op, l>>}
  /\ UNCHANGED <<lease, cancelled>>

Cancel(op) ==
  /\ stage[op] # "new"
  /\ cancelled' = [cancelled EXCEPT ![op] = TRUE]
  /\ UNCHANGED <<avars, lease, under>>

\* Nobody has told the operation to stop.
Wanted(op) ==
  ~cancelled[op] /\ \A l \in Leases : <<op, l>> \in under => lease[l] # "revoked"

Serve(op) ==
  /\ \/ (Begin(op) \/ End(op)) /\ (stage[op] = "held" => Wanted(op))
     \/ Resolve(op) \/ Free(op) \/ Reject(op)
  /\ UNCHANGED <<lease, under, cancelled>>

ServiceNext ==
  \/ Close /\ UNCHANGED <<lease, under, cancelled>>
  \/ \E l \in Leases : Acquire(l) \/ Revoke(l)
  \/ \E op \in Ops : \/ Cancel(op) \/ Serve(op)
                     \/ \E l \in Leases : AdmitUnder(op, l)

ServiceSpec == ServiceInit /\ [][ServiceNext]_svars
=============================================================================
