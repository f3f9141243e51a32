----------------------------- MODULE BrokerInv -----------------------------
(***************************************************************************)
(* The inductive invariant behind the safety properties of Broker.  The    *)
(* properties of Broker relate a slot to the work, the queue and the       *)
(* thread that stand behind it; what makes them hold from step to step is  *)
(* the shape an operation can have on the loop (Shape), which submission   *)
(* prepares (SubmitInv), and the order in which shutdown, the thread and   *)
(* the state change (ThreadInv).                                           *)
(***************************************************************************)
EXTENDS Broker

OnlyCancels(s, from) == \A i \in from..Len(s) : s[i] = "cancel"

\* An operation is in `operations' from its admission on, and untouched by
\* the loop and by cancellation until try_submit has posted it.
SubmitInv(op) ==
  /\ submitPc[op] \in {"idle", "refused"} => op \notin operations
  /\ Submitting(op) => op \in operations
  /\ submitPc[op] # "returned" =>
       /\ inbox[op] = << >> /\ runner[op] = "none" /\ work[op] = "none"
       /\ on # op /\ cancelPc[op] = "idle"

\* Where the operation is on the loop, by the state of its task.
Shape(op) ==
  /\ runner[op] \in {"none", "created", "stored", "waiting", "done"}
  /\ runner[op] = "none" =>
       /\ work[op] = "none"
       /\ inbox[op] = << >> \/ inbox[op] = <<"create">>
       /\ inbox[op] = <<"create">> => op \in operations /\ on # op
       /\ on = op => at \in {"abandon", "abandonSet", "finish"}
       /\ submitPc[op] = "returned" /\ op \in operations \ AsyncOps =>
            inbox[op] = <<"create">> \/ on = op
  /\ runner[op] = "created" =>
       /\ inbox[op] = <<"step">> /\ work[op] = "none" /\ op \in operations
       /\ at = "store" /\ on = op
  /\ runner[op] = "stored" =>
       /\ inbox[op] # << >> /\ inbox[op][1] = "step" /\ OnlyCancels(inbox[op], 2)
       /\ work[op] = "none" /\ op \in operations /\ on # op
  /\ runner[op] = "waiting" =>
       /\ OnlyCancels(inbox[op], 1) /\ op \in operations
       /\ on = op => /\ at \in {"check", "deliver", "unavailable", "finish"}
                     /\ InnerTask \/ ~Working(op)
       /\ on # op => Working(op)
  /\ runner[op] = "done" =>
       /\ OnlyCancels(inbox[op], 1) /\ op \notin operations /\ on # op
       /\ InnerTask \/ ~Working(op)

\* The future on the way from answered to freed.
FutureInv(op) ==
  /\ future[op] = "cancelled" => op \in AsyncOps
  /\ on = op /\ at = "finish" => ~Unanswered(op)
  /\ on = op /\ at = "abandonSet" /\ op \notin AsyncOps => Unanswered(op)
  /\ submitPc[op] = "returned" /\ op \notin operations => ~Unanswered(op)

\* Shutdown stops the loop only after the last slot is given back, and what
\* is closed stays closed.
ThreadInv ==
  /\ state = "NEW" => thread = "none"
  /\ state = "CLOSED" => ~ThreadAlive
  /\ at # "idle" => Loop
  /\ \A op \in Ops : Working(op) \/ (op \in operations /\ Charged(op)) => Loop
  /\ thread = "draining" => state \in Refusing /\ operations = {}
  /\ stopPosted => state \in Refusing /\ operations = {}
  /\ \A c \in Closers :
       /\ closerPc[c] = "revoke" => state \in Refusing
       /\ closerPc[c] \in {"stop", "join"} => state \in Refusing /\ operations = {}
       /\ closerPc[c] = "closed" => state \in Refusing /\ ~ThreadAlive

IInv == /\ TypeOK /\ Accounting /\ ThreadInv
        /\ \A op \in Ops : SubmitInv(op) /\ Shape(op) /\ FutureInv(op)
        /\ NoLostCancel
=============================================================================
