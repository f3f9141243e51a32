-------------------------- MODULE BrokerAdmission --------------------------
(***************************************************************************)
(* What the broker promises the holders of operations, without threads,    *)
(* locks or an event loop: at most Capacity operations hold a slot; work   *)
(* starts only inside a slot and only once; a slot is given back once, and *)
(* after its future is answered; a future is answered once, with a result  *)
(* only after the work; nothing is admitted once closed.  Unless           *)
(* WorkOutlives, work is over before its slot is given back, too.          *)
(***************************************************************************)
EXTENDS Integers, FiniteSets

CONSTANTS
  Ops, Capacity,
  WorkOutlives   \* TRUE: cancelled work may clean up longer than its slot lasts

VARIABLES open, stage, answer

avars == <<open, stage, answer>>

Holding == {op \in Ops : stage[op] \in {"held", "busy", "over"}}

Init == /\ open = TRUE
        /\ stage = [op \in Ops |-> "new"]
        /\ answer = [op \in Ops |-> "pending"]

To(op, s)   == stage' = [stage EXCEPT ![op] = s]
Reply(op, a) == answer' = [answer EXCEPT ![op] = a]

Admit(op) ==
  /\ open /\ stage[op] = "new" /\ Cardinality(Holding) < Capacity
  /\ To(op, "held") /\ UNCHANGED <<open, answer>>

Begin(op) ==
  stage[op] = "held" /\ To(op, "busy") /\ UNCHANGED <<open, answer>>

End(op) ==
  stage[op] \in {"held", "busy"} /\ To(op, "over") /\ UNCHANGED <<open, answer>>

Resolve(op) ==
  /\ op \in Holding /\ answer[op] = "pending"
  /\ \/ stage[op] = "over" /\ Reply(op, "result")
     \/ (stage[op] = "busy" => WorkOutlives) /\ Reply(op, "unavailable")
     \/ Reply(op, "cancelled")
  /\ UNCHANGED <<open, stage>>

Free(op) ==
  /\ op \in Holding /\ (stage[op] = "busy" => WorkOutlives)
  /\ answer[op] # "pending"
  /\ To(op, "free") /\ UNCHANGED <<open, answer>>

\* Refused after its admission, before any work: answered and freed at once.
Reject(op) ==
  /\ stage[op] = "held" /\ answer[op] = "pending"
  /\ Reply(op, "unavailable") /\ To(op, "free") /\ UNCHANGED open

Close == open /\ open' = FALSE /\ UNCHANGED <<stage, answer>>

Next == \/ Close
        \/ \E op \in Ops : \/ Admit(op) \/ Begin(op) \/ End(op) \/ Resolve(op)
                           \/ Free(op) \/ Reject(op)

Spec == Init /\ [][Next]_avars
=============================================================================
