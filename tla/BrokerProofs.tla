---------------------------- MODULE BrokerProofs ----------------------------
(***************************************************************************)
(* The types of Broker and the state of its operations, for every number of *)
(* leases, operations and shutdowns, and every value of the limits.        *)
(***************************************************************************)
EXTENDS BrokerInv, FiniteSetTheorems, TLAPS

\* What the handlers share keeps the types.
LEMMA FinishType ==
  ASSUME TypeOK, NEW op \in Ops, Finish(op)
  PROVE  /\ operations' \subseteq Ops
         /\ activeOperations' \in Nat /\ taskCount' \in Nat
BY DEF TypeOK, Finish, Decrement, slots

LEMMA PostCancelsType ==
  ASSUME TypeOK, NEW targets, PostCancels(targets)
  PROVE  inbox' \in [Ops -> Seq({"create", "step", "cancel"})]
BY DEF TypeOK, PostCancels

LEMMA RevokeType ==
  ASSUME TypeOK, NEW l \in Leases, Revoke(l)
  PROVE  /\ lease' \in [Leases -> {"none", "live", "revoked"}]
         /\ cancelRequested' \in [Ops -> BOOLEAN]
         /\ inbox' \in [Ops -> Seq({"create", "step", "cancel"})]
<1>1. CASE lease[l] # "live"
  BY <1>1 DEF TypeOK, Revoke
<1>2. CASE lease[l] = "live"
  <2>1. PostCancels({op \in operations : LeaseOf[op] = l})
    BY <1>2 DEF Revoke
  <2>2. inbox' \in [Ops -> Seq({"create", "step", "cancel"})]
    BY <2>1, PostCancelsType
  <2>3. lease' = [lease EXCEPT ![l] = "revoked"]
    BY <1>2 DEF Revoke
  <2>4. cancelRequested' = [op \in Ops |-> \/ op \in operations /\ LeaseOf[op] = l
                                          \/ cancelRequested[op]]
    BY <1>2, Zenon DEF Revoke
  <2>5. lease' \in [Leases -> {"none", "live", "revoked"}]
    BY <2>3 DEF TypeOK
  <2>6. cancelRequested' \in [Ops -> BOOLEAN]
    BY <2>4 DEF TypeOK
  <2> QED BY <2>2, <2>5, <2>6
<1> QED BY <1>1, <1>2

LEMMA TypeSubmit ==
  ASSUME TypeOK, NEW op \in Ops, Submit(op)
  PROVE  TypeOK'
<1> USE DEF TypeOK, GoSubmit, slots, threadVars, taskVars, closerVars
<1>1. CASE Admit(op)
  BY <1>1 DEF Submit, Admit
<1>2. CASE StartLoop(op)
  BY <1>2 DEF Submit, StartLoop, Refusing
<1>3. CASE StartSeen(op)
  BY <1>3 DEF Submit, StartSeen
<1>4. CASE StartTimeout(op)
  BY <1>4 DEF Submit, StartTimeout
<1>5. CASE StartBroken(op)
  BY <1>5 DEF Submit, StartBroken, Refusing
<1>6. CASE StartFailed(op)
  BY <1>6, FinishType DEF Submit, StartFailed, Refuse, Answer
<1>7. CASE ChargeTask(op)
  <2>1. UNCHANGED <<state, thread, ready, stopPosted, inbox>>
    BY <1>7 DEF ChargeTask
  <2>2. CASE Refuse(op)
    BY <2>1, <2>2, FinishType DEF Submit, Refuse, Answer
  <2>3. CASE /\ taskCount' = taskCount + 1 /\ GoSubmit(op, "post")
             /\ UNCHANGED <<operations, activeOperations, future>>
    BY <2>1, <2>3 DEF Submit
  <2> QED BY <1>7, <2>2, <2>3 DEF ChargeTask
<1>8. CASE PostCreate(op)
  BY <1>8 DEF Submit, PostCreate
<1> QED BY <1>1, <1>2, <1>3, <1>4, <1>5, <1>6, <1>7, <1>8 DEF Submit

LEMMA TypeHolder ==
  ASSUME TypeOK, NEW op \in Ops, Holder(op)
  PROVE  TypeOK'
<1> USE DEF TypeOK, slots, threadVars, taskVars, closerVars
<1>1. CASE RequestCancel(op)
  BY <1>1 DEF Holder, RequestCancel
<1>2. CASE ScheduleCancel(op)
  BY <1>2, PostCancelsType DEF Holder, ScheduleCancel
<1>3. CASE CancelFuture(op)
  BY <1>3 DEF Holder, CancelFuture, Answer
<1>4. CASE Expire(op)
  BY <1>4 DEF Holder, Expire
<1> QED BY <1>1, <1>2, <1>3, <1>4 DEF Holder

LEMMA TypeThread ==
  ASSUME TypeOK, LoopThread
  PROVE  TypeOK'
<1> USE DEF TypeOK, LoopThread, Refusing, slots, callerVars, closerVars
<1>1. CASE ThreadUp
  BY <1>1 DEF ThreadUp
<1>2. CASE ThreadFails
  BY <1>2 DEF ThreadFails
<1>3. CASE LoopStop
  BY <1>3 DEF LoopStop
<1>4. CASE ThreadExit
  BY <1>4 DEF ThreadExit
<1>5. CASE DrainAborted
  <2>1. work' \in [Ops -> {"none", "running", "cleanup", "over"}]
    BY <1>5 DEF DrainAborted
  <2> QED BY <1>5, <2>1 DEF DrainAborted
<1> QED BY <1>1, <1>2, <1>3, <1>4, <1>5

LEMMA TypeLoopStep ==
  ASSUME TypeOK, NEW op \in Ops, LoopStep(op)
  PROVE  TypeOK'
<1> USE OpsAssumption
    DEF TypeOK, Stages, Goto, Return, AtStage, Callback, slots, threadVars,
        callerVars, closerVars
<1>1. CASE CreateTask(op)
  <2>1. Tail(inbox[op]) \in Seq({"create", "step", "cancel"})
    BY <1>1 DEF CreateTask
  <2>2. Append(Tail(inbox[op]), "step") \in Seq({"create", "step", "cancel"})
    BY <2>1
  <2>3. /\ at' \in {"abandon", "store"} /\ on' = op
        /\ UNCHANGED <<slots, future, work>>
    BY <1>1, Zenon DEF CreateTask
  <2>4. \/ inbox' = [inbox EXCEPT ![op] = Tail(@)]
        \/ inbox' = [inbox EXCEPT ![op] = Append(Tail(@), "step")]
    BY <1>1, Zenon DEF CreateTask
  <2>5. runner' = runner \/ runner' = [runner EXCEPT ![op] = "created"]
    BY <1>1, Zenon DEF CreateTask
  <2>6. inbox' \in [Ops -> Seq({"create", "step", "cancel"})]
    <3> HIDE DEF TypeOK
    <3>1. inbox \in [Ops -> Seq({"create", "step", "cancel"})]
      BY DEF TypeOK
    <3>2. \A s \in Seq({"create", "step", "cancel"}) :
            [inbox EXCEPT ![op] = s] \in [Ops -> Seq({"create", "step", "cancel"})]
      BY <3>1, Zenon
    <3> QED BY <2>1, <2>2, <2>4, <3>2, Zenon
  <2> QED BY <2>3, <2>5, <2>6 DEF LoopStep
<1>2. CASE StoreTask(op)
  BY <1>2 DEF LoopStep, StoreTask
<1>3. CASE Abandon(op)
  BY <1>3 DEF LoopStep, Abandon
<1>4. CASE AbandonSet(op)
  BY <1>4 DEF LoopStep, AbandonSet, Answer
<1>5. CASE RunnerStart(op)
  <2>1. inbox' \in [Ops -> Seq({"create", "step", "cancel"})]
    BY <1>5 DEF RunnerStart
  <2>2. runner' = [runner EXCEPT ![op] = "waiting"]
    BY <1>5 DEF RunnerStart
  <2>3. work' \in [Ops -> {"none", "running", "cleanup", "over"}]
    BY <1>5 DEF RunnerStart
  <2>4. at' \in Stages /\ on' \in Ops \cup {NoOp} /\ (at' = "idle" <=> on' = NoOp)
    BY <1>5 DEF RunnerStart
  <2> QED BY <1>5, <2>1, <2>2, <2>3, <2>4 DEF LoopStep, RunnerStart
<1>6. CASE WorkEnds(op)
  BY <1>6 DEF LoopStep, WorkEnds
<1>7. CASE TimerFires(op)
  BY <1>7 DEF LoopStep, TimerFires
<1>8. CASE TaskCancel(op)
  BY <1>8 DEF LoopStep, TaskCancel
<1>9. CASE Check(op)
  BY <1>9 DEF LoopStep, Check
<1>10. CASE Deliver(op)
  BY <1>10 DEF LoopStep, Deliver, Answer
<1>11. CASE FinishOp(op)
  BY <1>11, FinishType DEF LoopStep, FinishOp
<1> QED BY <1>1, <1>2, <1>3, <1>4, <1>5, <1>6, <1>7, <1>8, <1>9, <1>10, <1>11
        DEF LoopStep

\* What shutdown may write, and the rest of the state, type-correct on its own.
ShutdownTypes ==
  /\ state' \in {"NEW", "STARTING", "RUNNING"} \cup Refusing
  /\ stopPosted' \in BOOLEAN
  /\ closerPc' \in [Closers -> {"idle", "revoke", "stop", "join", "closed",
                                "broken"}]
  /\ closerLeases' \in [Closers -> SUBSET Leases]

LEMMA ShutdownFrame ==
  ASSUME TypeOK, NEW c \in Closers, Shutdown(c), ShutdownTypes,
         lease' \in [Leases -> {"none", "live", "revoked"}],
         cancelRequested' \in [Ops -> BOOLEAN],
         inbox' \in [Ops -> Seq({"create", "step", "cancel"})]
  PROVE  TypeOK'
<1>1. UNCHANGED <<slots, thread, ready, submitPc, cancelPc, late, future, taskVars>>
  BY Zenon DEF Shutdown
<1> QED BY <1>1 DEF TypeOK, ShutdownTypes, slots, taskVars, Refusing

LEMMA TypeShutdown ==
  ASSUME TypeOK, NEW c \in Closers, Shutdown(c)
  PROVE  TypeOK'
<1>0. /\ state \in {"NEW", "STARTING", "RUNNING"} \cup Refusing
      /\ stopPosted \in BOOLEAN
      /\ closerPc \in [Closers -> {"idle", "revoke", "stop", "join", "closed",
                                   "broken"}]
      /\ closerLeases \in [Closers -> SUBSET Leases]
      /\ lease \in [Leases -> {"none", "live", "revoked"}]
      /\ cancelRequested \in [Ops -> BOOLEAN]
      /\ inbox \in [Ops -> Seq({"create", "step", "cancel"})]
  BY DEF TypeOK
<1>1. CASE ShutdownBegin(c)
  <2>1. ShutdownTypes
    BY <1>0, <1>1 DEF ShutdownBegin, ShutdownTypes, CloserTo, Live, Refusing
  <2>2. UNCHANGED <<lease, cancelRequested, inbox>>
    BY <1>1 DEF ShutdownBegin
  <2> QED BY <1>0, <2>1, <2>2, ShutdownFrame
<1>2. CASE ShutdownRelease(c)
  <2>1. PICK l \in closerLeases[c] :
          Revoke(l) /\ closerLeases' = [closerLeases EXCEPT ![c] = @ \ {l}]
    BY <1>2 DEF ShutdownRelease
  <2>2. l \in Leases
    BY <1>0, <2>1
  <2>3. closerLeases' \in [Closers -> SUBSET Leases]
    BY <1>0, <2>1
  <2>4. UNCHANGED <<state, stopPosted, closerPc>>
    BY <1>2 DEF ShutdownRelease
  <2>5. ShutdownTypes
    BY <1>0, <2>3, <2>4 DEF ShutdownTypes
  <2> QED BY <2>1, <2>2, <2>5, RevokeType, ShutdownFrame
<1>3. CASE ShutdownWait(c)
  <2>1. ShutdownTypes
    BY <1>0, <1>3 DEF ShutdownWait, ShutdownTypes, CloserTo, Refusing
  <2>2. UNCHANGED <<lease, cancelRequested, inbox>>
    BY <1>3 DEF ShutdownWait
  <2> QED BY <1>0, <2>1, <2>2, ShutdownFrame
<1>4. CASE ShutdownStop(c)
  <2>1. ShutdownTypes
    BY <1>0, <1>4 DEF ShutdownStop, ShutdownTypes, CloserTo, Refusing
  <2>2. UNCHANGED <<lease, cancelRequested, inbox>>
    BY <1>4 DEF ShutdownStop
  <2> QED BY <1>0, <2>1, <2>2, ShutdownFrame
<1>5. CASE ShutdownJoin(c)
  <2>1. ShutdownTypes
    BY <1>0, <1>5 DEF ShutdownJoin, ShutdownTypes, CloserTo, Refusing
  <2>2. UNCHANGED <<lease, cancelRequested, inbox>>
    BY <1>5 DEF ShutdownJoin
  <2> QED BY <1>0, <2>1, <2>2, ShutdownFrame
<1> QED BY <1>1, <1>2, <1>3, <1>4, <1>5 DEF Shutdown

LEMMA TypeStep ==
  ASSUME TypeOK, [Next]_vars
  PROVE  TypeOK'
<1>1. ASSUME NEW l \in Leases, Acquire(l) PROVE TypeOK'
  BY <1>1 DEF TypeOK, Acquire, slots, threadVars, callerVars, taskVars, closerVars
<1>2. ASSUME NEW l \in Leases, Release(l) PROVE TypeOK'
  BY <1>2, RevokeType
     DEF TypeOK, Release, slots, threadVars, taskVars, closerVars
<1>3. CASE UNCHANGED vars
  BY <1>3 DEF TypeOK, vars, slots, threadVars, callerVars, taskVars, closerVars
<1> QED BY <1>1, <1>2, <1>3, TypeSubmit, TypeHolder, TypeThread, TypeLoopStep,
           TypeShutdown DEF Next

LEMMA TypeInit == Init => TypeOK
<1> SUFFICES ASSUME Init PROVE TypeOK
  OBVIOUS
<1>1. inbox \in [Ops -> Seq({"create", "step", "cancel"})]
  BY DEF Init
<1>2. closerLeases \in [Closers -> SUBSET Leases]
  BY DEF Init
<1> QED BY <1>1, <1>2, OpsAssumption DEF Init, TypeOK, Stages, Refusing

\* Every variable keeps its type, for any number of threads and any limits.
THEOREM TypeCorrect == Spec => []TypeOK
<1>1. Init => TypeOK BY TypeInit
<1>2. TypeOK /\ [Next]_vars => TypeOK' BY TypeStep
<1> QED BY <1>1, <1>2, PTL DEF Spec

-----------------------------------------------------------------------------
(* The per-operation part of the inductive invariant: what try_submit, the  *)
(* loop and cancellation make of one operation.                             *)

OpInv(op) == SubmitInv(op) /\ Shape(op) /\ FutureInv(op)

Kinds == {"create", "step", "cancel"}

\* A step that leaves an operation's fields alone, and the loop's position
\* unless it is elsewhere before and after, keeps the operation's invariant.
SameFields(op) ==
  /\ inbox'[op] = inbox[op] /\ runner'[op] = runner[op]
  /\ work'[op] = work[op] /\ submitPc'[op] = submitPc[op]
  /\ cancelPc'[op] = cancelPc[op] /\ future'[op] = future[op]
  /\ (op \in operations') <=> (op \in operations)

Elsewhere(op) == \/ at' = at /\ on' = on
                 \/ on # op /\ on' # op

LEMMA Frame ==
  ASSUME NEW op \in Ops, OpInv(op), SameFields(op), Elsewhere(op)
  PROVE  OpInv(op)'
<1> USE DEF OpInv, SameFields, Elsewhere
<1>1. SubmitInv(op)'
  BY DEF SubmitInv, Submitting
<1>2. Shape(op)'
  BY DEF Shape, Working, OnlyCancels
<1>3. FutureInv(op)'
  BY DEF FutureInv, Unanswered
<1> QED BY <1>1, <1>2, <1>3

\* Queues that hold only cancellations from some place on.
LEMMA AppendCancel ==
  ASSUME NEW s \in Seq(Kinds), NEW k \in {1, 2}, OnlyCancels(s, k)
  PROVE  /\ OnlyCancels(Append(s, "cancel"), k)
         /\ Append(s, "cancel") # << >>
         /\ s # << >> => Append(s, "cancel")[1] = s[1]
BY DEF OnlyCancels, Kinds

LEMMA TailCancels ==
  ASSUME NEW s \in Seq(Kinds), s # << >>,
         OnlyCancels(s, 1) \/ OnlyCancels(s, 2)
  PROVE  OnlyCancels(Tail(s), 1)
<1> SUFFICES ASSUME NEW i \in 1..Len(Tail(s)) PROVE Tail(s)[i] = "cancel"
  BY DEF OnlyCancels
<1>1. Tail(s)[i] = s[i + 1] /\ i + 1 \in 2..Len(s)
  OBVIOUS
<1> QED BY <1>1 DEF OnlyCancels

LEMMA OnlyCancelsEmpty == OnlyCancels(<< >>, 1) /\ OnlyCancels(<<"step">>, 2)
BY DEF OnlyCancels

\* try_submit.
LEMMA OwnSubmit ==
  ASSUME TypeOK, NEW op \in Ops, OpInv(op), Submit(op)
  PROVE  OpInv(op)'
<1> USE DEF OpInv, GoSubmit
<1>1. /\ runner' = runner /\ work' = work /\ at' = at /\ on' = on
      /\ cancelPc' = cancelPc
  BY DEF Submit, taskVars
<1>2. submitPc[op] # "returned"
  BY DEF Submit, Admit, StartLoop, StartSeen, StartTimeout, StartBroken,
         StartFailed, ChargeTask, PostCreate
<1>3. /\ inbox[op] = << >> /\ runner[op] = "none" /\ work[op] = "none"
      /\ on # op /\ cancelPc[op] = "idle"
  BY <1>2 DEF SubmitInv
<1>4. CASE PostCreate(op)
  <2>1. /\ inbox'[op] = <<"create">> /\ submitPc'[op] = "returned"
        /\ op \in operations' /\ future' = future
    BY <1>3, <1>4 DEF PostCreate, TypeOK, SubmitInv, Submitting, slots
  <2>2. SubmitInv(op)'
    BY <2>1 DEF SubmitInv, Submitting
  <2>3. Shape(op)'
    BY <1>1, <1>3, <2>1 DEF Shape
  <2>4. FutureInv(op)'
    BY <1>1, <1>3, <2>1 DEF FutureInv, Unanswered
  <2> QED BY <2>2, <2>3, <2>4
<1>5. CASE ~PostCreate(op)
  <2>1. inbox' = inbox /\ submitPc'[op] \notin {"returned", "idle"}
    BY <1>5 DEF Submit, Admit, StartLoop, StartSeen, StartTimeout, StartBroken,
                StartFailed, ChargeTask, Refuse, TypeOK
  <2>2. /\ submitPc'[op] = "refused" => op \notin operations'
        /\ submitPc'[op] # "refused" => op \in operations'
    <3>1. CASE Refuse(op)
      BY <3>1 DEF Refuse, Finish, TypeOK, slots
    <3>2. CASE ~Refuse(op)
      BY <3>2, <1>5, <1>2
         DEF Submit, Admit, StartLoop, StartSeen, StartTimeout, StartBroken,
             StartFailed, ChargeTask, TypeOK, slots, SubmitInv, Submitting
    <3> QED BY <3>1, <3>2
  <2>3. future'[op] = "cancelled" => future[op] = "cancelled"
    BY <1>5 DEF Submit, Admit, StartLoop, StartSeen, StartTimeout, StartBroken,
                StartFailed, ChargeTask, Refuse, Answer, TypeOK
  <2>4. SubmitInv(op)'
    BY <1>1, <1>3, <2>1, <2>2 DEF SubmitInv, Submitting
  <2>5. Shape(op)'
    BY <1>1, <1>3, <2>1 DEF Shape
  <2>6. FutureInv(op)'
    BY <1>1, <1>3, <2>1, <2>3 DEF FutureInv, Unanswered
  <2> QED BY <2>4, <2>5, <2>6
<1> QED BY <1>4, <1>5

LEMMA OtherSubmit ==
  ASSUME TypeOK, NEW op \in Ops, Submit(op), NEW p \in Ops \ {op}
  PROVE  SameFields(p) /\ Elsewhere(p)
<1> USE DEF SameFields, Elsewhere, GoSubmit, slots, taskVars, TypeOK
<1>1. CASE Admit(op) \/ PostCreate(op)
  BY <1>1 DEF Submit, Admit, PostCreate
<1>2. CASE StartLoop(op) \/ StartSeen(op) \/ StartTimeout(op) \/ StartBroken(op)
  BY <1>2 DEF Submit, StartLoop, StartSeen, StartTimeout, StartBroken
<1>3. CASE StartFailed(op) \/ ChargeTask(op)
  BY <1>3 DEF Submit, StartFailed, ChargeTask, Refuse, Answer, Finish
<1> QED BY <1>1, <1>2, <1>3 DEF Submit

\* Cancellations scheduled by the holder, by release and by shutdown.
LEMMA PostCancelsOp ==
  ASSUME TypeOK, NEW op \in Ops, NEW targets, OpInv(op), PostCancels(targets),
         UNCHANGED <<runner, work, at, on, submitPc, future, operations>>,
         cancelPc'[op] = cancelPc[op] \/ submitPc[op] = "returned"
  PROVE  OpInv(op)'
<1>1. CASE inbox'[op] = inbox[op]
  <2>1. SubmitInv(op)'
    BY <1>1 DEF OpInv, SubmitInv, Submitting
  <2>2. Shape(op)'
    BY <1>1 DEF OpInv, Shape, Working, OnlyCancels
  <2>3. FutureInv(op)'
    BY DEF OpInv, FutureInv, Unanswered
  <2> QED BY <2>1, <2>2, <2>3 DEF OpInv
<1>2. CASE inbox'[op] # inbox[op]
  <2>1. /\ inbox'[op] = Append(inbox[op], "cancel")
        /\ runner[op] \in {"stored", "waiting", "lost"}
    BY <1>2 DEF PostCancels, CanPostCancel
  <2>2. inbox[op] \in Seq(Kinds)
    BY DEF TypeOK, Kinds
  <2>3. SubmitInv(op)'
    BY <2>1 DEF OpInv, SubmitInv, Submitting
  <2>4. FutureInv(op)'
    BY DEF OpInv, FutureInv, Unanswered
  <2>5. CASE runner[op] = "stored"
    <3>1. /\ OnlyCancels(inbox[op], 2)
          /\ inbox[op] # << >> /\ inbox[op][1] = "step"
      BY <2>5 DEF OpInv, Shape
    <3>2. /\ OnlyCancels(inbox'[op], 2)
          /\ inbox'[op] # << >> /\ inbox'[op][1] = "step"
      BY <2>1, <2>2, <3>1, AppendCancel
    <3>3. OnlyCancels(inbox[op], 2)'
      BY <3>2 DEF OnlyCancels
    <3>4. Shape(op)'
      BY <2>5, <3>2, <3>3 DEF OpInv, Shape
    <3> QED BY <2>3, <2>4, <3>4 DEF OpInv
  <2>6. CASE runner[op] = "waiting"
    <3>1. OnlyCancels(inbox[op], 1)
      BY <2>6 DEF OpInv, Shape
    <3>2. OnlyCancels(inbox'[op], 1)
      BY <2>1, <2>2, <3>1, AppendCancel
    <3>3. OnlyCancels(inbox[op], 1)'
      BY <3>2 DEF OnlyCancels
    <3>4. Shape(op)'
      BY <2>6, <3>3 DEF OpInv, Shape, Working
    <3> QED BY <2>3, <2>4, <3>4 DEF OpInv
  <2> QED BY <2>1, <2>5, <2>6 DEF OpInv, Shape
<1> QED BY <1>1, <1>2

LEMMA OwnHolder ==
  ASSUME TypeOK, NEW op \in Ops, NEW p \in Ops, OpInv(p), Holder(op)
  PROVE  OpInv(p)'
<1>1. UNCHANGED <<runner, work, at, on, submitPc, operations>>
  BY DEF Holder, slots, taskVars
<1>2. CASE ScheduleCancel(op)
  <2>1. PostCancels({op}) /\ future' = future
    BY <1>2 DEF ScheduleCancel
  <2>2. cancelPc'[p] = cancelPc[p] \/ (p = op /\ submitPc[p] = "returned")
    BY <1>2 DEF ScheduleCancel, TypeOK, OpInv, SubmitInv
  <2> QED BY <1>1, <2>1, <2>2, PostCancelsOp
<1>3. CASE ~ScheduleCancel(op)
  <2>1. inbox' = inbox
    BY <1>3 DEF Holder, RequestCancel, CancelFuture, Expire
  <2>2. cancelPc'[p] = cancelPc[p] \/ submitPc[p] = "returned"
    BY <1>3 DEF Holder, RequestCancel, CancelFuture, Expire, TypeOK
  <2>3. \/ future'[p] = future[p]
        \/ future'[p] = "cancelled" /\ p \in AsyncOps
    BY <1>3 DEF Holder, RequestCancel, CancelFuture, Expire, Answer, TypeOK
  <2>4. SubmitInv(p)'
    BY <1>1, <2>1, <2>2 DEF OpInv, SubmitInv, Submitting
  <2>5. Shape(p)'
    BY <1>1, <2>1 DEF OpInv, Shape, Working, OnlyCancels
  <2>6. FutureInv(p)'
    BY <1>1, <2>3 DEF OpInv, FutureInv, Unanswered
  <2> QED BY <2>4, <2>5, <2>6 DEF OpInv
<1> QED BY <1>2, <1>3

\* What the head of an operation's queue says about its task.
LEMMA HeadCreate ==
  ASSUME TypeOK, NEW op \in Ops, OpInv(op), Callback("create", op)
  PROVE  /\ runner[op] = "none" /\ inbox[op] = <<"create">>
         /\ work[op] = "none" /\ op \in operations
         /\ submitPc[op] = "returned" /\ at = "idle" /\ on = NoOp
<1>1. inbox[op] # << >> /\ inbox[op][1] = "create" /\ Len(inbox[op]) \in Nat \ {0}
  BY DEF Callback, TypeOK
<1>2. at = "idle" /\ on = NoOp
  BY DEF Callback, LoopFree, TypeOK
<1>3. ~OnlyCancels(inbox[op], 1)
  BY <1>1 DEF OnlyCancels
<1>4. runner[op] = "none"
  BY <1>1, <1>3 DEF OpInv, Shape
<1> QED BY <1>1, <1>2, <1>4 DEF OpInv, Shape, SubmitInv

LEMMA HeadStep ==
  ASSUME TypeOK, NEW op \in Ops, OpInv(op), Callback("step", op)
  PROVE  /\ runner[op] = "stored" /\ OnlyCancels(Tail(inbox[op]), 1)
         /\ work[op] = "none" /\ op \in operations
         /\ submitPc[op] = "returned" /\ at = "idle" /\ on = NoOp
<1>1. inbox[op] # << >> /\ inbox[op][1] = "step" /\ Len(inbox[op]) \in Nat \ {0}
  BY DEF Callback, TypeOK
<1>2. at = "idle" /\ on = NoOp
  BY DEF Callback, LoopFree, TypeOK
<1>3. ~OnlyCancels(inbox[op], 1)
  BY <1>1 DEF OnlyCancels
<1>4. runner[op] = "stored"
  BY <1>1, <1>2, <1>3 DEF OpInv, Shape
<1>5. OnlyCancels(inbox[op], 2) /\ inbox[op] \in Seq(Kinds)
  BY <1>4 DEF OpInv, Shape, TypeOK, Kinds
<1>6. OnlyCancels(Tail(inbox[op]), 1)
  BY <1>1, <1>5, TailCancels
<1> QED BY <1>1, <1>2, <1>4, <1>6 DEF OpInv, Shape, SubmitInv

LEMMA HeadCancel ==
  ASSUME TypeOK, NEW op \in Ops, OpInv(op), Callback("cancel", op)
  PROVE  /\ runner[op] \in {"waiting", "done"}
         /\ OnlyCancels(Tail(inbox[op]), 1)
         /\ submitPc[op] = "returned" /\ at = "idle" /\ on = NoOp
<1>1. inbox[op] # << >> /\ inbox[op][1] = "cancel" /\ Len(inbox[op]) \in Nat \ {0}
  BY DEF Callback, TypeOK
<1>2. at = "idle" /\ on = NoOp
  BY DEF Callback, LoopFree, TypeOK
<1>3. runner[op] \in {"waiting", "done"}
  BY <1>1, <1>2 DEF OpInv, Shape
<1>4. OnlyCancels(inbox[op], 1) /\ inbox[op] \in Seq(Kinds)
  BY <1>3 DEF OpInv, Shape, TypeOK, Kinds
<1>5. OnlyCancels(Tail(inbox[op]), 1)
  BY <1>1, <1>4, TailCancels
<1> QED BY <1>1, <1>2, <1>3, <1>5 DEF OpInv, SubmitInv

\* The callbacks of the loop, for the operation they run for.
LEMMA OwnCreate ==
  ASSUME TypeOK, NEW op \in Ops, OpInv(op), LoopStep(op),
         CreateTask(op) \/ StoreTask(op) \/ Abandon(op) \/ AbandonSet(op)
  PROVE  OpInv(op)'
<1>1. /\ submitPc' = submitPc /\ cancelPc' = cancelPc
      /\ operations' = operations /\ work' = work
  BY DEF LoopStep, CreateTask, StoreTask, Abandon, AbandonSet, slots, callerVars
<1> USE OpsAssumption
<1>2. CASE CreateTask(op)
  <2>1. /\ runner[op] = "none" /\ inbox[op] = <<"create">>
        /\ work[op] = "none" /\ op \in operations
        /\ submitPc[op] = "returned"
    BY <1>2, HeadCreate DEF CreateTask
  <2>2. future' = future /\ on' = op
    BY <1>2 DEF CreateTask, Goto
  <2>3. CASE at' = "abandon" /\ runner' = runner /\ inbox'[op] = << >>
    <3>1. SubmitInv(op)'
      BY <1>1, <2>1 DEF SubmitInv, Submitting
    <3>2. Shape(op)'
      BY <1>1, <2>1, <2>2, <2>3 DEF Shape
    <3>3. FutureInv(op)'
      BY <1>1, <2>1, <2>2, <2>3 DEF OpInv, FutureInv, Unanswered
    <3> QED BY <3>1, <3>2, <3>3 DEF OpInv
  <2>4. CASE at' = "store" /\ runner'[op] = "created" /\ inbox'[op] = <<"step">>
    <3>1. SubmitInv(op)'
      BY <1>1, <2>1 DEF SubmitInv, Submitting
    <3>2. Shape(op)'
      BY <1>1, <2>1, <2>2, <2>4 DEF Shape
    <3>3. FutureInv(op)'
      BY <1>1, <2>1, <2>2, <2>4 DEF OpInv, FutureInv, Unanswered
    <3> QED BY <3>1, <3>2, <3>3 DEF OpInv
  <2>5. CASE Doomed(op)
    BY <1>2, <2>1, <2>3, <2>5 DEF CreateTask, Goto, TypeOK
  <2>6. CASE ~Doomed(op)
    BY <1>2, <2>1, <2>4, <2>6 DEF CreateTask, Goto, TypeOK
  <2> QED BY <2>5, <2>6
<1>3. CASE StoreTask(op)
  <2>1. on = op /\ at = "store" /\ runner[op] = "created"
    BY <1>3 DEF StoreTask, AtStage, OpInv, Shape
  <2>2. /\ inbox[op] = <<"step">> /\ work[op] = "none" /\ op \in operations
        /\ submitPc[op] = "returned"
    BY <2>1 DEF OpInv, Shape, SubmitInv
  <2>3. /\ runner'[op] = "stored" /\ inbox' = inbox /\ future' = future
        /\ on' # op /\ at' = "idle"
    BY <1>3 DEF StoreTask, Return, TypeOK
  <2>4. SubmitInv(op)'
    BY <1>1, <2>2 DEF SubmitInv, Submitting
  <2>5. OnlyCancels(inbox[op], 2)'
    BY <2>2, <2>3 DEF OnlyCancels
  <2>6. inbox'[op] # << >> /\ inbox'[op][1] = "step"
    <3>1. inbox'[op] = <<"step">>
      BY <2>2, <2>3
    <3>2. <<"step">> # << >> /\ <<"step">>[1] = "step"
      OBVIOUS
    <3> QED BY <3>1, <3>2, Zenon
  <2>7. Shape(op)'
    BY <1>1, <2>2, <2>3, <2>5, <2>6, inbox'[op] = <<"step">> DEF Shape
  <2>8. FutureInv(op)'
    BY <1>1, <2>2, <2>3 DEF OpInv, FutureInv, Unanswered
  <2> QED BY <2>4, <2>7, <2>8 DEF OpInv
<1>4. CASE Abandon(op) \/ AbandonSet(op)
  <2>1. on = op /\ at \in {"abandon", "abandonSet"}
    BY <1>4 DEF Abandon, AbandonSet, AtStage
  <2>2. /\ runner[op] = "none" /\ work[op] = "none"
        /\ inbox[op] = << >> /\ submitPc[op] = "returned"
    BY <2>1 DEF OpInv, Shape, SubmitInv
  <2>3. runner' = runner /\ inbox' = inbox
    BY <1>4 DEF Abandon, AbandonSet
  <2>4. SubmitInv(op)'
    BY <1>1, <2>2 DEF OpInv, SubmitInv, Submitting
  <2>5. /\ on' = op /\ at' \in {"abandonSet", "finish"}
        /\ at' = "abandonSet" => future'[op] = "pending"
        /\ at' = "finish" => future'[op] # "pending"
        \/ /\ on' # op /\ op \in AsyncOps
    <3>1. CASE Abandon(op)
      BY <2>1, <3>1 DEF Abandon, Goto, Unanswered
    <3>2. CASE AbandonSet(op) /\ Unanswered(op)
      BY <3>2 DEF AbandonSet, Goto, Answer, Unanswered, TypeOK
    <3>3. CASE AbandonSet(op) /\ ~Unanswered(op)
      <4>1. at = "abandonSet"
        BY <3>3 DEF AbandonSet, AtStage
      <4> QED BY <2>1, <3>3, <4>1 DEF AbandonSet, Return, OpInv, FutureInv
    <3> QED BY <1>4, <3>1, <3>2, <3>3
  <2>6. future'[op] \in {future[op], "unavailable"}
    BY <1>4 DEF Abandon, AbandonSet, Answer, TypeOK
  <2>7. Shape(op)'
    BY <1>1, <2>2, <2>3, <2>5 DEF Shape
  <2>8. FutureInv(op)'
    BY <1>1, <2>5, <2>6 DEF OpInv, FutureInv, Unanswered
  <2> QED BY <2>4, <2>7, <2>8 DEF OpInv
<1> QED BY <1>2, <1>3, <1>4

LEMMA OwnRun ==
  ASSUME TypeOK, NEW op \in Ops, OpInv(op), LoopStep(op),
         RunnerStart(op) \/ WorkEnds(op) \/ TimerFires(op) \/ TaskCancel(op)
  PROVE  OpInv(op)'
<1>1. /\ submitPc' = submitPc /\ cancelPc' = cancelPc
      /\ operations' = operations /\ future' = future
  BY DEF LoopStep, RunnerStart, WorkEnds, TimerFires, TaskCancel, slots, callerVars
<1>2. at = "idle" /\ on = NoOp /\ on # op
  BY OpsAssumption
     DEF RunnerStart, WorkEnds, TimerFires, TaskCancel, Callback, LoopFree, TypeOK
<1>3. \/ at' = at /\ on' = on
      \/ on' = op /\ at' \in {"check", "unavailable"}
  BY DEF RunnerStart, WorkEnds, TimerFires, TaskCancel, Goto
<1>4. FutureInv(op)'
  BY <1>1, <1>2, <1>3 DEF OpInv, FutureInv, Unanswered
<1>5. CASE RunnerStart(op)
  <2>1. /\ runner[op] = "stored" /\ OnlyCancels(Tail(inbox[op]), 1)
        /\ op \in operations /\ submitPc[op] = "returned" /\ work[op] = "none"
    BY <1>5, HeadStep DEF RunnerStart
  <2>2. runner'[op] = "waiting" /\ inbox'[op] = Tail(inbox[op])
    BY <1>5 DEF RunnerStart, TypeOK
  <2>3. OnlyCancels(inbox[op], 1)'
    BY <2>1, <2>2 DEF OnlyCancels
  <2>4. \/ work'[op] \in {"none", "over"} /\ on' = op
        \/ work'[op] = "running" /\ on' # op
    BY <1>2, <1>5, <2>1 DEF RunnerStart, Goto, TypeOK
  <2>5. SubmitInv(op)'
    BY <1>1, <2>1 DEF SubmitInv, Submitting
  <2>6. Shape(op)'
    BY <1>1, <1>2, <1>3, <2>1, <2>2, <2>3, <2>4 DEF Shape, Working
  <2> QED BY <1>4, <2>5, <2>6 DEF OpInv
<1>6. CASE WorkEnds(op)
  <2>1. /\ Working(op) /\ runner' = runner /\ inbox' = inbox
        /\ work'[op] = "over"
    BY <1>6 DEF WorkEnds, Working, TypeOK
  <2>2. runner[op] \in {"waiting", "done"} /\ submitPc[op] = "returned"
    BY <2>1 DEF OpInv, Shape, SubmitInv, Working
  <2>3. IF runner[op] = "waiting" THEN on' = op ELSE on' # op
    BY <1>2, <1>6 DEF WorkEnds, Goto
  <2>4. SubmitInv(op)'
    BY <1>1, <2>2 DEF OpInv, SubmitInv, Submitting
  <2>5. Shape(op)'
    BY <1>1, <1>2, <1>3, <2>1, <2>2, <2>3 DEF OpInv, Shape, Working, OnlyCancels
  <2> QED BY <1>4, <2>4, <2>5 DEF OpInv
<1>7. CASE TimerFires(op)
  <2>1. /\ runner[op] = "waiting" /\ runner' = runner /\ inbox' = inbox
        /\ work'[op] = "cleanup" /\ on' # op /\ Working(op)
    BY <1>2, <1>7 DEF TimerFires, Working, TypeOK
  <2>2. submitPc[op] = "returned"
    BY <2>1 DEF OpInv, SubmitInv
  <2>3. SubmitInv(op)'
    BY <1>1, <2>2 DEF OpInv, SubmitInv, Submitting
  <2>4. Shape(op)'
    BY <1>1, <2>1 DEF OpInv, Shape, Working, OnlyCancels
  <2> QED BY <1>4, <2>3, <2>4 DEF OpInv
<1>8. CASE TaskCancel(op)
  <2>1. /\ runner[op] \in {"waiting", "done"} /\ submitPc[op] = "returned"
        /\ OnlyCancels(Tail(inbox[op]), 1)
    BY <1>8, HeadCancel DEF TaskCancel
  <2>2. runner' = runner /\ inbox'[op] = Tail(inbox[op])
    BY <1>8, <2>1 DEF TaskCancel, TypeOK
  <2>3. OnlyCancels(inbox[op], 1)'
    BY <2>1, <2>2 DEF OnlyCancels
  <2>4. (work'[op] \in {"running", "cleanup"}) <=> Working(op)
    BY <1>8 DEF TaskCancel, TypeOK, Working
  <2>5. on' = op => InnerTask /\ runner[op] = "waiting"
    BY <1>2, <1>8 DEF TaskCancel, Goto
  <2>6. SubmitInv(op)'
    BY <1>1, <2>1 DEF OpInv, SubmitInv, Submitting
  <2>7. Shape(op)'
    BY <1>1, <1>2, <1>3, <2>1, <2>2, <2>3, <2>4, <2>5 DEF OpInv, Shape, Working
  <2> QED BY <1>4, <2>6, <2>7 DEF OpInv
<1> QED BY <1>5, <1>6, <1>7, <1>8

LEMMA OwnAnswer ==
  ASSUME TypeOK, NEW op \in Ops, OpInv(op), LoopStep(op),
         Check(op) \/ Deliver(op) \/ FinishOp(op)
  PROVE  OpInv(op)'
<1>1. /\ submitPc' = submitPc /\ cancelPc' = cancelPc
      /\ inbox' = inbox /\ work' = work
  BY DEF LoopStep, Check, Deliver, FinishOp, callerVars
<1>2. on = op /\ submitPc[op] = "returned"
  BY DEF Check, Deliver, FinishOp, AtStage, OpInv, SubmitInv
<1>3. CASE Check(op) \/ Deliver(op)
  <2>1. runner[op] = "waiting" /\ runner' = runner /\ operations' = operations
    BY <1>2, <1>3 DEF Check, Deliver, AtStage, OpInv, Shape, slots
  <2>2. /\ on' = op /\ at' \in {"deliver", "unavailable", "finish"}
        /\ at' = "finish" => future'[op] # "pending"
        /\ future'[op] = "cancelled" => future[op] = "cancelled"
    BY <1>3 DEF Check, Deliver, Goto, Answer, TypeOK
  <2>3. SubmitInv(op)'
    BY <1>1, <1>2, <2>1 DEF OpInv, SubmitInv, Submitting
  <2>4. Shape(op)'
    BY <1>1, <1>2, <2>1, <2>2 DEF OpInv, Shape, Working, OnlyCancels
  <2>5. op \in operations
    BY <2>1 DEF OpInv, Shape
  <2>6. FutureInv(op)'
    BY <2>1, <2>2, <2>5 DEF OpInv, FutureInv, Unanswered
  <2> QED BY <2>3, <2>4, <2>6 DEF OpInv
<1>4. CASE FinishOp(op)
  <2>1. at = "finish" /\ runner[op] \in {"none", "waiting"} /\ ~Unanswered(op)
    BY <1>2, <1>4 DEF FinishOp, AtStage, OpInv, Shape, FutureInv
  <2>2. op \notin operations' /\ future' = future
    BY <1>4 DEF FinishOp, Finish, TypeOK, slots
  <2>3. on' = NoOp /\ at' = "idle" /\ on' # op
    BY <1>4, OpsAssumption DEF FinishOp, Return
  <2>4. runner'[op] = IF runner[op] = "waiting" THEN "done" ELSE runner[op]
    BY <1>4 DEF FinishOp, TypeOK
  <2>5. SubmitInv(op)'
    BY <1>1, <1>2, <2>2 DEF SubmitInv, Submitting
  <2>6. Shape(op)'
    BY <1>1, <1>2, <2>1, <2>2, <2>3, <2>4 DEF OpInv, Shape, Working, OnlyCancels
  <2>7. FutureInv(op)'
    BY <2>1, <2>2, <2>3 DEF OpInv, FutureInv, Unanswered
  <2> QED BY <2>5, <2>6, <2>7 DEF OpInv
<1> QED BY <1>3, <1>4

\* ... and for the others: the loop is at most at `op', before and after.
LEMMA OtherLoopStep ==
  ASSUME TypeOK, NEW op \in Ops, LoopStep(op), NEW p \in Ops \ {op}
  PROVE  SameFields(p) /\ Elsewhere(p)
<1> USE OpsAssumption
    DEF SameFields, Elsewhere, slots, callerVars, TypeOK, Goto, Return, AtStage,
        Callback, LoopFree
<1>1. submitPc' = submitPc /\ cancelPc' = cancelPc
  BY DEF LoopStep
<1>2. CASE CreateTask(op) \/ StoreTask(op)
  BY <1>1, <1>2 DEF CreateTask, StoreTask
<1>3. CASE Abandon(op) \/ AbandonSet(op)
  BY <1>1, <1>3 DEF Abandon, AbandonSet, Answer
<1>4. CASE RunnerStart(op) \/ WorkEnds(op)
  BY <1>1, <1>4 DEF RunnerStart, WorkEnds
<1>5. CASE TimerFires(op) \/ TaskCancel(op)
  BY <1>1, <1>5 DEF TimerFires, TaskCancel
<1>6. CASE Check(op) \/ Deliver(op) \/ FinishOp(op)
  BY <1>1, <1>6 DEF Check, Deliver, FinishOp, Answer, Finish
<1> QED BY <1>2, <1>3, <1>4, <1>5, <1>6 DEF LoopStep

\* Release, by a runtime or by shutdown.
LEMMA RevokeOp ==
  ASSUME TypeOK, NEW op \in Ops, NEW l \in Leases, OpInv(op), Revoke(l),
         UNCHANGED <<runner, work, at, on, submitPc, cancelPc, future, operations>>
  PROVE  OpInv(op)'
<1>1. CASE lease[l] # "live"
  <2>1. inbox' = inbox
    BY <1>1 DEF Revoke
  <2>2. SameFields(op) /\ Elsewhere(op)
    BY <2>1 DEF SameFields, Elsewhere
  <2> QED BY <2>2, Frame
<1>2. CASE lease[l] = "live"
  <2>1. PostCancels({q \in operations : LeaseOf[q] = l})
    BY <1>2 DEF Revoke
  <2> QED BY <2>1, PostCancelsOp
<1> QED BY <1>1, <1>2

\* Every step of the broker keeps every operation's invariant.
LEMMA OpStep ==
  ASSUME TypeOK, ThreadInv, [Next]_vars, NEW op \in Ops, OpInv(op)
  PROVE  OpInv(op)'
<1>1. ASSUME NEW l \in Leases, Acquire(l) PROVE OpInv(op)'
  <2>1. SameFields(op) /\ Elsewhere(op)
    BY <1>1 DEF SameFields, Elsewhere, Acquire, slots, callerVars, taskVars
  <2> QED BY <2>1, Frame
<1>2. ASSUME NEW l \in Leases, Release(l) PROVE OpInv(op)'
  <2>1. UNCHANGED <<runner, work, at, on, submitPc, cancelPc, future, operations>>
    BY <1>2 DEF Release, slots, taskVars
  <2>2. Revoke(l)
    BY <1>2 DEF Release
  <2> QED BY <2>1, <2>2, RevokeOp
<1>3. ASSUME NEW q \in Ops, Submit(q) PROVE OpInv(op)'
  <2>1. CASE q = op
    BY <1>3, <2>1, OwnSubmit
  <2>2. CASE q # op
    BY <1>3, <2>2, OtherSubmit, Frame
  <2> QED BY <2>1, <2>2
<1>4. ASSUME NEW q \in Ops, Holder(q) PROVE OpInv(op)'
  BY <1>4, OwnHolder
<1>5. ASSUME NEW q \in Ops, LoopStep(q) PROVE OpInv(op)'
  <2>1. CASE q = op
    BY <1>5, <2>1, OwnCreate, OwnRun, OwnAnswer DEF LoopStep
  <2>2. CASE q # op
    BY <1>5, <2>2, OtherLoopStep, Frame
  <2> QED BY <2>1, <2>2
<1>6. CASE LoopThread
  <2>1. UNCHANGED <<runner, at, on, inbox, submitPc, cancelPc, future, operations>>
    BY <1>6 DEF LoopThread, slots, callerVars
  <2>2. CASE work'[op] = work[op]
    <3>1. SameFields(op) /\ Elsewhere(op)
      BY <2>1, <2>2 DEF SameFields, Elsewhere
    <3> QED BY <3>1, Frame
  <2>3. CASE work'[op] # work[op]
    <3>1. thread = "draining" /\ Working(op) /\ work'[op] = "over"
      BY <1>6, <2>3 DEF LoopThread, ThreadUp, ThreadFails, LoopStop, ThreadExit,
                        DrainAborted, TypeOK
    <3>2. op \notin operations
      BY <3>1 DEF ThreadInv
    <3>3. runner[op] = "done" /\ submitPc[op] = "returned"
      BY <3>1, <3>2 DEF OpInv, Shape, SubmitInv, Working
    <3>4. SubmitInv(op)'
      BY <2>1, <3>3 DEF OpInv, SubmitInv, Submitting
    <3>5. Shape(op)'
      BY <2>1, <3>1, <3>3 DEF OpInv, Shape, Working, OnlyCancels
    <3>6. FutureInv(op)'
      BY <2>1 DEF OpInv, FutureInv, Unanswered
    <3> QED BY <3>4, <3>5, <3>6 DEF OpInv
  <2> QED BY <2>2, <2>3
<1>7. ASSUME NEW c \in Closers, Shutdown(c) PROVE OpInv(op)'
  <2>1. UNCHANGED <<runner, work, at, on, submitPc, cancelPc, future, operations>>
    BY <1>7 DEF Shutdown, slots, taskVars
  <2>2. CASE ShutdownRelease(c)
    <3>1. PICK l \in closerLeases[c] : Revoke(l)
      BY <2>2 DEF ShutdownRelease
    <3>2. l \in Leases
      BY <3>1 DEF TypeOK
    <3> QED BY <2>1, <3>1, <3>2, RevokeOp
  <2>3. CASE ~ShutdownRelease(c)
    <3>1. inbox' = inbox
      BY <1>7, <2>3 DEF Shutdown, ShutdownBegin, ShutdownWait, ShutdownStop,
                        ShutdownJoin
    <3>2. SameFields(op) /\ Elsewhere(op)
      BY <2>1, <3>1 DEF SameFields, Elsewhere
    <3> QED BY <3>2, Frame
  <2> QED BY <2>2, <2>3
<1>8. CASE UNCHANGED vars
  <2>1. SameFields(op) /\ Elsewhere(op)
    BY <1>8 DEF SameFields, Elsewhere, vars, slots, callerVars, taskVars
  <2> QED BY <2>1, Frame
<1> QED BY <1>1, <1>2, <1>3, <1>4, <1>5, <1>6, <1>7, <1>8 DEF Next
=============================================================================
