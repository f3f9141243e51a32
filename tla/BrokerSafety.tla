---------------------------- MODULE BrokerSafety ----------------------------
(***************************************************************************)
(* IInv is an invariant of Broker; the safety properties and the           *)
(* implementation of BrokerService follow.                                 *)
(***************************************************************************)
EXTENDS BrokerProofs

\* Counting.
LEMMA CardAdd ==
  ASSUME NEW S, IsFiniteSet(S), NEW x, x \notin S
  PROVE  Cardinality(S \cup {x}) = Cardinality(S) + 1
BY FS_AddElement

LEMMA CardRemove ==
  ASSUME NEW S, IsFiniteSet(S), NEW x \in S
  PROVE  /\ Cardinality(S \ {x}) = Cardinality(S) - 1
         /\ Cardinality(S) \in Nat \ {0}
<1>1. Cardinality(S) \in Nat /\ (Cardinality(S) = 0 <=> S = {})
  BY FS_CardinalityType, FS_EmptySet
<1> QED BY <1>1, FS_RemoveElement

ChargedOps == {op \in operations : Charged(op)}

LEMMA FiniteSlots ==
  ASSUME TypeOK
  PROVE  /\ IsFiniteSet(operations) /\ IsFiniteSet(ChargedOps)
         /\ Cardinality(operations) \in Nat /\ Cardinality(ChargedOps) \in Nat
<1>1. IsFiniteSet(operations) /\ IsFiniteSet(ChargedOps)
  BY OpsAssumption, FS_Subset DEF TypeOK, ChargedOps
<1> QED BY <1>1, FS_CardinalityType

\* The counters follow the sets they count, through admission ...
LEMMA AccountingSubmit ==
  ASSUME TypeOK, Accounting, NEW op \in Ops, SubmitInv(op), Submit(op)
  PROVE  Accounting'
<1> DEFINE C == ChargedOps
<1>1. activeOperations = Cardinality(operations) /\ taskCount = Cardinality(C)
  BY DEF Accounting, ChargedOps
<1>2. SUFFICES /\ activeOperations' = Cardinality(operations')
               /\ activeOperations' <= MaxOps
               /\ taskCount' = Cardinality(C')
  BY DEF Accounting, ChargedOps
<1>3. CASE Admit(op)
  <2>1. op \notin operations /\ operations' = operations \cup {op}
    BY <1>3 DEF Admit, SubmitInv
  <2>2. C' = C
    BY <1>3, <2>1 DEF Admit, GoSubmit, ChargedOps, Charged, TypeOK
  <2>3. activeOperations' = activeOperations + 1 /\ taskCount' = taskCount
    BY <1>3 DEF Admit
  <2>4. activeOperations' <= MaxOps
    BY <1>3, <2>3, LimitsAssumption DEF Admit, TypeOK
  <2> QED BY <1>1, <2>1, <2>2, <2>3, <2>4, FiniteSlots, CardAdd
<1>4. CASE Refuse(op) /\ ~Charged(op) /\ op \in operations
  <2>1. /\ operations' = operations \ {op} /\ taskCount' = taskCount
        /\ activeOperations' = Decrement(activeOperations)
    BY <1>4 DEF Refuse, Finish
  <2>2. C' = C
    BY <1>4, <2>1 DEF Refuse, GoSubmit, ChargedOps, Charged, TypeOK
  <2>3. Cardinality(operations') = Cardinality(operations) - 1
        /\ Cardinality(operations) \in Nat \ {0}
    BY <1>4, <2>1, FiniteSlots, CardRemove
  <2>4. activeOperations' = activeOperations - 1
    BY <1>1, <2>1, <2>3 DEF Decrement
  <2> QED BY <1>1, <2>1, <2>2, <2>3, <2>4, LimitsAssumption DEF Accounting
<1>5. CASE ChargeTask(op) /\ ~Refuse(op)
  <2>1. /\ taskCount' = taskCount + 1 /\ submitPc' = [submitPc EXCEPT ![op] = "post"]
        /\ UNCHANGED <<operations, activeOperations>>
    BY <1>5 DEF ChargeTask, GoSubmit
  <2>2. op \in operations /\ ~Charged(op)
    BY <1>5 DEF ChargeTask, SubmitInv, Submitting, Charged
  <2>3. C' = C \cup {op} /\ op \notin C
    BY <2>1, <2>2 DEF ChargedOps, Charged, TypeOK
  <2> QED BY <1>1, <2>1, <2>3, FiniteSlots, CardAdd DEF Accounting
<1>6. CASE StartLoop(op) \/ StartSeen(op) \/ StartTimeout(op) \/ StartBroken(op)
           \/ PostCreate(op)
  <2>1. operations' = operations /\ activeOperations' = activeOperations
        /\ taskCount' = taskCount
    BY <1>6 DEF StartLoop, StartSeen, StartTimeout, StartBroken, PostCreate, slots
  <2>2. C' = C
    BY <1>6, <2>1 DEF StartLoop, StartSeen, StartTimeout, StartBroken, PostCreate,
                      GoSubmit, ChargedOps, Charged, TypeOK
  <2> QED BY <1>1, <2>1, <2>2 DEF Accounting
<1>7. ChargeTask(op) \/ StartFailed(op) => ~Charged(op) /\ op \in operations
  BY DEF ChargeTask, StartFailed, SubmitInv, Submitting, Charged
<1>8. CASE ChargeTask(op)
  BY <1>4, <1>5, <1>7, <1>8
<1>9. CASE StartFailed(op)
  BY <1>4, <1>7, <1>9 DEF StartFailed
<1> QED BY <1>3, <1>6, <1>8, <1>9 DEF Submit

\* ... and through _finish on the loop.
LEMMA AccountingLoopStep ==
  ASSUME TypeOK, Accounting, NEW op \in Ops, SubmitInv(op), LoopStep(op)
  PROVE  Accounting'
<1> DEFINE C == ChargedOps
<1>1. activeOperations = Cardinality(operations) /\ taskCount = Cardinality(C)
  BY DEF Accounting, ChargedOps
<1>2. submitPc' = submitPc
  BY DEF LoopStep, callerVars
<1>3. CASE UNCHANGED slots
  BY <1>2, <1>3 DEF Accounting, Charged, slots
<1>4. CASE FinishOp(op) /\ op \in operations
  <2>1. Charged(op)
    BY <1>4 DEF FinishOp, AtStage, SubmitInv, Charged
  <2>2. /\ operations' = operations \ {op}
        /\ activeOperations' = Decrement(activeOperations)
        /\ taskCount' = Decrement(taskCount)
    BY <1>4, <2>1 DEF FinishOp, Finish
  <2>3. C' = C \ {op} /\ op \in C
    BY <1>2, <1>4, <2>1, <2>2 DEF ChargedOps, Charged
  <2>4. /\ Cardinality(operations') = Cardinality(operations) - 1
        /\ Cardinality(operations) \in Nat \ {0}
        /\ Cardinality(C') = Cardinality(C) - 1 /\ Cardinality(C) \in Nat \ {0}
    BY <1>4, <2>2, <2>3, FiniteSlots, CardRemove
  <2>5. /\ activeOperations' = activeOperations - 1
        /\ taskCount' = taskCount - 1
    BY <1>1, <2>2, <2>4 DEF Decrement
  <2>6. activeOperations' <= MaxOps
    BY <1>1, <2>4, <2>5, LimitsAssumption DEF Accounting
  <2> QED BY <1>1, <2>4, <2>5, <2>6 DEF Accounting, ChargedOps
<1>5. CASE FinishOp(op) /\ op \notin operations
  BY <1>3, <1>5 DEF FinishOp, Finish
<1>6. FinishOp(op) \/ UNCHANGED slots
  BY DEF LoopStep, CreateTask, StoreTask, Abandon, AbandonSet, RunnerStart,
         WorkEnds, TimerFires, TaskCancel, Check, Deliver
<1> QED BY <1>3, <1>4, <1>5, <1>6

LEMMA AccountingStep ==
  ASSUME TypeOK, Accounting, \A op \in Ops : OpInv(op), [Next]_vars
  PROVE  Accounting'
<1>1. ASSUME UNCHANGED slots, UNCHANGED submitPc PROVE Accounting'
  BY <1>1 DEF Accounting, Charged, slots
<1>2. ASSUME NEW op \in Ops, Submit(op) PROVE Accounting'
  BY <1>2, AccountingSubmit DEF OpInv
<1>3. ASSUME NEW op \in Ops, LoopStep(op) PROVE Accounting'
  BY <1>3, AccountingLoopStep DEF OpInv
<1>4. ASSUME NEW op \in Ops, Holder(op) PROVE Accounting'
  BY <1>1, <1>4 DEF Holder
<1>5. ASSUME NEW l \in Leases, Acquire(l) \/ Release(l) PROVE Accounting'
  BY <1>1, <1>5 DEF Acquire, Release, callerVars
<1>6. CASE LoopThread
  BY <1>1, <1>6 DEF LoopThread, callerVars
<1>7. ASSUME NEW c \in Closers, Shutdown(c) PROVE Accounting'
  BY <1>1, <1>7 DEF Shutdown
<1>8. CASE UNCHANGED vars
  BY <1>1, <1>8 DEF vars, callerVars
<1> QED BY <1>2, <1>3, <1>4, <1>5, <1>6, <1>7, <1>8 DEF Next

-----------------------------------------------------------------------------
(* The thread, the state and shutdown.                                     *)

\* The admission counter is zero exactly when nothing is admitted.
LEMMA NoneActive ==
  ASSUME TypeOK, Accounting
  PROVE  activeOperations = 0 <=> operations = {}
BY FiniteSlots, FS_EmptySet DEF Accounting

Needs(op) == Working(op) \/ (op \in operations /\ Charged(op))

\* A step that leaves the thread, the state and the closers alone, admits
\* nothing once closed and needs the loop for nothing new keeps ThreadInv.
LEMMA ThreadFrame ==
  ASSUME TypeOK, ThreadInv,
         UNCHANGED <<threadVars, closerPc>>,
         state' = state \/ state' = "BROKEN",
         state \in Refusing => operations' \subseteq operations,
         at' # "idle" => at # "idle" \/ Loop,
         \A op \in Ops : Needs(op)' => Needs(op) \/ Loop
  PROVE  ThreadInv'
<1>1. Loop' = Loop /\ ThreadAlive' = ThreadAlive /\ stopPosted' = stopPosted
  BY DEF Loop, ThreadAlive, threadVars
<1>2. state' \in Refusing \/ state \notin Refusing
  BY DEF Refusing
<1> USE <1>1, <1>2 DEF ThreadInv, Needs, threadVars
<1>3. (state = "NEW" => thread = "none")'
  OBVIOUS
<1>4. (state = "CLOSED" => ~ThreadAlive)'
  OBVIOUS
<1>5. (at # "idle" => Loop)'
  OBVIOUS
<1>6. (\A op \in Ops : Working(op) \/ (op \in operations /\ Charged(op)) => Loop)'
  OBVIOUS
<1>7. (stopPosted => state \in Refusing /\ operations = {})'
  OBVIOUS
<1>8. (\A c \in Closers :
       /\ closerPc[c] = "revoke" => state \in Refusing
       /\ closerPc[c] \in {"stop", "join"} => state \in Refusing /\ operations = {}
       /\ closerPc[c] = "closed" => state \in Refusing /\ ~ThreadAlive)'
  OBVIOUS
<1> QED BY <1>3, <1>4, <1>5, <1>6, <1>7, <1>8

LEMMA ThreadSubmit ==
  ASSUME TypeOK, ThreadInv, NEW op \in Ops, OpInv(op), Submit(op)
  PROVE  ThreadInv'
<1> DEFINE Rest == \A p \in Ops \ {op} : Needs(p)' => Needs(p)
<1>1. UNCHANGED <<work, at, on, closerPc>>
  BY DEF Submit, taskVars, closerVars
<1>2. submitPc[op] # "returned" => ~Working(op)
  BY DEF OpInv, SubmitInv, Working
<1>3. CASE StartLoop(op) /\ thread' # thread
  <2>1. /\ state = "NEW" /\ state' = "STARTING" /\ thread' = "booting"
        /\ UNCHANGED <<operations, stopPosted>>
        /\ submitPc' = [submitPc EXCEPT ![op] = "waiting"]
    BY <1>3 DEF StartLoop, GoSubmit, slots
  <2>2. ~Loop /\ ~stopPosted /\ at = "idle"
    BY <2>1 DEF ThreadInv, Loop, Refusing
  <2>3. \A p \in Ops : ~Needs(p)'
    BY <1>1, <2>1, <2>2 DEF ThreadInv, Needs, Working, Charged, TypeOK
  <2>4. \A c \in Closers : closerPc[c] \notin {"revoke", "stop", "join", "closed"}
    BY <2>1 DEF ThreadInv, Refusing
  <2> QED BY <1>1, <2>1, <2>2, <2>3, <2>4 DEF ThreadInv, Needs
<1>4. CASE UNCHANGED threadVars
  <2>1. state' = state \/ state' = "BROKEN"
    BY <1>4 DEF Submit, Admit, StartLoop, StartSeen, StartTimeout, StartBroken,
                StartFailed, ChargeTask, PostCreate, threadVars, ThreadInv
  <2>2. state \in Refusing => operations' \subseteq operations
    BY DEF Submit, Admit, StartLoop, StartSeen, StartTimeout, StartBroken,
           StartFailed, ChargeTask, PostCreate, Refuse, Finish, slots
  <2>3. \A p \in Ops \ {op} : Needs(p)' => Needs(p)
    BY <1>1 DEF Submit, Admit, StartLoop, StartSeen, StartTimeout, StartBroken,
                StartFailed, ChargeTask, PostCreate, Refuse, Finish, slots,
                GoSubmit, Needs, Working, Charged, TypeOK
  <2>4. Needs(op)' => Needs(op) \/ Loop
    <3>1. CASE submitPc'[op] \notin {"post", "returned"}
      <4>1. submitPc[op] # "returned"
        BY <3>1 DEF Submit, Admit, StartLoop, StartSeen, StartTimeout,
                    StartBroken, StartFailed, ChargeTask, PostCreate
      <4> QED BY <1>1, <1>2, <3>1, <4>1 DEF Needs, Working, Charged
    <3>2. CASE submitPc'[op] \in {"post", "returned"}
      <4>1. \/ ChargeTask(op) /\ Loop
            \/ PostCreate(op)
        BY <3>2 DEF Submit, Admit, StartLoop, StartSeen, StartTimeout,
                    StartBroken, StartFailed, ChargeTask, Refuse, GoSubmit, TypeOK
      <4>2. PostCreate(op) => operations' = operations /\ Charged(op)
        BY DEF PostCreate, Charged, slots
      <4> QED BY <1>1, <4>1, <4>2 DEF Needs, Working, Charged
    <3> QED BY <3>1, <3>2
  <2>5. UNCHANGED <<threadVars, closerPc>>
    BY <1>1, <1>4
  <2>6. \A p \in Ops : Needs(p)' => Needs(p) \/ Loop
    BY <2>3, <2>4
  <2> QED BY <1>1, <2>1, <2>2, <2>5, <2>6, ThreadFrame
<1>5. CASE StartLoop(op) /\ thread' = thread /\ ~UNCHANGED threadVars
  <2>1. /\ state = "NEW" /\ state' = "BROKEN"
        /\ UNCHANGED <<operations, stopPosted, thread>>
        /\ submitPc' = [submitPc EXCEPT ![op] = "failed"]
    BY <1>5 DEF StartLoop, GoSubmit, slots, threadVars, ThreadInv
  <2>2. thread = "none" /\ at = "idle" /\ ~stopPosted
    BY <2>1 DEF ThreadInv, Loop, Refusing
  <2>3. \A p \in Ops : ~Needs(p)'
    BY <1>1, <2>1, <2>2 DEF ThreadInv, Needs, Working, Charged, TypeOK, Loop
  <2>4. \A c \in Closers : closerPc[c] \notin {"revoke", "stop", "join", "closed"}
    BY <2>1 DEF ThreadInv, Refusing
  <2> QED BY <1>1, <2>1, <2>2, <2>3, <2>4 DEF ThreadInv, Needs
<1>6. StartLoop(op) \/ UNCHANGED threadVars
  BY DEF Submit, Admit, StartSeen, StartTimeout, StartBroken, StartFailed,
         ChargeTask, PostCreate
<1> QED BY <1>3, <1>4, <1>5, <1>6

\* Whatever the loop thread does with an operation, it does with the loop open.
LEMMA LoopIsOpen ==
  ASSUME ThreadInv, NEW op \in Ops, LoopStep(op), TypeOK
  PROVE  Loop
<1>1. at # "idle" \/ LoopFree
  BY OpsAssumption
     DEF LoopStep, CreateTask, StoreTask, Abandon, AbandonSet, RunnerStart,
         WorkEnds, TimerFires, TaskCancel, Check, Deliver, FinishOp, AtStage,
         Callback, TypeOK
<1> QED BY <1>1 DEF ThreadInv, LoopFree

LEMMA ThreadLoopStep ==
  ASSUME TypeOK, ThreadInv, NEW op \in Ops, LoopStep(op)
  PROVE  ThreadInv'
<1>1. Loop
  BY LoopIsOpen
<1>2. UNCHANGED <<threadVars, closerPc>> /\ state' = state
  BY DEF LoopStep, closerVars
<1>3. operations' \subseteq operations
  BY DEF LoopStep, CreateTask, StoreTask, Abandon, AbandonSet, RunnerStart,
         WorkEnds, TimerFires, TaskCancel, Check, Deliver, FinishOp, Finish, slots
<1> QED BY <1>1, <1>2, <1>3, ThreadFrame

LEMMA ThreadLoopThread ==
  ASSUME TypeOK, ThreadInv, LoopThread
  PROVE  ThreadInv'
<1> USE DEF ThreadInv, LoopThread, slots, callerVars, closerVars, Working,
            Charged, Refusing
<1>1. CASE ThreadUp
  BY <1>1 DEF ThreadUp, Loop, ThreadAlive, TypeOK
<1>2. CASE ThreadFails
  BY <1>2 DEF ThreadFails, Loop, ThreadAlive
<1>3. CASE LoopStop
  BY <1>3 DEF LoopStop, Loop, ThreadAlive
<1>4. CASE ThreadExit
  <2>1. operations = {} /\ state' = state /\ thread' = "dead"
    BY <1>4 DEF ThreadExit
  <2>2. \A op \in Ops : ~Working(op)
    BY <1>4 DEF ThreadExit, Unfinished
  <2> QED BY <1>4, <2>1, <2>2 DEF ThreadExit, Loop, ThreadAlive
<1>5. CASE DrainAborted
  <2>1. \A op \in Ops : ~Working(op)'
    BY <1>5 DEF DrainAborted
  <2> QED BY <1>5, <2>1 DEF DrainAborted, Loop, ThreadAlive
<1> QED BY <1>1, <1>2, <1>3, <1>4, <1>5

LEMMA ThreadShutdown ==
  ASSUME TypeOK, Accounting, ThreadInv, NEW c \in Closers, Shutdown(c)
  PROVE  ThreadInv'
<1>1. /\ UNCHANGED <<operations, thread, ready, submitPc, work, at>>
      /\ Loop' = Loop /\ ThreadAlive' = ThreadAlive
      /\ \A op \in Ops : Needs(op)' = Needs(op)
  BY DEF Shutdown, slots, taskVars, Loop, ThreadAlive, Needs, Working, Charged
<1> USE <1>1 DEF Refusing, CloserTo, Needs
<1>2. CASE ShutdownBegin(c)
  <2>1. CASE state = "NEW"
    BY <1>2, <2>1 DEF ShutdownBegin, ThreadInv, TypeOK, ThreadAlive
  <2>2. CASE state \in {"CLOSED", "BROKEN"}
    BY <1>2, <2>2 DEF ShutdownBegin, ThreadInv, TypeOK
  <2>3. CASE state \notin {"NEW", "CLOSED", "BROKEN"}
    BY <1>2, <2>3 DEF ShutdownBegin, ThreadInv, TypeOK
  <2> QED BY <2>1, <2>2, <2>3
<1>3. CASE ShutdownRelease(c)
  BY <1>3 DEF ShutdownRelease, ThreadInv
<1>4. CASE ShutdownWait(c)
  BY <1>4, NoneActive DEF ShutdownWait, ThreadInv, TypeOK
<1>5. CASE ShutdownStop(c)
  BY <1>5 DEF ShutdownStop, ThreadInv, TypeOK
<1>6. CASE ShutdownJoin(c)
  BY <1>6 DEF ShutdownJoin, ThreadInv, TypeOK
<1> QED BY <1>2, <1>3, <1>4, <1>5, <1>6 DEF Shutdown

LEMMA ThreadStep ==
  ASSUME TypeOK, Accounting, ThreadInv, \A op \in Ops : OpInv(op), [Next]_vars
  PROVE  ThreadInv'
<1>1. ASSUME UNCHANGED <<state, threadVars, closerPc, operations, work, submitPc, at>>
      PROVE  ThreadInv'
  BY <1>1 DEF ThreadInv, threadVars, Loop, ThreadAlive, Working, Charged
<1>2. ASSUME NEW l \in Leases, Acquire(l) \/ Release(l) PROVE ThreadInv'
  BY <1>1, <1>2 DEF Acquire, Release, slots, callerVars, taskVars, closerVars
<1>3. ASSUME NEW op \in Ops, Holder(op) PROVE ThreadInv'
  BY <1>1, <1>3 DEF Holder, slots, taskVars, closerVars
<1>4. CASE UNCHANGED vars
  BY <1>1, <1>4 DEF vars, slots, callerVars, taskVars, closerVars
<1> QED BY <1>2, <1>3, <1>4, ThreadSubmit, ThreadLoopStep, ThreadLoopThread,
           ThreadShutdown DEF Next

-----------------------------------------------------------------------------
(* Cancellations are not lost.                                             *)

Exposed(op) == runner[op] = "waiting" /\ work[op] = "running"

CancelKept(op) == Doomed(op) /\ cancelPc[op] # "schedule" /\ Exposed(op)
                  => Queued(op, "cancel")

LEMMA QueuedAppend ==
  ASSUME NEW s \in Seq(Kinds)
  PROVE  \E i \in 1..Len(Append(s, "cancel")) : Append(s, "cancel")[i] = "cancel"
<1>1. Len(s) + 1 \in 1..Len(Append(s, "cancel"))
  OBVIOUS
<1>2. Append(s, "cancel")[Len(s) + 1] = "cancel"
  OBVIOUS
<1> QED BY <1>1, <1>2

\* Scheduling a cancellation reaches running work, and takes nothing back.
LEMMA CancelPosted ==
  ASSUME TypeOK, ThreadInv, NEW op \in Ops, NEW targets, PostCancels(targets),
         Exposed(op), op \in targets \/ Queued(op, "cancel")
  PROVE  Queued(op, "cancel")'
<1>1. Loop /\ CanPostCancel(op)
  BY DEF ThreadInv, Working, Exposed, CanPostCancel
<1>2. inbox[op] \in Seq(Kinds)
  BY DEF TypeOK, Kinds
<1>3. CASE op \in targets
  <2>1. inbox'[op] = Append(inbox[op], "cancel")
    BY <1>1, <1>3 DEF PostCancels
  <2> QED BY <1>2, <2>1, QueuedAppend DEF Queued
<1>4. CASE op \notin targets
  BY <1>4 DEF PostCancels, Queued
<1> QED BY <1>3, <1>4

LEMMA CancelRevoke ==
  ASSUME TypeOK, ThreadInv, NEW op \in Ops, OpInv(op), CancelKept(op),
         NEW l \in Leases, Revoke(l), UNCHANGED <<runner, work, cancelPc>>
  PROVE  CancelKept(op)'
<1> SUFFICES ASSUME Doomed(op)', cancelPc[op] # "schedule", Exposed(op)
             PROVE  Queued(op, "cancel")'
  BY DEF CancelKept, Exposed
<1>1. CASE lease[l] # "live"
  BY <1>1 DEF Revoke, Doomed, Queued, CancelKept
<1>2. CASE lease[l] = "live"
  <2> DEFINE hit == {q \in operations : LeaseOf[q] = l}
  <2>1. PostCancels(hit) /\ lease' = [lease EXCEPT ![l] = "revoked"]
    BY <1>2 DEF Revoke
  <2>2. cancelRequested' = [q \in Ops |-> q \in hit \/ cancelRequested[q]]
    BY <1>2, Zenon DEF Revoke
  <2>3. op \in operations
    BY DEF OpInv, Shape, Exposed
  <2>4. op \in hit \/ LeaseOf[op] # l
    BY <2>3
  <2>5. LeaseOf[op] # l => lease'[LeaseOf[op]] = lease[LeaseOf[op]]
    BY <2>1, OpsAssumption DEF TypeOK
  <2>6. cancelRequested'[op] => op \in hit \/ cancelRequested[op]
    BY <2>2, Zenon
  <2>7. op \in hit \/ Doomed(op)
    BY <2>4, <2>5, <2>6 DEF Doomed
  <2>8. op \in hit \/ Queued(op, "cancel")
    BY <2>7 DEF CancelKept
  <2> QED BY <2>1, <2>8, CancelPosted
<1> QED BY <1>1, <1>2

LEMMA CancelSame ==
  ASSUME NEW op \in Ops, CancelKept(op), Exposed(op)' => Exposed(op),
         cancelPc'[op] = cancelPc[op], inbox'[op] = inbox[op],
         UNCHANGED <<lease, cancelRequested>>
  PROVE  CancelKept(op)'
BY DEF CancelKept, Doomed, Queued

LEMMA CancelLoopStep ==
  ASSUME TypeOK, NEW op \in Ops, OpInv(op), CancelKept(op), NEW q \in Ops,
         LoopStep(q)
  PROVE  CancelKept(op)'
<1>1. UNCHANGED <<lease, cancelRequested, cancelPc>>
  BY DEF LoopStep, callerVars
<1>2. CASE q # op
  <2>1. SameFields(op)
    BY <1>2, OtherLoopStep
  <2> QED BY <1>1, <2>1, CancelSame DEF SameFields, Exposed
<1>3. CASE q = op /\ (CreateTask(op) \/ RunnerStart(op) \/ TaskCancel(op))
  <2>1. CASE CreateTask(op)
    <3>1. runner'[op] # "waiting"
      <4>1. runner[op] = "none"
        BY <2>1, HeadCreate DEF CreateTask
      <4>2. runner' = runner \/ runner' = [runner EXCEPT ![op] = "created"]
        BY <2>1, Zenon DEF CreateTask
      <4> QED BY <4>1, <4>2 DEF TypeOK
    <3> QED BY <3>1 DEF CancelKept, Exposed
  <2>2. CASE RunnerStart(op)
    <3>1. CASE Doomed(op)
      <4>1. work' = work /\ work[op] = "none"
        <5>1. work' = work
          BY <2>2, <3>1 DEF RunnerStart
        <5>2. runner[op] = "stored"
          BY <2>2, HeadStep DEF RunnerStart
        <5> QED BY <5>1, <5>2 DEF OpInv, Shape
      <4> QED BY <4>1 DEF CancelKept, Exposed
    <3>2. CASE ~Doomed(op)
      BY <1>1, <3>2 DEF CancelKept, Doomed
    <3> QED BY <3>1, <3>2
  <2>3. CASE TaskCancel(op)
    <3>1. ~Exposed(op)'
      <4>1. work' = [work EXCEPT ![op] = IF runner[op] = "waiting" /\ @ = "running"
                                         THEN "cleanup" ELSE @]
        BY <2>3 DEF TaskCancel
      <4>2. runner' = [runner EXCEPT ![op] = IF @ = "stored" THEN "lost" ELSE @]
        BY <2>3 DEF TaskCancel
      <4> QED BY <4>1, <4>2 DEF Exposed, TypeOK
    <3> QED BY <3>1 DEF CancelKept
  <2> QED BY <1>3, <2>1, <2>2, <2>3
<1>4. CASE q = op /\ ~(CreateTask(op) \/ RunnerStart(op) \/ TaskCancel(op))
  <2>1. inbox' = inbox
    BY <1>4 DEF LoopStep, StoreTask, Abandon, AbandonSet, WorkEnds, TimerFires,
                Check, Deliver, FinishOp
  <2>2. Exposed(op)' => Exposed(op)
    BY <1>4 DEF LoopStep, StoreTask, Abandon, AbandonSet, WorkEnds, TimerFires,
                Check, Deliver, FinishOp, Exposed, TypeOK
  <2> QED BY <1>1, <2>1, <2>2, CancelSame
<1> QED BY <1>2, <1>3, <1>4

LEMMA CancelHolder ==
  ASSUME TypeOK, ThreadInv, NEW op \in Ops, CancelKept(op), NEW q \in Ops, Holder(q)
  PROVE  CancelKept(op)'
<1>1. UNCHANGED <<runner, work, lease>>
  BY DEF Holder, taskVars
<1>2. CASE RequestCancel(q)
  BY <1>1, <1>2 DEF RequestCancel, CancelKept, Exposed, Doomed, Queued, TypeOK
<1>3. CASE ScheduleCancel(q)
  <2> SUFFICES ASSUME Doomed(op)', cancelPc'[op] # "schedule", Exposed(op)
               PROVE  Queued(op, "cancel")'
    BY <1>1 DEF CancelKept, Exposed
  <2>1. PostCancels({q}) /\ cancelRequested' = cancelRequested
    BY <1>3 DEF ScheduleCancel
  <2>2. op # q => cancelPc[op] # "schedule"
    BY <1>3 DEF ScheduleCancel, TypeOK
  <2>3. Doomed(op)
    BY <1>1, <2>1 DEF Doomed
  <2> QED BY <2>1, <2>2, <2>3, CancelPosted DEF CancelKept
<1>4. CASE CancelFuture(q) \/ Expire(q)
  <2>1. UNCHANGED <<cancelPc, cancelRequested, inbox>>
    BY <1>4 DEF CancelFuture, Expire
  <2> QED BY <1>1, <2>1, CancelSame DEF Exposed
<1> QED BY <1>2, <1>3, <1>4 DEF Holder

LEMMA CancelStep ==
  ASSUME TypeOK, ThreadInv, NEW op \in Ops, OpInv(op), CancelKept(op), [Next]_vars
  PROVE  CancelKept(op)'
<1>1. ASSUME NEW l \in Leases, Acquire(l) PROVE CancelKept(op)'
  <2>1. UNCHANGED <<cancelPc, cancelRequested, inbox, runner, work>>
    BY <1>1 DEF Acquire, callerVars, taskVars
  <2>2. Doomed(op)' => Doomed(op)
    BY <1>1, <2>1, OpsAssumption DEF Acquire, Doomed, TypeOK
  <2> QED BY <2>1, <2>2 DEF CancelKept, Exposed, Queued
<1>2. ASSUME NEW l \in Leases, Release(l) PROVE CancelKept(op)'
  BY <1>2, CancelRevoke DEF Release, taskVars
<1>3. ASSUME NEW q \in Ops, Submit(q) PROVE CancelKept(op)'
  <2>1. UNCHANGED <<cancelPc, cancelRequested, lease, runner, work>>
    BY <1>3 DEF Submit, taskVars
  <2>2. CASE inbox'[op] = inbox[op]
    BY <2>1, <2>2, CancelSame DEF Exposed
  <2>3. CASE inbox'[op] # inbox[op]
    <3>1. submitPc[op] # "returned"
      BY <1>3, <2>3 DEF Submit, Admit, StartLoop, StartSeen, StartTimeout,
                        StartBroken, StartFailed, ChargeTask, PostCreate, TypeOK
    <3>2. runner'[op] = "none"
      BY <2>1, <3>1 DEF OpInv, SubmitInv
    <3> QED BY <3>2 DEF CancelKept, Exposed
  <2> QED BY <2>2, <2>3
<1>4. CASE LoopThread
  <2>1. UNCHANGED <<lease, cancelPc, cancelRequested, inbox, runner>>
    BY <1>4 DEF LoopThread, callerVars
  <2>2. Exposed(op)' => Exposed(op)
    BY <1>4, <2>1 DEF LoopThread, ThreadUp, ThreadFails, LoopStop, ThreadExit,
                      DrainAborted, Exposed
  <2> QED BY <2>1, <2>2, CancelSame
<1>5. ASSUME NEW c \in Closers, Shutdown(c) PROVE CancelKept(op)'
  <2>1. UNCHANGED <<cancelPc, runner, work>>
    BY <1>5 DEF Shutdown, taskVars
  <2>2. CASE ShutdownRelease(c)
    <3>1. PICK l \in closerLeases[c] : Revoke(l)
      BY <2>2 DEF ShutdownRelease
    <3>2. l \in Leases
      BY <3>1 DEF TypeOK
    <3> QED BY <2>1, <3>1, <3>2, CancelRevoke
  <2>3. CASE ~ShutdownRelease(c)
    <3>1. UNCHANGED <<lease, cancelRequested, inbox>>
      BY <1>5, <2>3 DEF Shutdown, ShutdownBegin, ShutdownWait, ShutdownStop,
                        ShutdownJoin
    <3> QED BY <2>1, <3>1, CancelSame DEF Exposed
  <2> QED BY <2>2, <2>3
<1>6. CASE UNCHANGED vars
  BY <1>6, CancelSame DEF vars, callerVars, taskVars, Exposed
<1> QED BY <1>1, <1>2, <1>3, <1>4, <1>5, <1>6, CancelHolder, CancelLoopStep DEF Next

-----------------------------------------------------------------------------
(* The invariant, and what follows from it.                                *)

LEMMA InvInit == Init => IInv
<1> SUFFICES ASSUME Init PROVE IInv
  OBVIOUS
<1>1. TypeOK
  BY TypeInit
<1>2. Accounting
  <2>1. {op \in operations : Charged(op)} = {}
    BY DEF Init
  <2> QED BY <2>1, FS_EmptySet, LimitsAssumption DEF Init, Accounting
<1>3. ThreadInv
  BY DEF Init, ThreadInv, ThreadAlive, Working, Refusing
<1>4. ASSUME NEW op \in Ops PROVE SubmitInv(op) /\ Shape(op) /\ FutureInv(op)
  BY <1>4, OpsAssumption
     DEF Init, SubmitInv, Shape, FutureInv, Submitting, OnlyCancels, Unanswered,
         Working
<1>5. NoLostCancel
  BY DEF Init, NoLostCancel
<1> QED BY <1>1, <1>2, <1>3, <1>4, <1>5 DEF IInv

LEMMA InvStep == IInv /\ [Next]_vars => IInv'
<1> SUFFICES ASSUME IInv, [Next]_vars PROVE IInv'
  OBVIOUS
<1>1. TypeOK /\ Accounting /\ ThreadInv
  BY DEF IInv
<1>2. \A op \in Ops : OpInv(op) /\ CancelKept(op)
  BY DEF IInv, OpInv, NoLostCancel, CancelKept, Exposed
<1>3. TypeOK'
  BY <1>1, TypeStep
<1>4. Accounting'
  BY <1>1, <1>2, AccountingStep
<1>5. ThreadInv'
  BY <1>1, <1>2, ThreadStep
<1>6. \A op \in Ops : OpInv(op)'
  BY <1>1, <1>2, OpStep
<1>7. \A op \in Ops : CancelKept(op)'
  BY <1>1, <1>2, CancelStep
<1>8. NoLostCancel'
  BY <1>7 DEF NoLostCancel, CancelKept, Exposed
<1>9. \A op \in Ops : (SubmitInv(op) /\ Shape(op) /\ FutureInv(op))'
  BY <1>6 DEF OpInv
<1> QED BY <1>3, <1>4, <1>5, <1>8, <1>9 DEF IInv

\* The conjunction of the counters, the shape of every operation, the thread's
\* order and the cancellations is an invariant of the broker.
THEOREM Inductive == Spec => []IInv
BY InvInit, InvStep, PTL DEF Spec

\* The counters try_submit reads count what is admitted and charged, and the
\* admission bound is never passed.
THEOREM CountersAgree == Spec => []Accounting
<1>1. IInv => Accounting BY DEF IInv
<1> QED BY <1>1, Inductive, PTL

\* Every admitted operation whose holder does not cancel the concurrent future
\* has somebody left to call _finish.
THEOREM NoOrphanSlot == Spec => []SlotHasOwner
<1>1. IInv => SlotHasOwner
  <2> SUFFICES ASSUME IInv, NEW op \in operations \ AsyncOps PROVE Owned(op)
    BY DEF SlotHasOwner
  <2>1. op \in Ops /\ SubmitInv(op) /\ Shape(op) /\ TypeOK
    BY DEF IInv, TypeOK
  <2>2. CASE submitPc[op] # "returned"
    BY <2>1, <2>2 DEF SubmitInv, Submitting, Owned, TypeOK
  <2>3. CASE submitPc[op] = "returned" /\ runner[op] = "none"
    <3>1. inbox[op] = <<"create">> \/ on = op
      BY <2>1, <2>3 DEF Shape
    <3>2. inbox[op] = <<"create">> => Queued(op, "create")
      BY DEF Queued
    <3> QED BY <3>1, <3>2 DEF Owned
  <2>4. CASE runner[op] = "stored"
    <3>1. inbox[op] \in Seq(Kinds) /\ inbox[op] # << >> /\ inbox[op][1] = "step"
      BY <2>1, <2>4 DEF Shape, TypeOK, Kinds
    <3>2. 1 \in 1..Len(inbox[op])
      BY <3>1
    <3>3. Queued(op, "step")
      BY <3>1, <3>2 DEF Queued
    <3> QED BY <2>4, <3>3 DEF Owned
  <2>5. CASE runner[op] \in {"created", "waiting", "done"}
    BY <2>1, <2>5 DEF Shape, Owned
  <2> QED BY <2>1, <2>2, <2>3, <2>4, <2>5 DEF Shape
<1> QED BY <1>1, Inductive, PTL

\* An operation with a task slot finds its loop open.
THEOREM ChargedFindsLoop == Spec => []SlotHasLoop
<1>1. IInv => SlotHasLoop BY DEF IInv, SlotHasLoop, ThreadInv, TypeOK
<1> QED BY <1>1, Inductive, PTL

\* No cancellation is lost between create() and the canceller.
THEOREM CancelArrives == Spec => []NoLostCancel
<1>1. IInv => NoLostCancel BY DEF IInv
<1> QED BY <1>1, Inductive, PTL

\* A slot is given back only after its future is answered.
THEOREM AnsweredBeforeFreed == Spec => []FreedIsAnswered
<1>1. IInv => FreedIsAnswered BY DEF IInv, FreedIsAnswered, FutureInv
<1> QED BY <1>1, Inductive, PTL

\* After shutdown has returned "closed" nothing runs.
THEOREM QuietAfterClose == Spec => []ClosedIsQuiet
<1>1. IInv => ClosedIsQuiet
  BY DEF IInv, ThreadInv, ClosedIsQuiet, ThreadAlive, Loop, TypeOK
<1> QED BY <1>1, Inductive, PTL

\* Where wait_for runs the work in the runner's own task (CPython 3.12), work
\* never runs without its slots.
THEOREM WorkHoldsSlot ==
  ASSUME ~InnerTask
  PROVE  Spec => []SlotCoversWork
<1>1. IInv => SlotCoversWork
  BY DEF IInv, SlotCoversWork, SubmitInv, Shape, Working, Charged, TypeOK
<1> QED BY <1>1, Inductive, PTL

\* A closed or broken broker never serves again.
THEOREM StaysRefusing == Spec => NoResurrection
<1>1. [Next]_vars => (state \in Refusing => state' \in Refusing)
  <2> SUFFICES ASSUME [Next]_vars, state \in Refusing PROVE state' \in Refusing
    OBVIOUS
  <2> USE DEF Refusing
  <2>1. ASSUME NEW l \in Leases, Acquire(l) \/ Release(l) PROVE state' \in Refusing
    BY <2>1 DEF Acquire, Release
  <2>2. ASSUME NEW op \in Ops, Submit(op) PROVE state' \in Refusing
    BY <2>2 DEF Submit, Admit, StartLoop, StartSeen, StartTimeout, StartBroken,
                StartFailed, ChargeTask, PostCreate
  <2>3. ASSUME NEW op \in Ops, Holder(op) \/ LoopStep(op) PROVE state' \in Refusing
    BY <2>3 DEF Holder, LoopStep
  <2>4. CASE LoopThread
    BY <2>4 DEF LoopThread, ThreadUp, ThreadFails, LoopStop, ThreadExit,
                DrainAborted
  <2>5. ASSUME NEW c \in Closers, Shutdown(c) PROVE state' \in Refusing
    BY <2>5 DEF Shutdown, ShutdownBegin, ShutdownRelease, ShutdownWait,
                ShutdownStop, ShutdownJoin
  <2>6. CASE UNCHANGED vars
    BY <2>6 DEF vars
  <2> QED BY <2>1, <2>2, <2>3, <2>4, <2>5, <2>6 DEF Next
<1> QED BY <1>1, PTL DEF Spec, NoResurrection

\* Only an operation that is valid when its validity is decided is delivered.
THEOREM DeliversTheValid == Spec => NoDoomedDelivery
<1> DEFINE Fresh(op) == AtStage({"deliver"}, op)' /\ ~AtStage({"deliver"}, op)
                        => ~Doomed(op) /\ state \notin {"CLOSING", "CLOSED"}
<1>1. ASSUME TypeOK, [Next]_vars, NEW op \in Ops PROVE Fresh(op)
  <2>1. ASSUME UNCHANGED <<at, on>> PROVE Fresh(op)
    BY <2>1 DEF AtStage
  <2>2. ASSUME NEW q \in Ops, LoopStep(q) PROVE Fresh(op)
    <3>1. CASE Check(q)
      BY <3>1 DEF Check, Goto, AtStage
    <3>2. CASE ~Check(q)
      BY <2>2, <3>2
         DEF LoopStep, CreateTask, StoreTask, Abandon, AbandonSet, RunnerStart,
             WorkEnds, TimerFires, TaskCancel, Deliver, FinishOp, Goto, Return,
             AtStage
    <3> QED BY <3>1, <3>2
  <2>3. ASSUME NEW l \in Leases, Acquire(l) \/ Release(l) PROVE Fresh(op)
    BY <2>1, <2>3 DEF Acquire, Release, taskVars
  <2>4. ASSUME NEW q \in Ops, Submit(q) \/ Holder(q) PROVE Fresh(op)
    BY <2>1, <2>4 DEF Submit, Holder, taskVars
  <2>5. CASE LoopThread
    BY <2>1, <2>5 DEF LoopThread
  <2>6. ASSUME NEW c \in Closers, Shutdown(c) PROVE Fresh(op)
    BY <2>1, <2>6 DEF Shutdown, taskVars
  <2>7. CASE UNCHANGED vars
    BY <2>1, <2>7 DEF vars, taskVars
  <2> QED BY <1>1, <2>2, <2>3, <2>4, <2>5, <2>6, <2>7 DEF Next
<1>2. TypeOK /\ [Next]_vars => \A op \in Ops : Fresh(op)
  BY <1>1
<1> QED BY <1>2, TypeCorrect, PTL DEF Spec, NoDoomedDelivery

-----------------------------------------------------------------------------
(* The broker implements BrokerService: every step of it, on whatever      *)
(* thread, is a step of the service or none.  First what it does to slots  *)
(* and answers, which is BrokerAdmission; then the leases and cancellation.*)

\* A result is decided on only after the work.
Decided ==
  \A op \in Ops : AtStage({"check", "deliver"}, op) => work[op] = "over"

StageFn == [op \in Ops |-> StageOf(op)]

Known == IInv /\ Decided

LEMMA DecidedStep ==
  ASSUME TypeOK, Decided, [Next]_vars
  PROVE  Decided'
<1> USE DEF Decided, AtStage
<1>1. ASSUME NEW q \in Ops, LoopStep(q) PROVE Decided'
  <2>1. CASE CreateTask(q) \/ StoreTask(q) \/ Abandon(q) \/ AbandonSet(q)
             \/ Deliver(q) \/ FinishOp(q)
    BY <2>1 DEF CreateTask, StoreTask, Abandon, AbandonSet, Deliver, FinishOp,
                Goto, Return
  <2>2. CASE RunnerStart(q) \/ WorkEnds(q)
    BY <2>2, OpsAssumption
       DEF RunnerStart, WorkEnds, Callback, LoopFree, Goto, TypeOK
  <2>3. CASE TimerFires(q) \/ TaskCancel(q)
    BY <2>3 DEF TimerFires, TaskCancel, Callback, LoopFree, Goto, TypeOK
  <2>4. CASE Check(q)
    BY <2>4 DEF Check, AtStage, Goto
  <2> QED BY <1>1, <2>1, <2>2, <2>3, <2>4 DEF LoopStep
<1>2. CASE LoopThread
  BY <1>2 DEF LoopThread, ThreadUp, ThreadFails, LoopStop, ThreadExit,
              DrainAborted
<1>3. ASSUME UNCHANGED taskVars PROVE Decided'
  BY <1>3 DEF taskVars
<1>4. ASSUME NEW l \in Leases, Acquire(l) \/ Release(l) PROVE Decided'
  BY <1>3, <1>4 DEF Acquire, Release
<1>5. ASSUME NEW op \in Ops, Submit(op) \/ Holder(op) PROVE Decided'
  BY <1>3, <1>5 DEF Submit, Holder
<1>6. ASSUME NEW c \in Closers, Shutdown(c) PROVE Decided'
  BY <1>3, <1>6 DEF Shutdown
<1>7. CASE UNCHANGED vars
  BY <1>3, <1>7 DEF vars
<1> QED BY <1>1, <1>2, <1>4, <1>5, <1>6, <1>7 DEF Next

-----------------------------------------------------------------------------
(* Stages.                                                                 *)

LEMMA Stage ==
  ASSUME TypeOK, NEW op \in Ops, SubmitInv(op)
  PROVE  /\ submitPc[op] = "idle" <=> StageOf(op) = "new"
         /\ submitPc[op] # "idle" /\ op \notin operations <=> StageOf(op) = "free"
         /\ op \in operations /\ work[op] = "none" <=> StageOf(op) = "held"
         /\ op \in operations /\ Working(op) <=> StageOf(op) = "busy"
         /\ op \in operations /\ work[op] = "over" <=> StageOf(op) = "over"
<1>1. submitPc[op] = "idle" => op \notin operations
  BY DEF SubmitInv
<1>2. work[op] \in {"none", "running", "cleanup", "over"}
  BY DEF TypeOK
<1>3. CASE submitPc[op] = "idle"
  BY <1>1, <1>3 DEF StageOf
<1>4. CASE submitPc[op] # "idle" /\ op \notin operations
  BY <1>4 DEF StageOf
<1>5. CASE op \in operations /\ work[op] = "none"
  BY <1>1, <1>5 DEF StageOf, Working
<1>6. CASE op \in operations /\ Working(op)
  BY <1>1, <1>6 DEF StageOf, Working
<1>7. CASE op \in operations /\ work[op] = "over"
  BY <1>1, <1>7 DEF StageOf, Working
<1> QED BY <1>2, <1>3, <1>4, <1>5, <1>6, <1>7 DEF Working

\* Only op changes stage.
LEMMA OneStage ==
  ASSUME NEW op \in Ops, NEW s, StageOf(op)' = s,
         \A p \in Ops \ {op} : StageOf(p)' = StageOf(p)
  PROVE  StageFn' = [StageFn EXCEPT ![op] = s]
BY DEF StageFn

LEMMA SameStage ==
  ASSUME UNCHANGED <<operations, work>>,
         \A op \in Ops : submitPc'[op] = "idle" <=> submitPc[op] = "idle"
  PROVE  StageFn' = StageFn
<1>1. \A op \in Ops : StageOf(op)' = StageOf(op)
  BY DEF StageOf, Working
<1> QED BY <1>1 DEF StageFn

LEMMA HoldingIs ==
  ASSUME TypeOK, \A op \in Ops : SubmitInv(op)
  PROVE  Service!Holding = operations
<1>1. \A op \in Ops : StageOf(op) \in {"held", "busy", "over"} <=> op \in operations
  BY Stage DEF Working, TypeOK
<1> QED BY <1>1 DEF Service!Holding, TypeOK

\* What a step of the broker looks like to a holder of operations.
Abstractly == [Service!Next]_(Service!avars)

SameOpen == (state' \in Refusing) <=> (state \in Refusing)

\* A step that changes no stage and no answer closes the service or stutters.
LEMMA MayClose ==
  ASSUME future' = future, StageFn' = StageFn,
         state \in Refusing => state' \in Refusing
  PROVE  Abstractly
<1>1. CASE SameOpen
  BY <1>1 DEF Abstractly, Service!avars, StageFn, SameOpen
<1>2. CASE ~SameOpen
  <2>1. Service!Close
    BY <1>2 DEF Service!Close, StageFn, SameOpen
  <2> QED BY <2>1 DEF Abstractly, Service!Next
<1> QED BY <1>1, <1>2

\* A step of one operation of the service.
OneOp(op) ==
  \/ Service!Admit(op) \/ Service!Begin(op) \/ Service!End(op)
  \/ Service!Resolve(op) \/ Service!Free(op) \/ Service!Reject(op)

LEMMA OneOpSteps == ASSUME NEW op \in Ops, OneOp(op) PROVE Abstractly
BY DEF OneOp, Abstractly, Service!Next

LEMMA Moves ==
  ASSUME NEW op \in Ops, NEW s, StageOf(op)' = s,
         \A p \in Ops \ {op} : StageOf(p)' = StageOf(p)
  PROVE  Service!To(op, s)
BY OneStage DEF Service!To, StageFn

\* The four ways an admitted operation is answered and given back.
LEMMA Answered ==
  ASSUME TypeOK, NEW op \in Ops, op \in operations, SubmitInv(op),
         Unanswered(op), NEW a \in {"result", "unavailable", "cancelled"},
         Answer(op, a), StageFn' = StageFn, SameOpen,
         a = "result" => work[op] = "over",
         a = "unavailable" /\ Working(op) => InnerTask
  PROVE  Abstractly
<1>1. StageOf(op) \in {"held", "busy", "over"}
  BY Stage DEF TypeOK, Working
<1>2. op \in Service!Holding
  BY <1>1 DEF Service!Holding
<1>3. Service!Reply(op, a)
  BY DEF Service!Reply, Answer, Unanswered, TypeOK
<1>4. /\ a = "result" => StageOf(op) = "over"
      /\ a = "unavailable" /\ StageOf(op) = "busy" => InnerTask
  BY Stage DEF Working, TypeOK
<1>5. Service!Resolve(op)
  BY <1>2, <1>3, <1>4 DEF Service!Resolve, StageFn, SameOpen, Unanswered
<1> QED BY <1>5, OneOpSteps DEF OneOp

LEMMA GivenBack ==
  ASSUME TypeOK, NEW op \in Ops, op \in operations, SubmitInv(op),
         Working(op) => InnerTask, SameOpen, StageOf(op)' = "free",
         \A p \in Ops \ {op} : StageOf(p)' = StageOf(p),
         \/ ~Unanswered(op) /\ future' = future
         \/ Unanswered(op) /\ Answer(op, "unavailable") /\ work[op] = "none"
  PROVE  Abstractly
<1>1. /\ StageOf(op) \in {"held", "busy", "over"}
      /\ StageOf(op) = "busy" => InnerTask
      /\ work[op] = "none" => StageOf(op) = "held"
  BY Stage DEF TypeOK, Working
<1>2. Service!To(op, "free")
  BY Moves
<1>3. CASE ~Unanswered(op) /\ future' = future
  <2>1. Service!Free(op)
    BY <1>1, <1>2, <1>3
       DEF Service!Free, Service!Holding, StageFn, SameOpen, Unanswered
  <2> QED BY <2>1, OneOpSteps DEF OneOp
<1>4. CASE Unanswered(op) /\ Answer(op, "unavailable") /\ work[op] = "none"
  <2>1. Service!Reply(op, "unavailable")
    BY <1>4 DEF Service!Reply, Answer, Unanswered, TypeOK
  <2>2. Service!Reject(op)
    BY <1>1, <1>2, <1>4, <2>1 DEF Service!Reject, SameOpen, Unanswered
  <2> QED BY <2>2, OneOpSteps DEF OneOp
<1> QED BY <1>3, <1>4

LEMMA Kept ==
  ASSUME NEW p \in Ops, submitPc'[p] = submitPc[p], work'[p] = work[p],
         (p \in operations') <=> (p \in operations)
  PROVE  StageOf(p)' = StageOf(p)
BY DEF StageOf, Working

\* _finish gives back what it finds admitted.
LEMMA FinishGivesBack ==
  ASSUME TypeOK, NEW op \in Ops, op \in operations, SubmitInv(op),
         Working(op) => InnerTask, Finish(op), SameOpen, work' = work, submitPc'[op] # "idle",
         \A p \in Ops \ {op} : submitPc'[p] = submitPc[p],
         \/ ~Unanswered(op) /\ future' = future
         \/ Unanswered(op) /\ Answer(op, "unavailable") /\ work[op] = "none"
  PROVE  Abstractly
<1>1. operations' = operations \ {op}
  BY DEF Finish
<1>2. StageOf(op)' = "free"
  BY <1>1 DEF StageOf
<1>3. \A p \in Ops \ {op} : StageOf(p)' = StageOf(p)
  BY <1>1, Kept
<1> QED BY <1>2, <1>3, GivenBack

-----------------------------------------------------------------------------
(* try_submit and the holder.                                              *)

LEMMA AbsAdmit ==
  ASSUME Known, NEW op \in Ops, Submit(op), Admit(op)
  PROVE  Service!Admit(op)
<1>1. TypeOK /\ Accounting /\ \A p \in Ops : SubmitInv(p)
  BY DEF Known, IInv
<1> DEFINE Size == Service!Cardinality(Service!Holding)
<1>2. Size < MaxOps
  <2>1. Size = Cardinality(Service!Holding)
    BY Zenon DEF Service!Cardinality, Cardinality
  <2> QED BY <1>1, <2>1, HoldingIs DEF Admit, Accounting
<1>3. StageOf(op) = "new" /\ work[op] = "none"
  BY <1>1, Stage DEF Admit, SubmitInv
<1>4. /\ operations' = operations \cup {op} /\ work' = work /\ future' = future
      /\ state' = state /\ state \notin Refusing
      /\ submitPc'[op] \in {"start", "charge"}
      /\ \A p \in Ops \ {op} : submitPc'[p] = submitPc[p]
  BY <1>1 DEF Submit, Admit, GoSubmit, taskVars, TypeOK
<1>5. StageOf(op)' = "held"
  BY <1>3, <1>4 DEF StageOf, Working
<1>6. \A p \in Ops \ {op} : StageOf(p)' = StageOf(p)
  BY <1>4, Kept
<1> QED BY <1>2, <1>3, <1>4, <1>5, <1>6, Moves DEF Service!Admit

LEMMA AbsSubmit ==
  ASSUME Known, NEW op \in Ops, Submit(op)
  PROVE  Abstractly
<1>1. TypeOK /\ ThreadInv /\ SubmitInv(op)
  BY DEF Known, IInv
<1>2. work' = work
  BY DEF Submit, taskVars
<1>3. ~Admit(op) => submitPc[op] \notin {"idle", "returned"} /\ Submitting(op)
  BY DEF Submit, StartLoop, StartSeen, StartTimeout, StartBroken, StartFailed,
         ChargeTask, PostCreate, Submitting
<1>4. \A p \in Ops \ {op} : submitPc'[p] = submitPc[p]
  BY <1>1 DEF Submit, Admit, StartLoop, StartSeen, StartTimeout, StartBroken,
              StartFailed, ChargeTask, PostCreate, Refuse, GoSubmit, TypeOK
<1>5. CASE Admit(op)
  BY <1>5, AbsAdmit, OneOpSteps DEF OneOp
<1>6. CASE Refuse(op) /\ ~Admit(op)
  <2>1. Finish(op) /\ Answer(op, "unavailable") /\ submitPc'[op] = "refused"
    BY <1>1, <1>6 DEF Refuse, GoSubmit, TypeOK
  <2>2. op \in operations /\ work[op] = "none"
    BY <1>1, <1>3, <1>6 DEF SubmitInv
  <2>3. state' = state
    BY <1>1, <1>6, <2>1
       DEF Submit, StartLoop, StartSeen, StartTimeout, StartBroken, StartFailed,
           ChargeTask, PostCreate, GoSubmit, TypeOK, Refuse, Finish, slots
  <2>4. ~Unanswered(op) => future' = future
    BY <1>1, <2>1 DEF Answer, Unanswered, TypeOK
  <2> QED BY <1>1, <1>2, <1>4, <2>1, <2>2, <2>3, <2>4, FinishGivesBack
          DEF SameOpen, Working
<1>7. CASE ~Refuse(op) /\ ~Admit(op)
  <2>1. operations' = operations /\ future' = future
    BY <1>7 DEF Submit, StartLoop, StartSeen, StartTimeout, StartBroken,
                StartFailed, ChargeTask, PostCreate, slots
  <2>2. submitPc'[op] # "idle"
    BY <1>1, <1>7 DEF Submit, StartLoop, StartSeen, StartTimeout, StartBroken,
                      StartFailed, ChargeTask, PostCreate, GoSubmit, TypeOK
  <2>3. state \in Refusing => state' \in Refusing
    BY <1>7 DEF Submit, StartLoop, StartSeen, StartTimeout, StartBroken,
                StartFailed, ChargeTask, PostCreate, Refusing
  <2>4. StageFn' = StageFn
    BY <1>2, <1>3, <1>4, <1>7, <2>1, <2>2, SameStage
  <2> QED BY <2>1, <2>3, <2>4, MayClose
<1> QED BY <1>5, <1>6, <1>7

LEMMA AbsHolder ==
  ASSUME Known, NEW op \in Ops, Holder(op)
  PROVE  Abstractly
<1>1. TypeOK /\ SubmitInv(op) /\ FutureInv(op)
  BY DEF Known, IInv
<1>2. UNCHANGED <<state, operations, work, submitPc>>
  BY DEF Holder, slots, taskVars
<1>3. StageFn' = StageFn
  BY <1>2, SameStage
<1>4. CASE CancelFuture(op)
  <2>1. op \in operations
    BY <1>1, <1>4 DEF FutureInv, CancelFuture
  <2> QED BY <1>1, <1>2, <1>3, <1>4, <2>1, Answered DEF CancelFuture, SameOpen
<1>5. CASE ~CancelFuture(op)
  <2>1. future' = future
    BY <1>5 DEF Holder, RequestCancel, ScheduleCancel, Expire
  <2> QED BY <1>2, <1>3, <2>1, MayClose
<1> QED BY <1>4, <1>5

-----------------------------------------------------------------------------
(* The loop.                                                               *)

LEMMA AbsLoopStep ==
  ASSUME Known, NEW op \in Ops, LoopStep(op)
  PROVE  Abstractly
<1>1. TypeOK /\ SubmitInv(op) /\ Shape(op) /\ FutureInv(op) /\ Decided
  BY DEF Known, IInv
<1>2. SameOpen /\ state' = state /\ submitPc' = submitPc
  BY DEF LoopStep, SameOpen, callerVars
<1>3. ASSUME operations' = operations, future' = future,
             \A p \in Ops : work'[p] = work[p] \/ (Working(p) /\ Working(p)')
      PROVE  Abstractly
  <2>1. StageFn' = StageFn
    BY <1>2, <1>3 DEF StageFn, StageOf, Working
  <2> QED BY <1>2, <1>3, <2>1, MayClose
<1>4. CASE CreateTask(op) \/ StoreTask(op) \/ Abandon(op) \/ Check(op)
  BY <1>3, <1>4 DEF CreateTask, StoreTask, Abandon, Check, slots
<1>5. CASE TimerFires(op) \/ TaskCancel(op)
  BY <1>1, <1>3, <1>5 DEF TimerFires, TaskCancel, slots, TypeOK, Working
<1>6. CASE AbandonSet(op) \/ Deliver(op)
  <2>1. UNCHANGED <<operations, work>> /\ at # "idle" /\ on = op
    BY <1>6 DEF AbandonSet, Deliver, slots, AtStage
  <2>2. StageFn' = StageFn
    BY <1>2, <2>1, SameStage
  <2>3. PICK a \in {"result", "unavailable"} :
          Answer(op, a) /\ (a = "result" => Deliver(op) /\ at = "deliver")
    BY <1>6 DEF AbandonSet, Deliver
  <2>4. CASE Unanswered(op)
    <3>1. op \in operations /\ submitPc[op] = "returned"
      BY <1>1, <2>1, <2>4 DEF SubmitInv, FutureInv
    <3>2. Working(op) => InnerTask
      BY <1>1, <2>1 DEF Shape, Working, TypeOK
    <3>3. a = "result" => work[op] = "over"
      BY <1>1, <2>3 DEF Decided, Deliver, AtStage
    <3> QED BY <1>1, <1>2, <2>2, <2>3, <2>4, <3>1, <3>2, <3>3, Answered
  <2>5. CASE ~Unanswered(op)
    <3>1. future' = future
      BY <1>1, <2>3, <2>5 DEF Answer, Unanswered, TypeOK
    <3> QED BY <1>2, <2>2, <3>1, MayClose
  <2> QED BY <2>4, <2>5
<1>7. CASE RunnerStart(op) \/ WorkEnds(op)
  <2>1. UNCHANGED <<operations, future>>
    BY <1>7 DEF RunnerStart, WorkEnds, slots
  <2>2. \A p \in Ops \ {op} : StageOf(p)' = StageOf(p)
    BY <1>1, <1>2, <1>7, <2>1, Kept DEF RunnerStart, WorkEnds, TypeOK
  <2>3. RunnerStart(op) => op \in operations
    BY <1>1, HeadStep DEF OpInv, RunnerStart, Shape, TypeOK
  <2>4. submitPc[op] # "idle"
    BY <1>1, <1>7, <2>3 DEF SubmitInv, WorkEnds
  <2>5. work'[op] = work[op] => Abstractly
    <3> SUFFICES ASSUME work'[op] = work[op] PROVE Abstractly
      OBVIOUS
    <3>1. StageOf(op)' = StageOf(op)
      BY <1>2, <2>1, Kept
    <3>2. StageFn' = StageFn
      BY <2>2, <3>1 DEF StageFn
    <3> QED BY <1>2, <2>1, <3>2, MayClose
  <2>6. CASE RunnerStart(op) /\ work'[op] # work[op]
    <3>1. work[op] = "none" /\ work'[op] \in {"running", "over"}
      BY <1>1, <2>6, HeadStep DEF OpInv, RunnerStart, TypeOK
    <3>2. StageOf(op) = "held"
      BY <2>3, <2>6, <2>4, <3>1 DEF StageOf, Working
    <3>3. CASE work'[op] = "running"
      <4>1. StageOf(op)' = "busy"
        BY <1>2, <2>1, <2>3, <2>4, <2>6, <3>3 DEF StageOf, Working
      <4>2. Service!Begin(op)
        BY <1>2, <2>1, <2>2, <3>2, <4>1, Moves DEF Service!Begin, SameOpen
      <4> QED BY <4>2, OneOpSteps DEF OneOp
    <3>4. CASE work'[op] = "over"
      <4>1. StageOf(op)' = "over"
        BY <1>2, <2>1, <2>3, <2>4, <2>6, <3>4 DEF StageOf, Working
      <4>2. Service!End(op)
        BY <1>2, <2>1, <2>2, <3>2, <4>1, Moves DEF Service!End, SameOpen
      <4> QED BY <4>2, OneOpSteps DEF OneOp
    <3> QED BY <3>1, <3>3, <3>4
  <2>7. CASE WorkEnds(op) /\ op \notin operations      \* an inner task, outliving
    <3>1. StageOf(op)' = StageOf(op)                     \* its slot
      BY <1>2, <2>1, <2>4, <2>7 DEF StageOf
    <3>2. StageFn' = StageFn
      BY <2>2, <3>1 DEF StageFn
    <3> QED BY <1>2, <2>1, <3>2, MayClose
  <2>8. CASE WorkEnds(op) /\ op \in operations
    <3>1. Working(op) /\ work'[op] = "over"
      BY <1>1, <2>8 DEF WorkEnds, Working, TypeOK
    <3>2. StageOf(op) = "busy"
      BY <2>4, <2>8, <3>1 DEF StageOf, Working
    <3>3. StageOf(op)' = "over"
      BY <1>2, <2>1, <2>4, <2>8, <3>1 DEF StageOf, Working
    <3>4. Service!End(op)
      BY <1>2, <2>1, <2>2, <3>2, <3>3, Moves DEF Service!End, SameOpen
    <3> QED BY <3>4, OneOpSteps DEF OneOp
  <2> QED BY <1>7, <2>5, <2>6, <2>7, <2>8
<1>8. CASE FinishOp(op)
  <2>1. /\ at = "finish" /\ on = op /\ Finish(op)
        /\ UNCHANGED <<future, work>>
    BY <1>8 DEF FinishOp, AtStage
  <2>2. CASE op \in operations
    <3>1. ~Unanswered(op) /\ submitPc[op] # "idle"
      BY <1>1, <2>1, <2>2 DEF FutureInv, SubmitInv
    <3>2. Working(op) => InnerTask
      BY <1>1, <2>1 DEF Shape, Working, TypeOK
    <3> QED BY <1>1, <1>2, <2>1, <2>2, <3>1, <3>2, FinishGivesBack
  <2>3. CASE op \notin operations
    BY <1>3, <2>1, <2>3 DEF Finish, slots
  <2> QED BY <2>2, <2>3
<1> QED BY <1>4, <1>5, <1>6, <1>7, <1>8 DEF LoopStep

-----------------------------------------------------------------------------
(* The implementation.                                                     *)

LEMMA RefusingStays ==
  ASSUME LoopThread \/ (\E c \in Closers : Shutdown(c)), state \in Refusing
  PROVE  state' \in Refusing
<1> USE DEF Refusing
<1>1. CASE LoopThread
  BY <1>1 DEF LoopThread, ThreadUp, ThreadFails, LoopStop, ThreadExit,
              DrainAborted
<1>2. ASSUME NEW c \in Closers, Shutdown(c) PROVE state' \in Refusing
  BY <1>2 DEF Shutdown, ShutdownBegin, ShutdownRelease, ShutdownWait,
              ShutdownStop, ShutdownJoin
<1> QED BY <1>1, <1>2

LEMMA AbsStep ==
  ASSUME Known, [Next]_vars
  PROVE  Abstractly
<1>1. ASSUME UNCHANGED <<operations, work, submitPc, future>>,
             state \in Refusing => state' \in Refusing
      PROVE  Abstractly
  <2>1. StageFn' = StageFn
    BY <1>1, SameStage
  <2> QED BY <1>1, <2>1, MayClose
<1>2. ASSUME NEW l \in Leases, Acquire(l) \/ Release(l) PROVE Abstractly
  BY <1>1, <1>2 DEF Acquire, Release, slots, callerVars, taskVars
<1>3. ASSUME NEW op \in Ops, Submit(op) \/ Holder(op) \/ LoopStep(op)
      PROVE  Abstractly
  BY <1>3, AbsSubmit, AbsHolder, AbsLoopStep
<1>4. CASE LoopThread
  <2>1. UNCHANGED <<operations, submitPc, future>>
    BY <1>4 DEF LoopThread, slots, callerVars
  <2>2. CASE DrainAborted                     \* no slot is left while draining
    <3>1. operations = {}
      BY <2>2 DEF DrainAborted, Known, IInv, ThreadInv
    <3>2. StageFn' = StageFn
      BY <2>1, <3>1 DEF StageFn, StageOf
    <3> QED BY <1>4, <2>1, <3>2, RefusingStays, MayClose
  <2>3. CASE ~DrainAborted
    <3>1. work' = work
      BY <1>4, <2>3 DEF LoopThread, ThreadUp, ThreadFails, LoopStop, ThreadExit
    <3> QED BY <1>1, <1>4, <2>1, <3>1, RefusingStays
  <2> QED BY <2>2, <2>3
<1>5. ASSUME NEW c \in Closers, Shutdown(c) PROVE Abstractly
  BY <1>1, <1>5, RefusingStays DEF Shutdown, slots, taskVars
<1>6. CASE UNCHANGED vars
  BY <1>1, <1>6 DEF vars, slots, callerVars, taskVars
<1> QED BY <1>2, <1>3, <1>4, <1>5, <1>6 DEF Next

-----------------------------------------------------------------------------
(* Leases and cancellation.                                                *)

\* What a step of the broker looks like to a runtime.
ServiceStep == [Service!ServiceNext]_(Service!svars)

Under == {<<op, LeaseOf[op]>> : op \in Submitted}

\* A step that leaves the leases and the flags alone serves an operation that
\* was admitted before; it starts work only if nobody told it to stop.
LEMMA Serves ==
  ASSUME IInv, IInv', Abstractly, UNCHANGED <<lease, cancelRequested, Submitted>>,
         \A op \in Ops : /\ StageOf(op) = "held"
                         /\ StageOf(op)' \in {"busy", "over"}
                         => ~Doomed(op)
  PROVE  ServiceStep
<1>1. Under' = Under
  BY DEF Under
<1>2. CASE UNCHANGED Service!avars
  BY <1>1, <1>2 DEF ServiceStep, Service!svars, Under
<1>3. CASE Service!Close
  <2>1. Service!Close /\ UNCHANGED <<lease, Under, cancelRequested>>
    BY <1>1, <1>3
  <2>2. Service!ServiceNext
    BY <2>1 DEF Service!ServiceNext, Under
  <2> QED BY <2>2 DEF ServiceStep
<1>4. ASSUME NEW op \in Ops, OneOp(op) PROVE ServiceStep
  <2>1. ~Service!Admit(op)
    <3> SUFFICES ASSUME Service!Admit(op) PROVE FALSE
      OBVIOUS
    <3>1. StageOf(op) = "new" /\ StageOf(op)' = "held"
      BY DEF Service!Admit, Service!To
    <3>2. submitPc[op] = "idle"
      BY <3>1, Stage DEF IInv
    <3>3. submitPc'[op] # "idle"
      BY <3>1 DEF StageOf, IInv, SubmitInv
    <3> QED BY <3>2, <3>3 DEF Submitted
  <2>2. ASSUME Service!Begin(op) \/ Service!End(op), StageOf(op) = "held"
        PROVE  Service!Wanted(op)
    <3>1. StageOf(op)' \in {"busy", "over"}
      BY <2>2 DEF Service!Begin, Service!End, Service!To
    <3>2. ~Doomed(op)
      BY <2>2, <3>1
    <3> QED BY <3>2 DEF Service!Wanted, Doomed
  <2>3. Service!Serve(op)
    BY <1>1, <1>4, <2>1, <2>2 DEF OneOp, Service!Serve, Under
  <2> QED BY <2>3 DEF ServiceStep, Service!ServiceNext
<1> QED BY <1>2, <1>3, <1>4 DEF Abstractly, Service!Next, OneOp

LEMMA ServeSubmit ==
  ASSUME Known, IInv', NEW op \in Ops, Submit(op), Abstractly
  PROVE  ServiceStep
<1>1. UNCHANGED <<lease, cancelRequested, work>>
  BY DEF Submit, taskVars
<1>2. \A p \in Ops \ {op} : submitPc'[p] = submitPc[p]
  BY DEF Submit, Admit, StartLoop, StartSeen, StartTimeout, StartBroken, Known,
         StartFailed, ChargeTask, PostCreate, Refuse, GoSubmit, IInv, TypeOK
<1>3. CASE Admit(op)
  <2>1. submitPc'[op] # "idle" /\ lease[LeaseOf[op]] = "live"
    BY <1>3 DEF Admit, GoSubmit, Known, IInv, TypeOK
  <2>2. Submitted' = Submitted \cup {op}
    BY <1>2, <2>1 DEF Submitted
  <2>3. Under' = Under \cup {<<op, LeaseOf[op]>>}
    BY <2>2, OpsAssumption DEF Under
  <2>4. Service!Admit(op)
    BY <1>3, AbsAdmit
  <2>5. Service!AdmitUnder(op, LeaseOf[op])
    BY <1>1, <2>1, <2>3, <2>4 DEF Service!AdmitUnder, Under
  <2>6. LeaseOf[op] \in Leases
    BY OpsAssumption
  <2> QED BY <2>5, <2>6 DEF ServiceStep, Service!ServiceNext
<1>4. CASE ~Admit(op)
  <2>1. submitPc[op] # "idle" /\ submitPc'[op] # "idle"
    BY <1>4 DEF Submit, StartLoop, StartSeen, StartTimeout, StartBroken, Known,
                StartFailed, ChargeTask, PostCreate, Refuse, GoSubmit, IInv, TypeOK
  <2>2. Submitted' = Submitted
    BY <1>2, <2>1 DEF Submitted
  <2>3. ASSUME NEW p \in Ops, StageOf(p)' \in {"busy", "over"} PROVE StageOf(p) # "held"
    BY <1>1, <2>3, Stage DEF Known, IInv, StageOf, Working, SubmitInv, TypeOK
  <2> QED BY <1>1, <2>2, <2>3, Serves DEF Known
<1> QED BY <1>3, <1>4

\* _runner's first step tests the operation and its lease before it starts.
LEMMA ServeLoopStep ==
  ASSUME Known, IInv', NEW op \in Ops, LoopStep(op), Abstractly
  PROVE  ServiceStep
<1>1. UNCHANGED <<lease, cancelRequested, submitPc>> /\ Submitted' = Submitted
  BY DEF LoopStep, callerVars, Submitted
<1>2. ASSUME NEW p \in Ops, StageOf(p) = "held", StageOf(p)' \in {"busy", "over"}
      PROVE  ~Doomed(p)
  <2>1. work[p] = "none" /\ work'[p] # "none"
    BY <1>2, Stage DEF Known, IInv, StageOf, Working, SubmitInv
  <2>2. RunnerStart(op) /\ p = op
    BY <2>1 DEF LoopStep, CreateTask, StoreTask, Abandon, AbandonSet, RunnerStart,
                WorkEnds, TimerFires, TaskCancel, Check, Deliver, FinishOp,
                Known, IInv, TypeOK
  <2> QED BY <2>1, <2>2 DEF RunnerStart
<1> QED BY <1>1, <1>2, Serves DEF Known

\* Revoking a lease flags what is admitted under it, as the service says.
LEMMA ServeRevoke ==
  ASSUME Known, NEW l \in Leases, Revoke(l),
         UNCHANGED <<state, operations, work, submitPc, future>>
  PROVE  ServiceStep
<1>1. StageFn' = StageFn /\ Under' = Under
  BY SameStage DEF Under, Submitted
<1>2. CASE lease[l] = "live"
  <2> DEFINE hit == {q \in operations : LeaseOf[q] = l}
  <2>1. lease' = [lease EXCEPT ![l] = "revoked"]
    BY <1>2 DEF Revoke
  <2>2. cancelRequested' = [q \in Ops |-> q \in hit \/ cancelRequested[q]]
    BY <1>2, Zenon DEF Revoke
  <2>3. \A q \in Ops : q \in Service!Holding <=> q \in operations
    BY HoldingIs DEF Known, IInv
  <2>4. \A q \in operations : q \in Ops /\ q \in Submitted
    BY DEF Known, IInv, SubmitInv, Submitted, TypeOK
  <2>5. \A q \in Ops : <<q, l>> \in Under <=> q \in Submitted /\ LeaseOf[q] = l
    BY DEF Under, Submitted
  <2>6. \A q \in Ops : q \in hit <=> q \in Service!Holding /\ <<q, l>> \in Under
    BY <2>3, <2>4, <2>5
  <2>7. \A q \in Ops : (q \in hit \/ cancelRequested[q])
                        = (\/ cancelRequested[q]
                           \/ q \in Service!Holding /\ <<q, l>> \in Under)
    BY <2>6
  <2>8. cancelRequested' = [q \in Ops |-> \/ cancelRequested[q]
                                          \/ q \in Service!Holding /\ <<q, l>> \in Under]
    BY <2>2, <2>7
  <2>9. Service!Revoke(l)
    BY <1>1, <1>2, <2>1, <2>8 DEF Service!Revoke, Service!avars, StageFn, Under
  <2> QED BY <2>9 DEF ServiceStep, Service!ServiceNext
<1>3. CASE lease[l] # "live"
  BY <1>1, <1>3 DEF Revoke, ServiceStep, Service!svars, Service!avars, StageFn, Under
<1> QED BY <1>2, <1>3

LEMMA ServeHolder ==
  ASSUME Known, IInv', NEW op \in Ops, Holder(op), Abstractly
  PROVE  ServiceStep
<1>1. UNCHANGED <<state, lease, operations, work, submitPc>>
  BY DEF Holder, slots, taskVars
<1>2. StageFn' = StageFn /\ Under' = Under /\ Submitted' = Submitted
  BY <1>1, SameStage DEF Under, Submitted
<1>3. CASE RequestCancel(op)
  <2>1. StageOf(op) # "new" /\ future' = future
        /\ cancelRequested' = [cancelRequested EXCEPT ![op] = TRUE]
    BY <1>3, Stage DEF RequestCancel, Known, IInv
  <2>2. Service!Cancel(op)
    BY <1>1, <1>2, <2>1 DEF Service!Cancel, Service!avars, StageFn, Under
  <2> QED BY <2>2 DEF ServiceStep, Service!ServiceNext
<1>4. CASE ~RequestCancel(op)
  <2>1. cancelRequested' = cancelRequested
    BY <1>4 DEF Holder, ScheduleCancel, CancelFuture, Expire
  <2>2. \A p \in Ops : StageOf(p)' = StageOf(p)
    BY <1>2, <1>1 DEF StageOf, Working
  <2> QED BY <1>1, <1>2, <2>1, <2>2, Serves DEF Known
<1> QED BY <1>3, <1>4

LEMMA ServeStep ==
  ASSUME Known, IInv', Abstractly, [Next]_vars
  PROVE  ServiceStep
<1>1. ASSUME UNCHANGED <<lease, cancelRequested, submitPc, operations>>,
             \A p \in Ops : p \in operations /\ work[p] = "none" => work'[p] = "none"
      PROVE  ServiceStep
  <2>1. ASSUME NEW p \in Ops, StageOf(p) = "held" PROVE StageOf(p)' = "held"
    <3>1. p \in operations /\ work[p] = "none" /\ submitPc[p] # "idle"
      BY <2>1, Stage DEF Known, IInv, SubmitInv
    <3> QED BY <1>1, <3>1 DEF StageOf, Working
  <2>2. Submitted' = Submitted
    BY <1>1 DEF Submitted
  <2> QED BY <1>1, <2>1, <2>2, Serves DEF Known
<1>2. ASSUME NEW l \in Leases, Acquire(l) PROVE ServiceStep
  <2>1. UNCHANGED <<state, operations, work, submitPc, future, cancelRequested>>
    BY <1>2 DEF Acquire, slots, callerVars, taskVars
  <2>2. StageFn' = StageFn /\ Under' = Under
    BY <2>1, SameStage DEF Under, Submitted
  <2>3. Service!Acquire(l)
    BY <1>2, <2>1, <2>2 DEF Acquire, Service!Acquire, Service!avars, StageFn, Under
  <2> QED BY <2>3 DEF ServiceStep, Service!ServiceNext
<1>3. ASSUME NEW l \in Leases, Release(l) PROVE ServiceStep
  BY <1>3, ServeRevoke DEF Release, slots, taskVars
<1>4. ASSUME NEW op \in Ops, Submit(op) \/ Holder(op) \/ LoopStep(op)
      PROVE  ServiceStep
  BY <1>4, ServeSubmit, ServeHolder, ServeLoopStep
<1>5. CASE LoopThread
  BY <1>1, <1>5 DEF LoopThread, slots, callerVars, ThreadUp, ThreadFails,
                    LoopStop, ThreadExit, DrainAborted, Working
<1>6. ASSUME NEW c \in Closers, Shutdown(c) PROVE ServiceStep
  <2>1. CASE ShutdownRelease(c)
    <3>1. PICK l \in closerLeases[c] : Revoke(l)
      BY <2>1 DEF ShutdownRelease
    <3>2. l \in Leases
      BY <3>1 DEF Known, IInv, TypeOK
    <3>3. UNCHANGED <<state, operations, work, submitPc, future>>
      BY <1>6, <2>1 DEF Shutdown, ShutdownRelease, slots, taskVars
    <3> QED BY <3>1, <3>2, <3>3, ServeRevoke
  <2>2. CASE ~ShutdownRelease(c)
    BY <1>1, <1>6, <2>2 DEF Shutdown, ShutdownBegin, ShutdownWait, ShutdownStop,
                            ShutdownJoin, slots, taskVars
  <2> QED BY <2>1, <2>2
<1>7. CASE UNCHANGED vars
  BY <1>1, <1>7 DEF vars, slots, callerVars, taskVars
<1> QED BY <1>2, <1>3, <1>4, <1>5, <1>6, <1>7 DEF Next

LEMMA AbsInit == Init => Service!Init /\ Decided
<1> SUFFICES ASSUME Init PROVE Service!Init /\ Decided
  OBVIOUS
<1>1. \A op \in Ops : StageOf(op) = "new"
  BY DEF Init, StageOf
<1>2. Service!Init
  BY <1>1 DEF Init, Service!Init, Refusing
<1>3. Decided
  BY DEF Init, Decided, AtStage
<1> QED BY <1>2, <1>3

\* Every behaviour of the broker - start-up that fails or is overtaken,
\* cancellation from any side, revocation, several shutdowns - is one of the
\* admission service: slots are bounded, given back once and after the answer.
\* Work outlives its slot only where wait_for gives it a task of its own.
THEOREM Admits == Spec => Service!Spec
<1>1. Init => Service!Init /\ Decided
  BY AbsInit
<1>2. IInv /\ Decided /\ [Next]_vars => Decided'
  BY DecidedStep DEF IInv
<1>3. IInv /\ Decided /\ [Next]_vars => [Service!Next]_(Service!avars)
  BY AbsStep DEF Known, Abstractly
<1> QED BY <1>1, <1>2, <1>3, Inductive, PTL DEF Spec, Service!Spec

\* ... and of the service with leases: nothing is admitted under a dead lease,
\* revoking one cancels what runs under it, and what was cancelled or revoked
\* before _runner's first step never starts.
THEOREM Implements == Spec => ImplementsService
<1>1. Init => Service!ServiceInit /\ Decided
  <2> SUFFICES ASSUME Init PROVE Service!ServiceInit
    BY AbsInit
  <2>1. Submitted = {}
    BY DEF Init, Submitted
  <2> QED BY <2>1, AbsInit DEF Init, Service!ServiceInit
<1>2. IInv /\ Decided /\ [Next]_vars => Decided'
  BY DecidedStep DEF IInv
<1>3. IInv /\ Decided /\ [Next]_vars => [Service!ServiceNext]_(Service!svars)
  BY AbsStep, ServeStep, InvStep DEF Known, ServiceStep
<1> QED BY <1>1, <1>2, <1>3, Inductive, PTL
        DEF Spec, ImplementsService, Service!ServiceSpec
=============================================================================
