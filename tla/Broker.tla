------------------------------- MODULE Broker -------------------------------
(***************************************************************************)
(* The process broker of hermes_typesafe_broker/core.py: one lazily        *)
(* started event-loop thread shared by every profile, leases that admit    *)
(* operations to it, and a bounded number of admission slots.              *)
(*                                                                         *)
(* Threads: one caller per operation (try_submit, then perhaps cancel),    *)
(* the threads that acquire and release leases, those that call shutdown,  *)
(* and the loop thread.  A block under _lock is one step; what the code    *)
(* does outside the lock is a step of its own where another thread can     *)
(* tell.  The loop thread runs one callback at a time: `at' and `on' say   *)
(* where it is inside a callback, and for which operation.                 *)
(*                                                                         *)
(* call_soon_threadsafe keeps callbacks in one FIFO; `inbox' keeps one per *)
(* operation, for callbacks of different operations touch disjoint state.  *)
(***************************************************************************)
EXTENDS Integers, Sequences, FiniteSets

CONSTANTS
  Leases,      \* every Lease object acquired in a behaviour (nonces are fresh)
  Ops,         \* every Operation try_submit may create
  Closers,     \* the threads that call shutdown
  LeaseOf,     \* the lease an operation is submitted under
  AsyncOps,    \* operations whose caller may cancel the concurrent future
  NoOp,        \* no operation
  MaxLeases,   \* MAX_ACTIVE_LEASES
  MaxOps,      \* MAX_ADMITTED_OPERATIONS
  MaxTasks,    \* MAX_TASKS
  InnerTask    \* TRUE: asyncio.wait_for runs the work in a task of its own
               \* (CPython 3.10, 3.11); FALSE: in the caller's task (3.12)

ASSUME OpsAssumption ==
  /\ IsFiniteSet(Ops) /\ NoOp \notin Ops
  /\ IsFiniteSet(Leases)
  /\ LeaseOf \in [Ops -> Leases] /\ AsyncOps \subseteq Ops
ASSUME LimitsAssumption ==
  /\ MaxLeases \in Nat /\ MaxOps \in Nat /\ MaxTasks \in Nat
  /\ InnerTask \in BOOLEAN

VARIABLES
  state, lease, operations, activeOperations, taskCount,  \* under _lock
  thread, ready, stopPosted,                              \* the loop thread
  submitPc, cancelPc, cancelRequested, late, future,      \* Operation
  runner, work, inbox, at, on,                            \* on the loop
  closerPc, closerLeases                                  \* in shutdown

slots      == <<operations, activeOperations, taskCount>>
threadVars == <<thread, ready, stopPosted>>
callerVars == <<submitPc, cancelPc, cancelRequested, late>>
taskVars   == <<runner, work, at, on>>
closerVars == <<closerPc, closerLeases>>
vars == <<state, lease, slots, threadVars, callerVars, future, taskVars, inbox,
          closerVars>>

Refusing == {"BROKEN", "CLOSING", "CLOSED"}

Init ==
  /\ state = "NEW" /\ lease = [l \in Leases |-> "none"]
  /\ operations = {} /\ activeOperations = 0 /\ taskCount = 0
  /\ thread = "none" /\ ready = FALSE /\ stopPosted = FALSE
  /\ submitPc = [op \in Ops |-> "idle"] /\ cancelPc = [op \in Ops |-> "idle"]
  /\ cancelRequested = [op \in Ops |-> FALSE] /\ late = [op \in Ops |-> FALSE]
  /\ future = [op \in Ops |-> "pending"] /\ inbox = [op \in Ops |-> << >>]
  /\ runner = [op \in Ops |-> "none"] /\ work = [op \in Ops |-> "none"]
  /\ at = "idle" /\ on = NoOp
  /\ closerPc = [c \in Closers |-> "idle"]
  /\ closerLeases = [c \in Closers |-> {}]

-----------------------------------------------------------------------------
(* What several handlers share.                                            *)

Live == {l \in Leases : lease[l] = "live"}

\* self._loop: set when the thread comes up, None again when it ends.
Loop == thread \in {"running", "draining"}

ThreadAlive == thread \in {"booting", "running", "draining"}

Charged(op) == submitPc[op] \in {"post", "returned"}   \* task_slot_charged

\* `operation.cancel_requested or operation.lease.revoked'
Doomed(op) == cancelRequested[op] \/ lease[LeaseOf[op]] = "revoked"

Decrement(n) == IF n > 0 THEN n - 1 ELSE 0

Unanswered(op) == future[op] = "pending"

\* _set_result and _set_unavailable: an answered future keeps its answer.
Answer(op, a) == future' = [future EXCEPT ![op] = IF @ = "pending" THEN a ELSE @]

\* (mutant) _finish without its tests: gives back a task slot never charged.
FinishUnchecked(op) ==
  /\ operations' = operations \ {op}
  /\ activeOperations' = activeOperations - 1 /\ taskCount' = taskCount - 1

\* _finish: idempotent, gives the admission and the task slot back.
Finish(op) ==
  IF op \in operations
  THEN /\ operations' = operations \ {op}
       /\ activeOperations' = Decrement(activeOperations)
       /\ taskCount' = IF Charged(op) THEN Decrement(taskCount) ELSE taskCount
  ELSE UNCHANGED slots

\* _schedule_cancel: posts task.cancel if the loop is there and the task is
\* stored in the operation and not done.
CanPostCancel(op) == Loop /\ runner[op] \in {"stored", "waiting", "lost"}

PostCancels(targets) ==
  inbox' = [op \in Ops |-> IF op \in targets /\ CanPostCancel(op)
                           THEN Append(inbox[op], "cancel") ELSE inbox[op]]

\* release(l): the lease is revoked, each of its operations is flagged and its
\* cancellation scheduled, all in one block under _lock.
Revoke(l) ==
  LET hit == {op \in operations : LeaseOf[op] = l} IN
  IF lease[l] # "live"
  THEN UNCHANGED <<lease, cancelRequested, inbox>>
  ELSE /\ lease' = [lease EXCEPT ![l] = "revoked"]
       /\ cancelRequested' = [op \in Ops |-> op \in hit \/ cancelRequested[op]]
       /\ PostCancels(hit)

-----------------------------------------------------------------------------
(* Leases.                                                                 *)

Acquire(l) ==
  /\ lease[l] = "none" /\ state \notin Refusing
  /\ Cardinality(Live) < MaxLeases
  /\ lease' = [lease EXCEPT ![l] = "live"]
  /\ UNCHANGED <<state, slots, threadVars, callerVars, future, taskVars, inbox,
                 closerVars>>

Release(l) ==
  /\ lease[l] = "live"
  /\ Revoke(l)
  /\ UNCHANGED <<state, slots, threadVars, submitPc, cancelPc, late, future,
                 taskVars, closerVars>>

-----------------------------------------------------------------------------
(* try_submit and _start_loop, on the caller's thread.                     *)

GoSubmit(op, pc) == submitPc' = [submitPc EXCEPT ![op] = pc]

\* (mutants) Admission that forgets the bound, and one that forgets the state.
AdmitUnbounded(op) ==
  /\ submitPc[op] = "idle" /\ ~late[op]
  /\ state \notin Refusing /\ lease[LeaseOf[op]] = "live"
  /\ taskCount < MaxTasks
  /\ operations' = operations \cup {op}
  /\ activeOperations' = activeOperations + 1
  /\ GoSubmit(op, IF state \in {"NEW", "STARTING"} THEN "start" ELSE "charge")
  /\ UNCHANGED <<state, taskCount, threadVars, future, inbox>>

AdmitClosed(op) ==
  /\ submitPc[op] = "idle" /\ ~late[op]
  /\ lease[LeaseOf[op]] = "live"
  /\ activeOperations < MaxOps /\ taskCount < MaxTasks
  /\ operations' = operations \cup {op}
  /\ activeOperations' = activeOperations + 1
  /\ GoSubmit(op, IF state \in {"NEW", "STARTING"} THEN "start" ELSE "charge")
  /\ UNCHANGED <<state, taskCount, threadVars, future, inbox>>

\* A refused submission returns None and changes nothing: it is a stutter.
Admit(op) ==
  /\ submitPc[op] = "idle" /\ ~late[op]
  /\ state \notin Refusing /\ lease[LeaseOf[op]] = "live"
  /\ activeOperations < MaxOps /\ taskCount < MaxTasks
  /\ operations' = operations \cup {op}
  /\ activeOperations' = activeOperations + 1
  /\ GoSubmit(op, IF state \in {"NEW", "STARTING"} THEN "start" ELSE "charge")
  /\ UNCHANGED <<state, taskCount, threadVars, future, inbox>>

StartupLockFree == \A op \in Ops : submitPc[op] \notin {"waiting", "timedOut"}

\* The first block of _start_loop, entered with the startup lock.
StartLoop(op) ==
  /\ submitPc[op] = "start" /\ StartupLockFree
  /\ \/ /\ state # "NEW"
        /\ GoSubmit(op, IF state = "RUNNING" THEN "charge" ELSE "failed")
        /\ UNCHANGED <<state, thread, ready>>
     \/ /\ state = "NEW"                                    \* thread.start()
        /\ state' = "STARTING" /\ thread' = "booting" /\ ready' = FALSE
        /\ GoSubmit(op, "waiting")
     \/ /\ state = "NEW"                                    \* ... raises
        /\ state' = "BROKEN" /\ ready' = FALSE /\ UNCHANGED thread
        /\ GoSubmit(op, "failed")
  /\ UNCHANGED <<slots, stopPosted, future, inbox>>

\* _ready was set in time; the last block looks at what became of the thread.
StartSeen(op) ==
  /\ submitPc[op] = "waiting" /\ ready
  /\ GoSubmit(op, IF state = "RUNNING" /\ Loop THEN "charge" ELSE "failed")
  /\ UNCHANGED <<state, slots, threadVars, future, inbox>>

\* The wait runs out; the thread may still come up before StartBroken.
StartTimeout(op) ==
  /\ submitPc[op] = "waiting" /\ ~ready
  /\ GoSubmit(op, "timedOut")
  /\ UNCHANGED <<state, slots, threadVars, future, inbox>>

StartBroken(op) ==
  /\ submitPc[op] = "timedOut"
  /\ state' = "BROKEN"
  /\ GoSubmit(op, "failed")
  /\ UNCHANGED <<slots, threadVars, future, inbox>>

Refuse(op) ==
  /\ Answer(op, "unavailable")
  /\ Finish(op)
  /\ GoSubmit(op, "refused")

StartFailed(op) ==
  /\ submitPc[op] = "failed"
  /\ Refuse(op)
  /\ UNCHANGED <<state, threadVars, inbox>>

\* The second block under _lock: the loop must still be running.
ChargeTask(op) ==
  /\ submitPc[op] = "charge"
  /\ \/ /\ state = "RUNNING" /\ Loop
        /\ taskCount' = taskCount + 1
        /\ GoSubmit(op, "post")
        /\ UNCHANGED <<operations, activeOperations, future>>
     \/ /\ ~(state = "RUNNING" /\ Loop)
        /\ Refuse(op)
  /\ UNCHANGED <<state, threadVars, inbox>>

\* loop.call_soon_threadsafe(schedule): the loop is open (SlotHasLoop), so it
\* does not raise.
PostCreate(op) ==
  /\ submitPc[op] = "post"
  /\ inbox' = [inbox EXCEPT ![op] = Append(@, "create")]
  /\ GoSubmit(op, "returned")
  /\ UNCHANGED <<state, slots, threadVars, future>>

Submit(op) ==
  /\ \/ Admit(op) \/ StartLoop(op) \/ StartSeen(op) \/ StartTimeout(op)
     \/ StartBroken(op) \/ StartFailed(op) \/ ChargeTask(op) \/ PostCreate(op)
  /\ UNCHANGED <<lease, cancelPc, cancelRequested, late, taskVars, closerVars>>

-----------------------------------------------------------------------------
(* The holder of an Operation: cancel(), in two steps, and the host's own  *)
(* cancellation of the concurrent future through asyncio.wrap_future.      *)

RequestCancel(op) ==
  /\ submitPc[op] = "returned" /\ cancelPc[op] = "idle"
  /\ cancelRequested' = [cancelRequested EXCEPT ![op] = TRUE]
  /\ cancelPc' = [cancelPc EXCEPT ![op] = "schedule"]
  /\ UNCHANGED <<late, future, inbox>>

ScheduleCancel(op) ==
  /\ cancelPc[op] = "schedule"
  /\ PostCancels({op})
  /\ cancelPc' = [cancelPc EXCEPT ![op] = "done"]
  /\ UNCHANGED <<cancelRequested, late, future>>

CancelFuture(op) ==
  /\ op \in AsyncOps /\ submitPc[op] = "returned" /\ Unanswered(op)
  /\ Answer(op, "cancelled")
  /\ UNCHANGED <<cancelPc, cancelRequested, late, inbox>>

\* The operation's deadline passes.
Expire(op) ==
  /\ ~late[op]
  /\ late' = [late EXCEPT ![op] = TRUE]
  /\ UNCHANGED <<cancelPc, cancelRequested, future, inbox>>

Holder(op) ==
  /\ \/ RequestCancel(op) \/ ScheduleCancel(op)
     \/ CancelFuture(op) \/ Expire(op)
  /\ UNCHANGED <<state, lease, slots, threadVars, submitPc, taskVars,
                 closerVars>>

-----------------------------------------------------------------------------
(* _thread_main.                                                           *)

ThreadUp ==
  /\ thread = "booting"
  /\ IF state = "STARTING"
     THEN state' = "RUNNING" /\ ready' = TRUE /\ thread' = "running"
     ELSE thread' = "dead" /\ UNCHANGED <<state, ready>>
  /\ UNCHANGED <<stopPosted, work>>

\* new_event_loop raises, for example out of file descriptors.
ThreadFails ==
  /\ thread = "booting"
  /\ state' = "BROKEN" /\ ready' = TRUE /\ thread' = "dead"
  /\ UNCHANGED <<stopPosted, work>>

\* run_forever returns once the posted stop is reached ...
LoopStop ==
  /\ thread = "running" /\ at = "idle" /\ stopPosted
  /\ thread' = "draining" /\ stopPosted' = FALSE
  /\ UNCHANGED <<state, ready, work>>

Working(op) == work[op] \in {"running", "cleanup"}

Unfinished(op) == \/ runner[op] \in {"created", "stored", "waiting"}
                  \/ Working(op)

\* ... and the loop closes when every task left behind is done.
ThreadExit ==
  /\ thread = "draining" /\ at = "idle"
  /\ \A op \in Ops : ~Unfinished(op)
  /\ thread' = "dead"
  /\ state' = IF state = "RUNNING" THEN "CLOSED" ELSE state
  /\ UNCHANGED <<ready, stopPosted, work>>

\* Another shutdown's stop ends run_until_complete early, which raises: what
\* was left behind goes down with the thread.
DrainAborted ==
  /\ thread = "draining" /\ at = "idle" /\ stopPosted
  /\ \E op \in Ops : Working(op)
  /\ thread' = "dead" /\ state' = "BROKEN" /\ ready' = TRUE
  /\ work' = [op \in Ops |-> IF Working(op) THEN "over" ELSE work[op]]
  /\ UNCHANGED stopPosted

LoopThread ==
  /\ ThreadUp \/ ThreadFails \/ LoopStop \/ ThreadExit \/ DrainAborted
  /\ UNCHANGED <<lease, slots, callerVars, future, runner, at, on, inbox,
                 closerVars>>

-----------------------------------------------------------------------------
(* The callbacks of the loop: schedule/create, then _runner.               *)

Goto(stage, op) == at' = stage /\ on' = op
Return          == at' = "idle" /\ on' = NoOp
AtStage(stages, op) == at \in stages /\ on = op

LoopFree == Loop /\ at = "idle"

Callback(kind, op) ==
  /\ LoopFree /\ inbox[op] # << >> /\ Head(inbox[op]) = kind

\* create(): a doomed operation is abandoned; otherwise its task is created,
\* which queues the task's first step.
CreateTask(op) ==
  /\ Callback("create", op)
  /\ IF Doomed(op)
     THEN /\ Goto("abandon", op) /\ UNCHANGED runner
          /\ inbox' = [inbox EXCEPT ![op] = Tail(@)]
     ELSE /\ Goto("store", op)
          /\ inbox' = [inbox EXCEPT ![op] = Append(Tail(@), "step")]
          /\ runner' = [runner EXCEPT ![op] = "created"]
  /\ UNCHANGED <<slots, future, work>>

\* operation.task = task
StoreTask(op) ==
  /\ AtStage({"store"}, op)
  /\ runner' = [runner EXCEPT ![op] = "stored"]
  /\ Return
  /\ UNCHANGED <<slots, future, work, inbox>>

\* _finish(unavailable=True) out of create(): the done() test ...
Abandon(op) ==
  /\ AtStage({"abandon"}, op)
  /\ Goto(IF Unanswered(op) THEN "abandonSet" ELSE "finish", op)
  /\ UNCHANGED <<slots, future, runner, work, inbox>>

\* (mutant) The abandoned operation is answered and its slots forgotten.
AbandonKeepsSlot(op) ==
  /\ AtStage({"abandonSet"}, op)
  /\ Answer(op, "unavailable") /\ Return
  /\ UNCHANGED <<slots, runner, work, inbox>>

\* ... and set_exception, which raises out of the callback if the holder has
\* cancelled the future since.
AbandonSet(op) ==
  /\ AtStage({"abandonSet"}, op)
  /\ Answer(op, "unavailable")
  /\ IF Unanswered(op) THEN Goto("finish", op) ELSE Return
  /\ UNCHANGED <<slots, runner, work, inbox>>

\* (mutant) _runner trusts the test create() made.
RunnerStartTrusting(op) ==
  /\ Callback("step", op)
  /\ inbox' = [inbox EXCEPT ![op] = Tail(@)]
  /\ runner' = [runner EXCEPT ![op] = "waiting"]
  /\ \/ /\ late[op] /\ Goto("unavailable", op) /\ UNCHANGED work
     \/ /\ ~late[op]
        /\ work' = [work EXCEPT ![op] = "running"] /\ UNCHANGED <<at, on>>
  /\ UNCHANGED <<slots, future>>

\* The first step of _runner up to its await: two refusals, work(), and the
\* second deadline test.
RunnerStart(op) ==
  /\ Callback("step", op)
  /\ inbox' = [inbox EXCEPT ![op] = Tail(@)]
  /\ runner' = [runner EXCEPT ![op] = "waiting"]
  /\ \/ /\ Doomed(op) \/ late[op]
        /\ Goto("unavailable", op) /\ UNCHANGED work
     \/ /\ ~Doomed(op) /\ ~late[op]                 \* an awaitable
        /\ work' = [work EXCEPT ![op] = "running"] /\ UNCHANGED <<at, on>>
     \/ /\ ~Doomed(op) /\ ~late[op]                 \* a plain value, or raises
        /\ work' = [work EXCEPT ![op] = "over"]
        /\ \E stage \in {"check", "unavailable"} : Goto(stage, op)
  /\ UNCHANGED <<slots, future>>

\* The awaited work returns or raises, cancelled or not.
WorkEnds(op) ==
  /\ LoopFree /\ work[op] \in {"running", "cleanup"}
  /\ work' = [work EXCEPT ![op] = "over"]
  /\ IF runner[op] = "waiting"
     THEN \E stage \in {"check", "unavailable"} : Goto(stage, op)
     ELSE UNCHANGED <<at, on>>
  /\ UNCHANGED <<slots, future, runner, inbox>>

\* (mutant) The work is awaited without its deadline.
TimerNever(op) == op \in Ops /\ FALSE /\ UNCHANGED <<slots, taskVars, future, inbox>>

\* wait_for's timer throws CancelledError into work that is still running.
TimerFires(op) ==
  /\ LoopFree /\ late[op] /\ runner[op] = "waiting" /\ work[op] = "running"
  /\ work' = [work EXCEPT ![op] = "cleanup"]
  /\ UNCHANGED <<slots, future, runner, at, on, inbox>>

\* (mutant) _runner leaves as soon as it is cancelled.
TaskCancelLeaves(op) ==
  /\ Callback("cancel", op)
  /\ inbox' = [inbox EXCEPT ![op] = Tail(@)]
  /\ UNCHANGED runner
  /\ work' = [work EXCEPT ![op] = IF @ = "running" THEN "cleanup" ELSE @]
  /\ IF work[op] = "running" THEN Goto("unavailable", op)
     ELSE UNCHANGED <<at, on>>
  /\ UNCHANGED <<slots, future>>

\* A posted task.cancel().  Running work is thrown CancelledError.  Work that
\* is cleaning up is thrown another one if it shares the task; if it has a
\* task of its own, the error interrupts wait_for's wait for that task, and
\* _runner leaves while the work still cleans up.  A task cancelled before
\* its first step would end without running _runner's body at all.
TaskCancel(op) ==
  /\ Callback("cancel", op)
  /\ inbox' = [inbox EXCEPT ![op] = Tail(@)]
  /\ runner' = [runner EXCEPT ![op] = IF @ = "stored" THEN "lost" ELSE @]
  /\ work' = [work EXCEPT ![op] = IF runner[op] = "waiting" /\ @ = "running"
                                  THEN "cleanup" ELSE @]
  /\ IF InnerTask /\ runner[op] = "waiting" /\ work[op] = "cleanup"
     THEN Goto("unavailable", op) ELSE UNCHANGED <<at, on>>
  /\ UNCHANGED <<slots, future>>

\* (mutant) Only the broker's state decides.
CheckStateOnly(op) ==
  /\ AtStage({"check"}, op)
  /\ Goto(IF state \notin {"CLOSING", "CLOSED"} THEN "deliver" ELSE "unavailable",
          op)
  /\ UNCHANGED <<slots, future, runner, work, inbox>>

\* `valid' is computed under _lock ...
Check(op) ==
  /\ AtStage({"check"}, op)
  /\ Goto(IF ~Doomed(op) /\ state \notin {"CLOSING", "CLOSED"}
          THEN "deliver" ELSE "unavailable", op)
  /\ UNCHANGED <<slots, future, runner, work, inbox>>

\* ... and used after it: the future is answered one way or the other.
Deliver(op) ==
  /\ AtStage({"deliver", "unavailable"}, op)
  /\ Answer(op, IF at = "deliver" THEN "result" ELSE "unavailable")
  /\ Goto("finish", op)
  /\ UNCHANGED <<slots, runner, work, inbox>>

\* _finish, out of _runner's finally or out of create().
FinishOp(op) ==
  /\ AtStage({"finish"}, op)
  /\ Finish(op)
  /\ runner' = [runner EXCEPT ![op] = IF @ = "waiting" THEN "done" ELSE @]
  /\ Return
  /\ UNCHANGED <<future, work, inbox>>

LoopStep(op) ==
  /\ \/ CreateTask(op) \/ StoreTask(op) \/ Abandon(op) \/ AbandonSet(op)
     \/ RunnerStart(op) \/ WorkEnds(op) \/ TimerFires(op) \/ TaskCancel(op)
     \/ Check(op) \/ Deliver(op) \/ FinishOp(op)
  /\ UNCHANGED <<state, lease, threadVars, callerVars, closerVars>>

-----------------------------------------------------------------------------
(* shutdown.                                                               *)

CloserTo(c, pc) == closerPc' = [closerPc EXCEPT ![c] = pc]

ShutdownBegin(c) ==
  /\ closerPc[c] = "idle"
  /\ \/ /\ state = "NEW"
        /\ state' = "CLOSED" /\ CloserTo(c, "closed") /\ UNCHANGED closerLeases
     \/ /\ state \in {"CLOSED", "BROKEN"}
        /\ CloserTo(c, IF state = "CLOSED" THEN "closed" ELSE "broken")
        /\ UNCHANGED <<state, closerLeases>>
     \/ /\ state \in {"STARTING", "RUNNING", "CLOSING"}
        /\ state' = "CLOSING" /\ CloserTo(c, "revoke")
        /\ closerLeases' = [closerLeases EXCEPT ![c] = Live]
  /\ UNCHANGED <<lease, cancelRequested, inbox, stopPosted>>

ShutdownRelease(c) ==
  /\ closerPc[c] = "revoke"
  /\ \E l \in closerLeases[c] :
       /\ Revoke(l)
       /\ closerLeases' = [closerLeases EXCEPT ![c] = @ \ {l}]
  /\ UNCHANGED <<state, stopPosted, closerPc>>

\* (mutants) The loop is stopped without draining, and only after draining.
ShutdownNoDrain(c) ==
  /\ closerPc[c] = "revoke" /\ closerLeases[c] = {}
  /\ CloserTo(c, IF Loop THEN "stop" ELSE "join")
  /\ UNCHANGED <<state, lease, cancelRequested, inbox, stopPosted, closerLeases>>

ShutdownDrainsForEver(c) ==
  /\ activeOperations = 0 /\ ShutdownNoDrain(c)

\* Every lease is released and the slots have drained, in time or not.
ShutdownWait(c) ==
  /\ closerPc[c] = "revoke" /\ closerLeases[c] = {}
  /\ IF activeOperations = 0
     THEN CloserTo(c, IF Loop THEN "stop" ELSE "join") /\ UNCHANGED state
     ELSE CloserTo(c, "broken") /\ state' = "BROKEN"
  /\ UNCHANGED <<lease, cancelRequested, inbox, stopPosted, closerLeases>>

\* Posting the stop raises if another shutdown has closed the loop meanwhile.
ShutdownStop(c) ==
  /\ closerPc[c] = "stop"
  /\ IF Loop
     THEN stopPosted' = TRUE /\ CloserTo(c, "join") /\ UNCHANGED state
     ELSE state' = "BROKEN" /\ CloserTo(c, "broken") /\ UNCHANGED stopPosted
  /\ UNCHANGED <<lease, cancelRequested, inbox, closerLeases>>

\* (mutant) The outcome of thread.join is not looked at.
ShutdownJoinBlind(c) ==
  /\ closerPc[c] = "join"
  /\ state' = "CLOSED" /\ CloserTo(c, "closed")
  /\ UNCHANGED <<lease, cancelRequested, inbox, stopPosted, closerLeases>>

\* thread.join returns, or runs out of time with the thread still alive.
ShutdownJoin(c) ==
  /\ closerPc[c] = "join"
  /\ state' = IF ThreadAlive THEN "BROKEN" ELSE "CLOSED"
  /\ CloserTo(c, IF ThreadAlive THEN "broken" ELSE "closed")
  /\ UNCHANGED <<lease, cancelRequested, inbox, stopPosted, closerLeases>>

Shutdown(c) ==
  /\ \/ ShutdownBegin(c) \/ ShutdownRelease(c) \/ ShutdownWait(c)
     \/ ShutdownStop(c) \/ ShutdownJoin(c)
  /\ UNCHANGED <<slots, thread, ready, submitPc, cancelPc, late, future,
                 taskVars>>

-----------------------------------------------------------------------------
Next == \/ \E l \in Leases : Acquire(l) \/ Release(l)
        \/ \E op \in Ops : Submit(op) \/ Holder(op) \/ LoopStep(op)
        \/ LoopThread
        \/ \E c \in Closers : Shutdown(c)

Spec == Init /\ [][Next]_vars

(***************************************************************************)
(* Fairness: the threads and timers run.  Nobody is obliged to submit, to  *)
(* cancel, to release, to shut down or to let a deadline come; work may    *)
(* run for ever, but does end once it has been thrown CancelledError.      *)
(***************************************************************************)
Progress(op) == /\ LoopStep(op)
                /\ ~(work[op] = "running" /\ work'[op] = "over")

Fairness ==
  /\ \A op \in Ops : /\ WF_vars(Submit(op) /\ submitPc[op] # "idle")
                      /\ WF_vars(Holder(op) /\ cancelPc'[op] = "done")
                      /\ WF_vars(Progress(op))
  /\ WF_vars(LoopThread)
  /\ \A c \in Closers : WF_vars(Shutdown(c) /\ closerPc[c] # "idle")

FairSpec == Spec /\ Fairness

-----------------------------------------------------------------------------
(* Properties.                                                             *)

Stages == {"idle", "store", "abandon", "abandonSet", "check", "deliver",
           "unavailable", "finish"}

\* The types of the broker's state, of the operations and of shutdown.
TypeOK ==
  /\ state \in {"NEW", "STARTING", "RUNNING"} \cup Refusing
  /\ lease \in [Leases -> {"none", "live", "revoked"}]
  /\ operations \subseteq Ops /\ activeOperations \in Nat /\ taskCount \in Nat
  /\ thread \in {"none", "booting", "running", "draining", "dead"}
  /\ ready \in BOOLEAN /\ stopPosted \in BOOLEAN
  /\ submitPc \in [Ops -> {"idle", "start", "waiting", "timedOut", "failed",
                           "charge", "post", "returned", "refused"}]
  /\ cancelPc \in [Ops -> {"idle", "schedule", "done"}]
  /\ cancelRequested \in [Ops -> BOOLEAN] /\ late \in [Ops -> BOOLEAN]
  /\ future \in [Ops -> {"pending", "result", "unavailable", "cancelled"}]
  /\ runner \in [Ops -> {"none", "created", "stored", "waiting", "done", "lost"}]
  /\ work \in [Ops -> {"none", "running", "cleanup", "over"}]
  /\ inbox \in [Ops -> Seq({"create", "step", "cancel"})]
  /\ at \in Stages /\ on \in Ops \cup {NoOp} /\ (at = "idle" <=> on = NoOp)
  /\ closerPc \in [Closers -> {"idle", "revoke", "stop", "join", "closed",
                               "broken"}]
  /\ closerLeases \in [Closers -> SUBSET Leases]

\* The counters that admission reads count what is admitted, and never exceed
\* the bounds, whatever _finish is called by and however often.
Accounting ==
  /\ activeOperations = Cardinality(operations) /\ activeOperations <= MaxOps
  /\ taskCount = Cardinality({op \in operations : Charged(op)})

\* "keeps cancelled slots charged until the underlying operation exits": work
\* that still runs or cleans up holds an admission slot and a task slot.
SlotCoversWork ==
  \A op \in Ops : Working(op) => op \in operations /\ Charged(op)

Queued(op, kind) == \E i \in 1..Len(inbox[op]) : inbox[op][i] = kind

Submitting(op) == submitPc[op] \in {"start", "waiting", "timedOut", "failed",
                                   "charge", "post"}

\* Somebody will still call _finish for the operation.
Owned(op) == \/ Submitting(op) \/ on = op
             \/ Queued(op, "create")
             \/ runner[op] \in {"created", "stored"} /\ Queued(op, "step")
             \/ runner[op] = "waiting" /\ Working(op)

\* No slot leaks: every charged slot has somebody left to give it back, even
\* when cancellation, release and shutdown meet a task that is just created.
\* Holders that cancel the concurrent future are excluded (see SlotNeverLeaks).
SlotHasOwner == \A op \in operations \ AsyncOps : Owned(op)

\* A task slot implies an open loop: call_soon_threadsafe in try_submit never
\* meets a closed loop, and the loop never closes over an admitted operation.
SlotHasLoop == \A op \in operations : Charged(op) => Loop

\* A cancellation is never lost between create(), which stores the task, and
\* the canceller, which reads it: work that still runs for a cancelled or
\* revoked operation has a cancel() on its way.
NoLostCancel ==
  \A op \in Ops : /\ Doomed(op) /\ cancelPc[op] # "schedule"
                  /\ runner[op] = "waiting" /\ work[op] = "running"
                  => Queued(op, "cancel")

\* The holder of an operation never waits on a future nobody will answer: the
\* slot is given back only after the future is answered.
FreedIsAnswered ==
  \A op \in Ops : submitPc[op] = "returned" /\ op \notin operations
                  => ~Unanswered(op)

\* Once some shutdown has returned "closed", no thread, callback or work is
\* left and no task slot is charged - whatever start-up, submission or second
\* shutdown it raced with.
ClosedIsQuiet ==
  (\E c \in Closers : closerPc[c] = "closed") =>
    /\ ~ThreadAlive /\ at = "idle"
    /\ \A op \in Ops : ~Working(op) /\ ~(op \in operations /\ Charged(op))

\* A broker that was closed or found broken never serves again, even when the
\* loop thread comes up after start-up gave up on it.
NoResurrection == [][(state \in Refusing) => (state' \in Refusing)]_vars

\* A result is never passed on for an operation that was cancelled, revoked or
\* overtaken by shutdown before its validity was decided.
NoDoomedDelivery ==
  [][\A op \in Ops :
       AtStage({"deliver"}, op)' /\ ~AtStage({"deliver"}, op)
         => ~Doomed(op) /\ state \notin {"CLOSING", "CLOSED"}]_vars

\* As SlotHasOwner, for every holder.
SlotNeverLeaks == \A op \in operations : Owned(op)

\* A slot whose operation is past its deadline, cancelled or revoked is given
\* back, provided cancelled work ends.
SlotsReturn ==
  \A op \in Ops \ AsyncOps :
    op \in operations /\ (late[op] \/ Doomed(op)) ~> op \notin operations

\* shutdown returns, whatever start-up, work and other shutdowns do.
ShutdownReturns ==
  \A c \in Closers :
    closerPc[c] # "idle" ~> closerPc[c] \in {"closed", "broken"}

-----------------------------------------------------------------------------
(* The broker implements BrokerService, and so BrokerAdmission.            *)

StageOf(op) ==
  CASE submitPc[op] = "idle"                     -> "new"
    [] submitPc[op] # "idle" /\ op \notin operations -> "free"
    [] op \in operations /\ work[op] = "none"     -> "held"
    [] op \in operations /\ Working(op)           -> "busy"
    [] op \in operations /\ work[op] = "over"     -> "over"

Submitted == {op \in Ops : submitPc[op] # "idle"}

Service == INSTANCE BrokerService
             WITH Capacity <- MaxOps, WorkOutlives <- InnerTask,
                  open <- state \notin Refusing,
                  stage <- [op \in Ops |-> StageOf(op)],
                  answer <- future,
                  under <- {<<op, LeaseOf[op]>> : op \in Submitted},
                  cancelled <- cancelRequested

\* Every step of the broker is a step of the service or none: slots are bounded
\* and given back once, nothing is admitted under a dead lease, revoking one
\* cancels what runs under it, and what was cancelled first never starts.
ImplementsService == Service!ServiceSpec
=============================================================================
