------------------------------ MODULE Runtime ------------------------------
(***************************************************************************)
(* TypeSafeRuntime of runtime.py: one profile-local adapter per registered *)
(* handler, through which the host's threads call the process broker.      *)
(*                                                                         *)
(* A call validates its input, takes the runtime's lease (acquiring it the *)
(* first time), submits an operation and waits for its answer no longer    *)
(* than its deadline.  close() and the calls of the same runtime run on    *)
(* different threads; the runtime's lock covers _lease_for_operation and   *)
(* the first half of close(), nothing else.                                *)
(*                                                                         *)
(* The broker is the service BrokerService promises, which Broker          *)
(* implements.  A lease is a number, counted per runtime; 0 is None.       *)
(***************************************************************************)
EXTENDS Integers, FiniteSets

CONSTANTS
  Runtimes,        \* the runtimes of every registered profile
  Calls,           \* every execute_sync or execute_async in a behaviour
  AsyncCalls,      \* those that are execute_async
  Closers,         \* every call of close()
  Placements,      \* which runtimes the calls and the close()s may be on
  MaxOps,          \* MAX_ADMITTED_OPERATIONS
  InnerTask,       \* see Broker: cancelled work may outlive its slot
  BuiltinTimeout   \* TRUE: concurrent.futures.TimeoutError is TimeoutError
                   \* (CPython 3.11 on)

ASSUME RuntimeAssumption ==
  /\ AsyncCalls \subseteq Calls
  /\ Placements \subseteq [call : [Calls -> Runtimes],
                           close : [Closers -> Runtimes]]
  /\ MaxOps \in Nat /\ InnerTask \in BOOLEAN /\ BuiltinTimeout \in BOOLEAN

VARIABLES
  place,                             \* the placement of this behaviour
  closed, loaded, held,              \* _closed, _broker, _lease: under _lock
  acquired, revoked,                 \* the broker's view of the leases
  callPc, mine, late, outcome,       \* a call
  cancelRequested,                   \* of its operation
  closerPc, taken,                   \* a close()
  open, stage, answer                \* the broker, see BrokerService

runtimeVars == <<closed, loaded, held>>
leaseVars   == <<acquired, revoked>>
callVars    == <<callPc, mine, late, outcome, cancelRequested>>
closeVars   == <<closerPc, taken>>
avars       == <<open, stage, answer>>
vars == <<place, runtimeVars, leaseVars, callVars, closeVars, avars>>

RuntimeOf(c) == place.call[c]
Closes(k)    == place.close[k]

Live(r) == (1..acquired[r]) \ revoked[r]

\* What the broker has of a runtime that has one lease in its life.
LeaseOf(r) == IF acquired[r] = 0 THEN "none"
              ELSE IF Live(r) # {} THEN "live" ELSE "revoked"

Service == INSTANCE BrokerService
             WITH Ops <- Calls, Capacity <- MaxOps, WorkOutlives <- InnerTask,
                  Leases <- Runtimes, lease <- [r \in Runtimes |-> LeaseOf(r)],
                  under <- {<<c, RuntimeOf(c)>> : c \in {d \in Calls : stage[d] # "new"}},
                  cancelled <- cancelRequested

Init ==
  /\ place \in Placements
  /\ closed = [r \in Runtimes |-> FALSE] /\ loaded = [r \in Runtimes |-> FALSE]
  /\ held = [r \in Runtimes |-> 0]
  /\ acquired = [r \in Runtimes |-> 0] /\ revoked = [r \in Runtimes |-> {}]
  /\ callPc = [c \in Calls |-> "idle"] /\ mine = [c \in Calls |-> 0]
  /\ late = [c \in Calls |-> FALSE] /\ outcome = [c \in Calls |-> "none"]
  /\ cancelRequested = [c \in Calls |-> FALSE]
  /\ closerPc = [k \in Closers |-> "idle"] /\ taken = [k \in Closers |-> 0]
  /\ Service!Init

-----------------------------------------------------------------------------
(* execute_sync and execute_async.                                         *)

Goto(c, pc) == callPc' = [callPc EXCEPT ![c] = pc] /\ UNCHANGED outcome

Return(c, o) == /\ callPc' = [callPc EXCEPT ![c] = "done"]
                /\ outcome' = [outcome EXCEPT ![c] = o]

\* ClientError("timeout" if past the deadline else "unavailable")
Failed(c) == IF late[c] THEN "timeout" ELSE "unavailable"

\* A malformed key, timeout or request is refused before anything else.
Begin(c) ==
  /\ callPc[c] = "idle"
  /\ Goto(c, "preflight") \/ Return(c, "invalid")
  /\ UNCHANGED <<runtimeVars, leaseVars, mine, late, cancelRequested,
                 closeVars, avars>>

\* The deadline, counted from the start of the call, may be gone already.
Preflight(c) ==
  /\ callPc[c] = "preflight"
  /\ IF late[c] THEN Return(c, "timeout") ELSE Goto(c, "lease")
  /\ UNCHANGED <<runtimeVars, leaseVars, mine, late, cancelRequested,
                 closeVars, avars>>

\* (mutant) The lease is not remembered.
LeaseForgotten(c) ==
  LET r == RuntimeOf(c) IN
  /\ callPc[c] = "lease" /\ ~closed[r]
  /\ open
  /\ loaded' = [loaded EXCEPT ![r] = TRUE]
  /\ acquired' = [acquired EXCEPT ![r] = @ + 1]
  /\ held' = [held EXCEPT ![r] = acquired[r] + 1]
  /\ mine' = [mine EXCEPT ![c] = acquired[r] + 1]
  /\ Goto(c, "submit")
  /\ UNCHANGED <<closed, revoked, late, cancelRequested, closeVars, avars>>

\* _lease_for_operation, in one block under the runtime's lock.
LeaseForOperation(c) ==
  LET r == RuntimeOf(c)
      lost == Return(c, Failed(c)) /\ UNCHANGED <<held, mine, acquired>>
  IN
  /\ callPc[c] = "lease"
  /\ \/ lost /\ UNCHANGED <<closed, loaded>>    \* closed, or not this home
     \/ /\ ~closed[r] /\ ~loaded[r]             \* the loader raises
        /\ closed' = [closed EXCEPT ![r] = TRUE]
        /\ lost /\ UNCHANGED loaded
     \/ /\ ~closed[r] /\ held[r] = 0            \* acquire raises
        /\ loaded' = [loaded EXCEPT ![r] = TRUE]
        /\ closed' = [closed EXCEPT ![r] = TRUE]
        /\ lost
     \/ /\ ~closed[r] /\ held[r] = 0            \* acquire: None
        /\ loaded' = [loaded EXCEPT ![r] = TRUE]
        /\ lost /\ UNCHANGED closed
     \/ /\ ~closed[r] /\ held[r] = 0            \* acquire: a lease
        /\ open
        /\ loaded' = [loaded EXCEPT ![r] = TRUE]
        /\ acquired' = [acquired EXCEPT ![r] = @ + 1]
        /\ held' = [held EXCEPT ![r] = acquired[r] + 1]
        /\ mine' = [mine EXCEPT ![c] = acquired[r] + 1]
        /\ Goto(c, "submit") /\ UNCHANGED closed
     \/ /\ ~closed[r] /\ held[r] # 0
        /\ mine' = [mine EXCEPT ![c] = held[r]]
        /\ Goto(c, "submit") /\ UNCHANGED <<closed, loaded, held, acquired>>
  /\ UNCHANGED <<revoked, late, cancelRequested, closeVars, avars>>

\* (mutant) try_submit with a lease that may be revoked.
SubmitUnleased(c) ==
  /\ callPc[c] = "submit"
  /\ ~late[c] /\ Service!Admit(c) /\ Goto(c, "starting")
  /\ UNCHANGED <<runtimeVars, leaseVars, mine, late, cancelRequested,
                 closeVars>>

\* try_submit admits the operation, or refuses it: no slot, a revoked lease, a
\* closed broker, a deadline gone ...
Submit(c) ==
  /\ callPc[c] = "submit"
  /\ \/ /\ mine[c] \in Live(RuntimeOf(c)) /\ ~late[c]
        /\ Service!Admit(c) /\ Goto(c, "starting")
     \/ Return(c, Failed(c)) /\ UNCHANGED avars
  /\ UNCHANGED <<runtimeVars, leaseVars, mine, late, cancelRequested,
                 closeVars>>

\* ... and gives it back if the loop does not start or has closed meanwhile.
\* Once it is posted the broker may serve it before try_submit returns.
Started(c) ==
  /\ callPc[c] = "starting"
  /\ \/ Goto(c, "wait") /\ UNCHANGED avars
     \/ Service!Reject(c) /\ Return(c, Failed(c))
  /\ UNCHANGED <<runtimeVars, leaseVars, mine, late, cancelRequested,
                 closeVars>>

\* The operation's future is answered; its result is the SDK's answer or a
\* sanitized failure, which is raised.
TakeAnswer(c) ==
  /\ callPc[c] = "wait"
  /\ \/ answer[c] = "result" /\ Return(c, "answer")
     \/ answer[c] = "unavailable" /\ Return(c, Failed(c))
  /\ UNCHANGED <<runtimeVars, leaseVars, mine, late, cancelRequested,
                 closeVars, avars>>

\* (mutants) The call gives up and forgets the operation; it waits for the
\* operation to be gone first.
GiveUpQuietly(c) ==
  /\ callPc[c] = "wait" /\ late[c] /\ answer[c] = "pending"
  /\ Return(c, "timeout")
  /\ UNCHANGED <<runtimeVars, leaseVars, mine, late, cancelRequested,
                 closeVars, avars>>

GiveUpDrained(c) == stage[c] = "free" /\ GiveUpQuietly(c)

\* The wait runs out.  An async wait cancels the future; a sync one raises what
\* may not be the TimeoutError the handler names.
GiveUp(c) ==
  /\ callPc[c] = "wait" /\ late[c] /\ answer[c] = "pending"
  /\ IF BuiltinTimeout \/ c \in AsyncCalls
     THEN Goto(c, "cancel") ELSE Return(c, "timeout")
  /\ IF c \in AsyncCalls
     THEN answer' = [answer EXCEPT ![c] = "cancelled"] ELSE UNCHANGED answer
  /\ UNCHANGED <<runtimeVars, leaseVars, mine, late, cancelRequested,
                 closeVars, open, stage>>

\* operation.cancel()
CancelOperation(c) ==
  /\ callPc[c] = "cancel"
  /\ cancelRequested' = [cancelRequested EXCEPT ![c] = TRUE]
  /\ Return(c, "timeout")
  /\ UNCHANGED <<runtimeVars, leaseVars, mine, late, closeVars, avars>>

\* The host cancels the coroutine: the future is cancelled, the operation not.
HostCancel(c) ==
  /\ c \in AsyncCalls /\ callPc[c] = "wait"
  /\ Return(c, "cancelled")
  /\ answer' = [answer EXCEPT ![c] = IF @ = "pending" THEN "cancelled" ELSE @]
  /\ UNCHANGED <<runtimeVars, leaseVars, mine, late, cancelRequested,
                 closeVars, open, stage>>

Call(c) ==
  /\ \/ Begin(c) \/ Preflight(c) \/ LeaseForOperation(c) \/ Submit(c)
     \/ Started(c) \/ TakeAnswer(c) \/ GiveUp(c) \/ CancelOperation(c)
     \/ HostCancel(c)
  /\ UNCHANGED place

Expire(c) ==
  /\ callPc[c] \notin {"idle", "done"} /\ ~late[c]
  /\ late' = [late EXCEPT ![c] = TRUE]
  /\ UNCHANGED <<place, runtimeVars, leaseVars, callPc, mine, outcome,
                 cancelRequested, closeVars, avars>>

-----------------------------------------------------------------------------
(* close().                                                                *)

CloserTo(k, pc) == closerPc' = [closerPc EXCEPT ![k] = pc]

\* (mutant) The lease is handed over but the runtime stays open.
CloseTakes(k) ==
  LET r == Closes(k) IN
  /\ closerPc[k] = "idle"
  /\ taken' = [taken EXCEPT ![k] = held[r]] /\ held' = [held EXCEPT ![r] = 0]
  /\ CloserTo(k, IF held[r] # 0 THEN "release" ELSE "done")
  /\ UNCHANGED <<place, closed, loaded, leaseVars, callVars, avars>>

\* Under the lock: a closed runtime is left alone.
CloseBegin(k) ==
  LET r == Closes(k) IN
  /\ closerPc[k] = "idle"
  /\ IF closed[r]
     THEN CloserTo(k, "done") /\ UNCHANGED <<closed, held, taken>>
     ELSE /\ closed' = [closed EXCEPT ![r] = TRUE]
          /\ taken' = [taken EXCEPT ![k] = held[r]]
          /\ held' = [held EXCEPT ![r] = 0]
          /\ CloserTo(k, IF held[r] # 0 THEN "release" ELSE "done")
  /\ UNCHANGED <<place, loaded, leaseVars, callVars, avars>>

\* (mutants) The lease is revoked and its operations left running; every
\* operation of the process is cancelled.
CloseReleaseQuietly(k) ==
  LET r == Closes(k) IN
  /\ closerPc[k] = "release"
  /\ revoked' = [revoked EXCEPT ![r] = @ \cup {taken[k]}]
  /\ CloserTo(k, "done")
  /\ UNCHANGED <<place, runtimeVars, acquired, callVars, taken, avars>>

CloseReleaseAll(k) ==
  LET r == Closes(k) IN
  /\ closerPc[k] = "release"
  /\ revoked' = [revoked EXCEPT ![r] = @ \cup {taken[k]}]
  /\ cancelRequested' = [c \in Calls |-> c \in Service!Holding \/ cancelRequested[c]]
  /\ CloserTo(k, "done")
  /\ UNCHANGED <<place, runtimeVars, acquired, callPc, mine, late, outcome,
                 taken, avars>>

\* After it: broker.release revokes the lease and cancels its operations.
CloseRelease(k) ==
  LET r == Closes(k) IN
  /\ closerPc[k] = "release"
  /\ revoked' = [revoked EXCEPT ![r] = @ \cup {taken[k]}]
  /\ cancelRequested' =
       [c \in Calls |-> \/ cancelRequested[c]
                        \/ /\ c \in Service!Holding
                           /\ RuntimeOf(c) = r /\ mine[c] = taken[k]]
  /\ CloserTo(k, "done")
  /\ UNCHANGED <<place, runtimeVars, acquired, callPc, mine, late, outcome,
                 taken, avars>>

-----------------------------------------------------------------------------
(* The broker serves what it admitted, and is shut down by others.         *)

BrokerStep ==
  /\ \/ Service!Close
     \/ \E c \in Calls :
          \/ /\ stage[c] = "held" => Service!Wanted(c)
             /\ Service!Begin(c) \/ Service!End(c)
          \/ Service!Free(c)
          \/ Service!Resolve(c) /\ answer'[c] # "cancelled"
  /\ UNCHANGED <<place, runtimeVars, leaseVars, callVars, closeVars>>

Next == \/ \E c \in Calls : Call(c) \/ Expire(c)
        \/ \E k \in Closers : CloseBegin(k) \/ CloseRelease(k)
        \/ BrokerStep

Spec == Init /\ [][Next]_vars

\* The callers' threads run and time passes; the broker and close() owe the
\* calls nothing.
Fairness ==
  \A c \in Calls : WF_vars(Call(c) /\ callPc[c] # "idle") /\ WF_vars(Expire(c))

FairSpec == Spec /\ Fairness

-----------------------------------------------------------------------------
(* Properties.                                                             *)

\* The types of the runtimes, leases, calls and close()s; a runtime acquires
\* one lease in its life, whatever calls and close()s it serves.
TypeOK ==
  /\ place \in Placements
  /\ closed \in [Runtimes -> BOOLEAN] /\ loaded \in [Runtimes -> BOOLEAN]
  /\ held \in [Runtimes -> 0..1] /\ acquired \in [Runtimes -> 0..1]
  /\ revoked \in [Runtimes -> SUBSET {1}]
  /\ callPc \in [Calls -> {"idle", "preflight", "lease", "submit", "starting",
                           "wait", "cancel", "done"}]
  /\ mine \in [Calls -> 0..1] /\ late \in [Calls -> BOOLEAN]
  /\ outcome \in [Calls -> {"none", "invalid", "timeout", "unavailable",
                            "answer", "cancelled"}]
  /\ cancelRequested \in [Calls -> BOOLEAN]
  /\ closerPc \in [Closers -> {"idle", "release", "done"}]
  /\ taken \in [Closers -> 0..1]
  /\ open \in BOOLEAN
  /\ stage \in [Calls -> {"new", "held", "busy", "over", "free"}]
  /\ answer \in [Calls -> {"pending", "result", "unavailable", "cancelled"}]

\* No lease leaks: a lease that is live in the broker is the one the runtime
\* holds or the one a close() is about to release, and there is only one.
LeaseHasOwner ==
  \A r \in Runtimes : \A l \in Live(r) :
    \/ l = held[r]
    \/ \E k \in Closers :
         closerPc[k] = "release" /\ Closes(k) = r /\ taken[k] = l /\ held[r] = 0

\* A close() took the runtime's lease or found none, and every close() that
\* was called on it has returned.
Unloaded(r) ==
  /\ closed[r]
  /\ \A k \in Closers : Closes(k) = r => closerPc[k] = "done"
  /\ \E k \in Closers : Closes(k) = r

\* Nothing is admitted for an unloaded profile, not even for a call that took
\* the lease before close() did.
NoAdmissionAfterClose ==
  [][\A c \in Calls : stage[c] = "new" /\ stage'[c] # "new"
                      => ~Unloaded(RuntimeOf(c))]_vars

\* What an unloaded profile still runs has been told to stop.
UnloadCancels ==
  \A c \in Calls : Unloaded(RuntimeOf(c)) /\ c \in Service!Holding
                   => cancelRequested[c]

\* Closing a profile cancels no operation of another: an operation is
\* cancelled by its own call or by a close() of its own runtime.
CancelsOwn ==
  [][\A c \in Calls : ~cancelRequested[c] /\ cancelRequested'[c]
       => \/ callPc[c] = "cancel" /\ callPc'[c] = "done"
          \/ \E k \in Closers : /\ Closes(k) = RuntimeOf(c)
                                /\ closerPc[k] # closerPc'[k]]_vars

\* A call that gave up has cancelled the work it left behind.
GaveUpIsCancelled ==
  \A c \in Calls : /\ outcome[c] = "timeout" /\ c \in Service!Holding
                   /\ answer[c] \in {"pending", "cancelled"}
                   => cancelRequested[c]

\* Every call returns, even if the broker never answers.
CallsReturn == \A c \in Calls : callPc[c] # "idle" ~> callPc[c] = "done"

-----------------------------------------------------------------------------
(* Each runtime implements RuntimeLease, told by what the broker sees; and *)
(* all of them, with the broker's own steps, are within BrokerService.     *)

LifeOf(r) == IF Live(r) = {} THEN (IF closed[r] THEN "closed" ELSE "fresh")
             ELSE IF closed[r] THEN "releasing" ELSE "leased"

Life(r) == INSTANCE RuntimeLease WITH life <- LifeOf(r)

\* A runtime leases once and is closed once, whoever calls and closes it.
LeasesOnce == \A r \in Runtimes : Life(r)!Spec

\* The runtimes use the broker as BrokerService lets them.
UsesService == Service!ServiceSpec
=============================================================================
