---------------------------- MODULE BrokerOwner ----------------------------
(***************************************************************************)
(* How the runtimes of one process come by one broker: _lease_for_operation*)
(* and _load_broker of runtime.py, the import of the broker package, and   *)
(* the process test of acquire and try_submit of core.py.                  *)
(*                                                                         *)
(* Each profile has its own copy of the plugin, with the build identity it *)
(* was shipped with, and its own runtime.  The broker package is installed *)
(* once and belongs to the process: sys.modules keeps the one module.  The *)
(* loader looks at the files one after the other; meanwhile other runtimes *)
(* load, an upgrade replaces the files one by one, and the host may fork.  *)
(* After a fork the behaviour is the child's: its memory is a copy, with   *)
(* every lock as it was and only the thread that forked.                   *)
(***************************************************************************)
EXTENDS Naturals, Sequences

CONSTANTS
  Threads, NoThread,
  Runtimes,
  Shipments,       \* the builds the runtimes' copies of the plugin may have
  MaxCalls         \* (bound) calls of the threads, together

Builds == {1, 2}   \* what is installed at first, and by the upgrade
Files  == {"identity", "init", "core"}

ASSUME OwnerAssumption ==
  /\ NoThread \notin Threads /\ Runtimes # {}
  /\ Shipments \subseteq [Runtimes -> Builds] /\ MaxCalls \in Nat

VARIABLES
  native,                               \* the runtimes' own builds
  file,                                 \* the installed package, by file
  init, identity, core, instances,      \* sys.modules: 0 is not imported
  process, gone,                        \* this process; threads it lacks
  runtimeLock, importLock, brokerLock,
  closed, broker, lease,                \* the runtimes, under runtimeLock
  pc, on, saw, calls,                   \* a thread's call
  disturbed, served                     \* history

procVars    == <<native, process, gone>>
moduleVars  == <<init, identity, core, instances>>
lockVars    == <<runtimeLock, importLock, brokerLock>>
runtimeVars == <<closed, broker, lease>>
history     == <<disturbed, served>>
vars == <<procVars, file, moduleVars, lockVars, runtimeVars, pc, on, saw,
          calls, history>>

\* A module object: whether it comes from the installed package, the sources it
\* was executed from, the BUILD_SHA256 it imported, the process whose id it
\* keeps, and whether it has declared itself BROKEN.
Module(sources, sha) ==
  [here |-> TRUE, sources |-> sources, sha |-> sha, owner |-> process,
   broken |-> FALSE]

Shadow == [here |-> FALSE, sources |-> <<0, 0>>, sha |-> 1, owner |-> "first",
           broken |-> FALSE]

Nothing == [f \in Files |-> 0]

Init ==
  /\ native \in Shipments /\ file = [f \in Files |-> 1]
  /\ init = 0 /\ identity = 0
  /\ \/ core = 0 /\ instances = <<>>
     \/ core = 1 /\ instances = <<Shadow>>   \* the name is taken
  /\ process = "first" /\ gone = {}
  /\ runtimeLock = [r \in Runtimes |-> NoThread]
  /\ importLock = NoThread /\ brokerLock = NoThread
  /\ closed = [r \in Runtimes |-> FALSE] /\ broker = [r \in Runtimes |-> 0]
  /\ lease = [r \in Runtimes |-> FALSE]
  /\ pc = [t \in Threads |-> "idle"]
  /\ on = [t \in Threads |-> CHOOSE r \in Runtimes : TRUE]
  /\ saw = [t \in Threads |-> Nothing]
  /\ calls = 0
  /\ disturbed = FALSE /\ served = {}

-----------------------------------------------------------------------------
(* _lease_for_operation, under the runtime's lock.                         *)

Goto(t, p) == pc' = [pc EXCEPT ![t] = p]

\* The call is over, and its local variables with it.
Back(t) == Goto(t, "idle") /\ saw' = [saw EXCEPT ![t] = Nothing]

Unlock(t)  == runtimeLock' = [runtimeLock EXCEPT ![on[t]] = NoThread]

Call(t, r) ==
  /\ pc[t] = "idle" /\ calls < MaxCalls
  /\ calls' = calls + 1 /\ on' = [on EXCEPT ![t] = r]
  /\ Goto(t, "lock")
  /\ UNCHANGED <<procVars, file, moduleVars, lockVars, runtimeVars, saw,
                 history>>

\* A closed runtime, or another home than its own, answers nothing.
Enter(t) ==
  LET r == on[t] IN
  /\ pc[t] = "lock" /\ runtimeLock[r] = NoThread
  /\ \/ UNCHANGED runtimeLock /\ Goto(t, "idle")
     \/ /\ ~closed[r] /\ lease[r]
        /\ UNCHANGED runtimeLock /\ Goto(t, "submit")
     \/ /\ ~closed[r] /\ ~lease[r]
        /\ runtimeLock' = [runtimeLock EXCEPT ![r] = t]
        /\ Goto(t, IF broker[r] = 0 THEN "origin" ELSE "acquire")
  /\ UNCHANGED <<procVars, file, moduleVars, importLock, brokerLock,
                 runtimeVars, on, saw, calls, history>>

\* (mutant) The lock is not given back.
RaiseLocked(t) ==
  /\ closed' = [closed EXCEPT ![on[t]] = TRUE]
  /\ Back(t) /\ UNCHANGED <<broker, lease, runtimeLock>>

\* The loader raised: the runtime closes itself, the lock is given back.
Raise(t) ==
  /\ closed' = [closed EXCEPT ![on[t]] = TRUE]
  /\ Unlock(t) /\ Back(t) /\ UNCHANGED <<broker, lease>>

-----------------------------------------------------------------------------
(* _load_broker.                                                           *)

Looking   == {"origin", "identity", "digestInit", "digestCore"}
Importing == {"runInit", "runIdentity", "runCore"}
Loading   == Looking \cup {"import", "check"} \cup Importing

\* A file is missing, a link, too large or malformed; the distribution does not
\* own the package; the package does not run.  A package whose __init__ failed
\* leaves sys.modules; one whose core failed stays.
LoadFails(t) ==
  /\ pc[t] \in Loading /\ Raise(t)
  /\ importLock' = IF importLock = t THEN NoThread ELSE importLock
  /\ init' = IF pc[t] = "runIdentity" /\ identity = 0 THEN 0 ELSE init
  /\ UNCHANGED <<procVars, file, identity, core, instances, brokerLock, on,
                 calls, history>>

\* Either the loader goes on, with what it has seen so far, or it raises.
GoOn(t, seen, good, p) ==
  /\ \/ /\ good /\ Goto(t, p) /\ saw' = [saw EXCEPT ![t] = seen]
        /\ UNCHANGED <<closed, runtimeLock, broker, lease>>
     \/ ~good /\ Raise(t)
  /\ UNCHANGED <<procVars, file, moduleVars, importLock, brokerLock, on, calls,
                 history>>

\* A module of that name must come from the package the distribution owns.
CheckOrigin(t) ==
  /\ pc[t] = "origin"
  /\ GoOn(t, Nothing, core # 0 => instances[core].here, "identity")

Look(t, f) == [saw[t] EXCEPT ![f] = file[f]]

ReadIdentity(t) ==
  pc[t] = "identity" /\ GoOn(t, Look(t, "identity"), TRUE, "digestInit")

DigestInit(t) ==
  pc[t] = "digestInit" /\ GoOn(t, Look(t, "init"), TRUE, "digestCore")

\* (mutant) The literals are compared, the digest is not.
DigestNothing(t) ==
  /\ pc[t] = "digestCore"
  /\ GoOn(t, Look(t, "core"), saw[t]["identity"] = native[on[t]], "import")

\* The identity is the digest of the sources and the plugin's own.
DigestCore(t) ==
  LET seen == Look(t, "core") IN
  /\ pc[t] = "digestCore"
  /\ GoOn(t, seen, \A f \in Files : seen[f] = native[on[t]], "import")

\* (mutant) The package is executed for every runtime.
ImportFresh(t) ==
  /\ pc[t] = "import" /\ importLock = NoThread
  /\ importLock' = t /\ Goto(t, "runInit")
  /\ UNCHANGED <<procVars, file, moduleVars, runtimeLock, brokerLock,
                 runtimeVars, on, saw, calls, history>>

\* import_module: the module there is, once nobody is importing it.
Import(t) ==
  /\ pc[t] = "import" /\ importLock = NoThread
  /\ IF core # 0 THEN Goto(t, "check") /\ UNCHANGED importLock
                 ELSE Goto(t, "runInit") /\ importLock' = t
  /\ UNCHANGED <<procVars, file, moduleVars, runtimeLock, brokerLock,
                 runtimeVars, on, saw, calls, history>>

\* What an earlier import that failed has left in sys.modules is not run again.
Cached(m, f) == IF m = 0 THEN file[f] ELSE m

RunPackage(t) ==
  /\ \/ /\ pc[t] = "runInit" /\ Goto(t, "runIdentity")
        /\ init' = Cached(init, "init") /\ UNCHANGED identity
     \/ /\ pc[t] = "runIdentity" /\ Goto(t, "runCore")
        /\ identity' = Cached(identity, "identity") /\ UNCHANGED init
  /\ UNCHANGED <<procVars, file, core, instances, lockVars, runtimeVars, on,
                 saw, calls, history>>

RunCore(t) ==
  /\ pc[t] = "runCore" /\ Goto(t, "check")
  /\ instances' = Append(instances, Module(<<init, file["core"]>>, identity))
  /\ core' = Len(instances) + 1 /\ importLock' = NoThread
  /\ UNCHANGED <<procVars, file, init, identity, runtimeLock, brokerLock,
                 runtimeVars, on, saw, calls, history>>

\* The module that runs must say it is the build that was digested.
CheckModule(t) ==
  /\ pc[t] = "check"
  /\ \/ /\ instances[core].sha = saw[t]["identity"]
        /\ broker' = [broker EXCEPT ![on[t]] = core]
        /\ Goto(t, "acquire") /\ saw' = [saw EXCEPT ![t] = Nothing]
        /\ UNCHANGED <<closed, lease, runtimeLock>>
     \/ instances[core].sha # saw[t]["identity"] /\ Raise(t)
  /\ UNCHANGED <<procVars, file, moduleVars, importLock, brokerLock, on, calls,
                 history>>

Load(t) ==
  \/ CheckOrigin(t) \/ ReadIdentity(t) \/ DigestInit(t) \/ DigestCore(t)
  \/ Import(t) \/ RunPackage(t) \/ RunCore(t) \/ CheckModule(t)

-----------------------------------------------------------------------------
(* acquire and try_submit: each takes the broker's lock and then asks      *)
(* whether it is in the process that imported the module.                  *)

Mine(t) == instances[broker[on[t]]]

Ours(t) == Mine(t).owner = process

TakeBrokerLock(t) ==
  /\ brokerLock = NoThread /\ brokerLock' = t
  /\ \/ pc[t] = "acquire" /\ Goto(t, "acquiring")
     \/ pc[t] = "submit" /\ Goto(t, "submitting")
  /\ UNCHANGED <<procVars, file, moduleVars, runtimeLock, importLock,
                 runtimeVars, on, saw, calls, history>>

\* Both locks are given back; without a lease the call is refused.
Acquire(t) ==
  LET r == on[t] IN
  /\ pc[t] = "acquiring" /\ brokerLock' = NoThread /\ Unlock(t)
  /\ \/ /\ Ours(t) /\ ~Mine(t).broken
        /\ lease' = [lease EXCEPT ![r] = TRUE] /\ Goto(t, "submit")
        /\ UNCHANGED instances
     \/ /\ Goto(t, "idle") /\ UNCHANGED lease      \* refused, or all given out
        /\ instances' = [instances EXCEPT ![broker[r]].broken = @ \/ ~Ours(t)]
  /\ UNCHANGED <<procVars, file, init, identity, core, importLock, closed,
                 broker, on, saw, calls, history>>

\* (mutant) The process is not asked for.
SubmitAnywhere(t) ==
  /\ pc[t] = "submitting" /\ brokerLock' = NoThread /\ Goto(t, "idle")
  /\ \/ ~Mine(t).broken /\ served' = served \cup {<<broker[on[t]], process>>}
     \/ UNCHANGED served
  /\ UNCHANGED <<procVars, file, moduleVars, runtimeLock, importLock,
                 runtimeVars, on, saw, calls, disturbed>>

\* Admitted, or refused for this or another reason (see Broker).
TrySubmit(t) ==
  /\ pc[t] = "submitting" /\ brokerLock' = NoThread /\ Goto(t, "idle")
  /\ \/ /\ Ours(t) /\ ~Mine(t).broken
        /\ served' = served \cup {<<broker[on[t]], process>>}
     \/ UNCHANGED served
  /\ UNCHANGED <<procVars, file, moduleVars, runtimeLock, importLock,
                 runtimeVars, on, saw, calls, disturbed>>

Step(t) == t \notin gone /\ (\/ Enter(t) \/ Load(t) \/ LoadFails(t)
                             \/ TakeBrokerLock(t) \/ Acquire(t) \/ TrySubmit(t))

-----------------------------------------------------------------------------
(* The environment.                                                        *)

\* Some loader is between its first look at the files and its verdict.
AtWork == \E t \in Threads \ gone : pc[t] \in Loading \ {"origin", "identity"}

Upgrade(f) ==
  /\ file[f] = 1 /\ file' = [file EXCEPT ![f] = 2]
  /\ disturbed' = (disturbed \/ AtWork)
  /\ UNCHANGED <<procVars, moduleVars, lockVars, runtimeVars, pc, on, saw,
                 calls, served>>

\* os.fork() by a thread that is in none of this code.
Fork(t) ==
  /\ process = "first" /\ pc[t] = "idle"
  /\ process' = "child" /\ gone' = Threads \ {t}
  /\ pc' = [u \in Threads |-> "idle"] /\ saw' = [u \in Threads |-> Nothing]
  /\ UNCHANGED <<native, file, moduleVars, lockVars, runtimeVars, on, calls,
                 history>>

Next == \/ \E t \in Threads : \/ Step(t) \/ Fork(t)
                              \/ t \notin gone /\ \E r \in Runtimes : Call(t, r)
        \/ \E f \in Files : Upgrade(f)

Spec == Init /\ [][Next]_vars

\* Threads run; the host need not call, upgrade or fork.
FairSpec == Spec /\ \A t \in Threads : WF_vars(Step(t))

-----------------------------------------------------------------------------
(* Properties.                                                             *)

\* The types of the state.
TypeOK ==
  /\ native \in Shipments /\ file \in [Files -> Builds]
  /\ init \in {0} \cup Builds
  /\ identity \in {0} \cup Builds /\ core \in 0..Len(instances)
  /\ instances \in Seq([here : BOOLEAN, sha : Builds, broken : BOOLEAN,
                        sources : (0..2) \X (0..2), owner : {"first", "child"}])
  /\ process \in {"first", "child"} /\ gone \subseteq Threads
  /\ runtimeLock \in [Runtimes -> Threads \cup {NoThread}]
  /\ importLock \in Threads \cup {NoThread}
  /\ brokerLock \in Threads \cup {NoThread}
  /\ closed \in [Runtimes -> BOOLEAN] /\ lease \in [Runtimes -> BOOLEAN]
  /\ broker \in [Runtimes -> 0..Len(instances)]
  /\ pc \in [Threads -> {"idle", "lock", "acquire", "acquiring", "submit",
                         "submitting"} \cup Loading]
  /\ on \in [Threads -> Runtimes] /\ calls \in 0..MaxCalls
  /\ saw \in [Threads -> [Files -> 0..2]]
  /\ disturbed \in BOOLEAN
  /\ served \subseteq (1..Len(instances)) \X {"first", "child"}

\* "fail closed without a duplicate per-profile owner" (docs/THREAT-MODEL.md):
\* the runtimes that have a broker have the same one, which comes from the
\* owned package and says it is the build each of them was shipped with; one
\* that was refused has none and stays closed.
OneOwner ==
  /\ \A r \in Runtimes : closed[r] => broker[r] = 0
  /\ \A r, s \in Runtimes : broker[r] # 0 /\ broker[s] # 0 =>
       /\ broker[r] = broker[s]
       /\ instances[broker[r]].here /\ instances[broker[r]].sha = native[r]

\* "Build and runtime checks reject drift before broker admission", as far as
\* it is so: the sources that run are those of the runtime's own build, unless
\* a file was replaced while some loader of the process was between its first
\* look at the files and its verdict.
DriftIsRefused ==
  \A r \in Runtimes : broker[r] # 0 /\ ~disturbed =>
    instances[broker[r]].sources = <<native[r], native[r]>>

\* A broker admits work only in the process that imported it: a child refuses
\* with the broker and the leases it inherited, though its memory says RUNNING.
OwnProcessOnly == \A s \in served : instances[s[1]].owner = s[2]

\* A lock whose holder stayed in the parent.
Orphaned == \/ importLock \in gone \/ brokerLock \in gone
            \/ \E r \in Runtimes : runtimeLock[r] \in gone

\* Every call comes back, whatever loads, raises and forks meanwhile: the three
\* locks are taken in one order and given back on every path.  The exception is
\* a child forked while another thread held one of them.
CallsComeBack ==
  \A t \in Threads : pc[t] # "idle" ~> pc[t] = "idle" \/ Orphaned
=============================================================================
