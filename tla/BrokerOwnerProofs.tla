------------------------- MODULE BrokerOwnerProofs -------------------------
(***************************************************************************)
(* The safety of BrokerOwner for every number of threads, runtimes, calls  *)
(* and shipments: one owner, no unnoticed drift, no work after a fork.     *)
(***************************************************************************)
EXTENDS BrokerOwner, TLAPS

Accepted == Importing \cup {"import", "check"}
Served   == {"acquire", "acquiring", "submit", "submitting"}

\* What a thread's place says about its runtime, the import and the modules.
Place(t) ==
  /\ t \in gone => pc[t] = "idle" /\ process = "child"
  /\ pc[t] \in Loading \cup {"acquire", "acquiring"} => runtimeLock[on[t]] = t
  /\ pc[t] \in Loading => broker[on[t]] = 0 /\ ~closed[on[t]]
  /\ pc[t] \in Served => broker[on[t]] # 0
  /\ pc[t] \in Importing => importLock = t /\ core = 0
  /\ importLock = t /\ t \notin gone => pc[t] \in Importing
  /\ pc[t] = "check" => core # 0
  /\ pc[t] \in Loading \ {"origin"} /\ core # 0 => instances[core].here
  /\ pc[t] \in Accepted => saw[t]["identity"] = native[on[t]]

\* How far an import has come.
Sofar(t) ==
  /\ pc[t] = "runInit" /\ init # 0 => identity # 0
  /\ pc[t] \in {"runIdentity", "runCore"} => init # 0
  /\ pc[t] = "runCore" => identity # 0
  /\ pc[t] = "runIdentity" /\ identity = 0 /\ ~disturbed => init = file["init"]

\* What a loader has seen is what is installed, unless it was disturbed.
Seen(t) ==
  ~disturbed =>
    /\ pc[t] \in Loading \ {"origin", "identity"} =>
         saw[t]["identity"] = file["identity"]
    /\ pc[t] \in Loading \ {"origin", "identity", "digestInit"} =>
         saw[t]["init"] = file["init"]
    /\ pc[t] \in Accepted => \A f \in Files : file[f] = native[on[t]]

\* What sys.modules holds of the package.
Modules ==
  /\ identity # 0 => init # 0
  /\ importLock = NoThread /\ init # 0 => identity # 0
  /\ identity <= file["identity"]
  /\ identity # 0 /\ ~disturbed => init = identity
  /\ core # 0 /\ instances[core].here =>
       /\ instances[core].sources[2] <= file["core"]
       /\ ~disturbed => /\ instances[core].sources[1] = instances[core].sha
                        /\ instances[core].sources[2] >= instances[core].sha

\* A runtime's own state.
Own(r) ==
  /\ lease[r] => broker[r] # 0
  /\ closed[r] => broker[r] = 0
  /\ broker[r] # 0 => /\ broker[r] = core /\ instances[core].here
                      /\ instances[core].sha = native[r]
                      /\ ~disturbed =>
                           instances[core].sources = <<native[r], native[r]>>

IInv == /\ TypeOK /\ Modules /\ OwnProcessOnly
        /\ \A t \in Threads : Place(t) /\ Sofar(t) /\ Seen(t)
        /\ \A r \in Runtimes : Own(r)

ModuleRecord ==
  [here : BOOLEAN, sha : Builds, broken : BOOLEAN,
   sources : (0..2) \X (0..2), owner : {"first", "child"}]

LEMMA InitIInv == ASSUME Init PROVE IInv
<1> USE OwnerAssumption DEF Init
<1>1. native \in [Runtimes -> Builds]
  OBVIOUS
<1>2. Shadow \in ModuleRecord /\ <<Shadow>> \in Seq(ModuleRecord)
  BY DEF Shadow, ModuleRecord, Builds
<1>3. TypeOK
  <2>1. /\ instances \in Seq(ModuleRecord) /\ core \in 0..Len(instances)
    <3>1. CASE core = 0 /\ instances = << >>
      BY <3>1
    <3>2. CASE core = 1 /\ instances = <<Shadow>>
      BY <1>2, <3>2
    <3> QED BY <3>1, <3>2
  <2>2. (CHOOSE r \in Runtimes : TRUE) \in Runtimes
    OBVIOUS
  <2>3. Nothing \in [Files -> 0..2]
    BY DEF Nothing
  <2>4. broker \in [Runtimes -> 0..Len(instances)]
    BY <2>1
  <2>5. pc \in [Threads -> {"idle", "lock", "acquire", "acquiring", "submit",
                             "submitting"} \cup Loading]
    OBVIOUS
  <2>6. file \in [Files -> Builds]
    BY DEF Builds
  <2>7. /\ on \in [Threads -> Runtimes] /\ saw \in [Threads -> [Files -> 0..2]]
    BY <2>2, <2>3
  <2>8. instances \in Seq([here : BOOLEAN, sha : Builds, broken : BOOLEAN,
                  sources : (0..2) \X (0..2), owner : {"first", "child"}])
    BY <2>1 DEF ModuleRecord
  <2>9. /\ native \in Shipments
        /\ init \in {0} \cup Builds /\ identity \in {0} \cup Builds
        /\ process \in {"first", "child"} /\ gone \subseteq Threads
        /\ runtimeLock \in [Runtimes -> Threads \cup {NoThread}]
        /\ importLock \in Threads \cup {NoThread}
        /\ brokerLock \in Threads \cup {NoThread}
    OBVIOUS
  <2>10. /\ closed \in [Runtimes -> BOOLEAN] /\ lease \in [Runtimes -> BOOLEAN]
    OBVIOUS
  <2>11. calls \in 0..MaxCalls
    <3>1. calls = 0
      OBVIOUS
    <3> HIDE DEF Init
    <3> QED BY <3>1
  <2>12. disturbed \in BOOLEAN
    OBVIOUS
  <2>13. served \subseteq (1..Len(instances)) \X {"first", "child"}
    <3>1. served = {}
      OBVIOUS
    <3> HIDE DEF Init
    <3> QED BY <3>1
  <2> HIDE DEF Init
  <2> QED BY <2>1, <2>4, <2>5, <2>6, <2>7, <2>8, <2>9, <2>10, <2>11, <2>12, <2>13
          DEF TypeOK
<1>4. Modules
  BY DEF Modules, Shadow, Files
<1>5. \A t \in Threads : Place(t) /\ Sofar(t) /\ Seen(t)
  BY DEF Place, Sofar, Seen, Loading, Looking, Importing, Accepted, Served
<1>6. \A r \in Runtimes : Own(r)
  BY DEF Own
<1> QED BY <1>3, <1>4, <1>5, <1>6 DEF IInv, OwnProcessOnly

Places == {"idle", "lock", "acquire", "acquiring", "submit", "submitting"}
            \cup Loading

LEMMA RaiseTypes ==
  ASSUME TypeOK, NEW t \in Threads, Raise(t)
  PROVE  /\ saw' \in [Threads -> [Files -> 0..2]]
         /\ closed' \in [Runtimes -> BOOLEAN]
         /\ runtimeLock' \in [Runtimes -> Threads \cup {NoThread}]
         /\ pc' \in [Threads -> Places]
<1> USE DEF Raise, Goto, Back, Unlock, TypeOK
<1>1. Nothing \in [Files -> 0..2]
  BY DEF Nothing
<1>2. saw' \in [Threads -> [Files -> 0..2]]
  BY <1>1
<1>3. pc' \in [Threads -> Places]
  BY DEF Places
<1>4. closed' \in [Runtimes -> BOOLEAN]
  OBVIOUS
<1>5. runtimeLock' \in [Runtimes -> Threads \cup {NoThread}]
  OBVIOUS
<1> QED BY <1>2, <1>3, <1>4, <1>5

LEMMA GoOnTypes ==
  ASSUME TypeOK, NEW t \in Threads, NEW seen \in [Files -> 0..2],
         NEW good \in BOOLEAN, NEW p \in Loading, GoOn(t, seen, good, p)
  PROVE  /\ saw' \in [Threads -> [Files -> 0..2]]
         /\ closed' \in [Runtimes -> BOOLEAN]
         /\ runtimeLock' \in [Runtimes -> Threads \cup {NoThread}]
         /\ pc' \in [Threads -> Places]
<1>1. CASE good
  BY <1>1 DEF GoOn, TypeOK, Places, Goto
<1>2. CASE ~good
  BY <1>2, RaiseTypes DEF GoOn
<1> QED BY <1>1, <1>2

\* Steps that leave the modules, the files and the process alone: a call's way
\* through the runtime's lock, the loader's looks, and the broker's lock.
LEMMA LookStep ==
  ASSUME IInv, NEW t \in Threads,
         t \notin gone, NEW seen \in [Files -> 0..2], NEW good \in BOOLEAN, NEW p \in Loading,
         pc[t] \in Looking, GoOn(t, seen, good, p)
  PROVE  /\ TypeOK' /\ Modules' /\ OwnProcessOnly'
         /\ \A r \in Runtimes : Own(r)'
         /\ \A u \in Threads \ {t} : (Place(u) /\ Sofar(u) /\ Seen(u))'
<1> USE DEF IInv, GoOn, Raise, Goto, Back, Unlock, procVars, moduleVars, history, Nothing
<1>1. TypeOK'
  <2>1. /\ saw' \in [Threads -> [Files -> 0..2]]
        /\ closed' \in [Runtimes -> BOOLEAN]
        /\ runtimeLock' \in [Runtimes -> Threads \cup {NoThread}]
        /\ pc' \in [Threads -> {"idle", "lock", "acquire", "acquiring", "submit",
                               "submitting"} \cup Loading]
    BY GoOnTypes DEF Places
  <2> QED BY <2>1 DEF TypeOK
<1>2. Modules' /\ OwnProcessOnly'
  BY DEF Modules, OwnProcessOnly
<1>3. ASSUME NEW r \in Runtimes PROVE Own(r)'
  <2>1. closed'[r] = closed[r] \/ (r = on[t] /\ broker[r] = 0)
    BY DEF Place, Loading, TypeOK
  <2> QED BY <2>1 DEF Own
<1>4. ASSUME NEW u \in Threads \ {t} PROVE (Place(u) /\ Sofar(u) /\ Seen(u))'
  BY <1>4 DEF Place, Sofar, Seen, Loading, TypeOK
<1> QED BY <1>1, <1>2, <1>3, <1>4

LEMMA LookTypes ==
  ASSUME TypeOK, NEW t \in Threads, NEW f \in Files
  PROVE  Look(t, f) \in [Files -> 0..2]
<1>1. saw[t] \in [Files -> 0..2] /\ file[f] \in 0..2
  BY DEF TypeOK, Builds
<1> QED BY <1>1 DEF Look

LEMMA OriginStep ==
  ASSUME IInv, NEW t \in Threads, t \notin gone, CheckOrigin(t)
  PROVE  IInv'
<1> DEFINE good == core # 0 => instances[core].here
<1>1. /\ pc[t] \in Looking /\ "identity" \in Loading
      /\ Nothing \in [Files -> 0..2] /\ good \in BOOLEAN
      /\ GoOn(t, Nothing, good, "identity")
  BY DEF CheckOrigin, Looking, Loading, Nothing
<1> HIDE DEF good
<1>2. /\ TypeOK' /\ Modules' /\ OwnProcessOnly'
      /\ \A r \in Runtimes : Own(r)'
      /\ \A u \in Threads \ {t} : (Place(u) /\ Sofar(u) /\ Seen(u))'
  BY <1>1, LookStep
<1>3. (Place(t) /\ Sofar(t) /\ Seen(t))'
  BY DEF IInv, CheckOrigin, GoOn, Raise, Goto, Back, Unlock, procVars,
         moduleVars, history, Place, Sofar, Seen, TypeOK, Loading, Looking,
         Importing, Accepted, Served
<1> QED BY <1>2, <1>3 DEF IInv

LEMMA ReadStep ==
  ASSUME IInv, NEW t \in Threads, t \notin gone,
         ReadIdentity(t) \/ DigestInit(t)
  PROVE  IInv'
<1> DEFINE f == IF pc[t] = "identity" THEN "identity" ELSE "init"
           p == IF pc[t] = "identity" THEN "digestInit" ELSE "digestCore"
<1>1. /\ pc[t] \in Looking /\ p \in Loading
      /\ f \in Files /\ GoOn(t, Look(t, f), TRUE, p)
  BY DEF ReadIdentity, DigestInit, Looking, Loading, Files
<1>4. Look(t, f) \in [Files -> 0..2]
  BY <1>1, LookTypes DEF IInv
<1> HIDE DEF f, p
<1>2. /\ TypeOK' /\ Modules' /\ OwnProcessOnly'
      /\ \A r \in Runtimes : Own(r)'
      /\ \A u \in Threads \ {t} : (Place(u) /\ Sofar(u) /\ Seen(u))'
  BY <1>1, <1>4, LookStep
<1>3. (Place(t) /\ Sofar(t) /\ Seen(t))'
  BY DEF IInv, ReadIdentity, DigestInit, Look, Files, GoOn, Goto,
         procVars, moduleVars, history, Place, Sofar, Seen, TypeOK, Loading,
         Looking, Importing, Accepted, Served
<1> QED BY <1>2, <1>3 DEF IInv

LEMMA DigestStep ==
  ASSUME IInv, NEW t \in Threads, t \notin gone, DigestCore(t)
  PROVE  IInv'
<1> DEFINE seen == Look(t, "core")
           good == \A f \in Files : seen[f] = native[on[t]]
<1>1. /\ pc[t] \in Looking /\ "import" \in Loading
      /\ GoOn(t, seen, good, "import")
  BY DEF DigestCore, Looking, Loading
<1>5. seen \in [Files -> 0..2] /\ good \in BOOLEAN
  BY LookTypes DEF IInv, Files
<1>0. seen = [saw[t] EXCEPT !["core"] = file["core"]]
  BY DEF Look
<1> HIDE DEF seen, good
<1>2. /\ TypeOK' /\ Modules' /\ OwnProcessOnly'
      /\ \A r \in Runtimes : Own(r)'
      /\ \A u \in Threads \ {t} : (Place(u) /\ Sofar(u) /\ Seen(u))'
  BY <1>1, <1>5, LookStep
<1>3. CASE good
  <2>1. /\ pc'[t] = "import" /\ saw'[t] = seen /\ on' = on /\ core' = core
        /\ native' = native /\ file' = file /\ disturbed' = disturbed
        /\ closed' = closed /\ runtimeLock' = runtimeLock /\ broker' = broker
        /\ instances' = instances /\ gone' = gone
        /\ importLock' = importLock
    BY <1>1, <1>3 DEF GoOn, Goto, IInv, TypeOK, moduleVars, procVars, history
  <2>2. /\ seen["identity"] = saw[t]["identity"] /\ seen["init"] = saw[t]["init"]
        /\ seen["core"] = file["core"]
    BY <1>0 DEF IInv, TypeOK, Files
  <2>3. pc[t] = "digestCore"
    BY DEF DigestCore
  <2>4. \A f \in Files : seen[f] = native[on[t]]
    BY <1>3 DEF good
  <2>5. ~disturbed => \A f \in Files : file[f] = native[on[t]]
    BY <2>2, <2>3, <2>4 DEF IInv, Seen, Files, Loading, Looking
  <2>6. Seen(t)'
    BY <2>1, <2>2, <2>3, <2>5 DEF IInv, Seen, Accepted, Loading, Looking
  <2>7. Place(t)' /\ Sofar(t)'
    BY <2>1, <2>3, <2>4 DEF IInv, Place, Sofar, Files, Loading, Looking,
                            Importing, Accepted, Served
  <2> QED BY <1>2, <2>6, <2>7 DEF IInv
<1>4. CASE ~good
  <2>1. pc'[t] = "idle"
    BY <1>1, <1>4 DEF GoOn, Raise, Back, Goto, IInv, TypeOK
  <2>2. importLock' = importLock /\ gone' = gone
    BY <1>1 DEF GoOn, procVars
  <2>3. pc[t] = "digestCore"
    BY DEF DigestCore
  <2>4. (Place(t) /\ Sofar(t) /\ Seen(t))'
    BY <2>1, <2>2, <2>3 DEF IInv, Place, Sofar, Seen, Loading, Looking,
                            Importing, Accepted, Served
  <2> QED BY <1>2, <2>4 DEF IInv
<1> QED BY <1>3, <1>4

-----------------------------------------------------------------------------
(* The call, the runtime's lock and the import.                            *)

LEMMA CallStep ==
  ASSUME IInv, NEW t \in Threads, t \notin gone, NEW r \in Runtimes, Call(t, r)
  PROVE  IInv'
<1> USE DEF IInv, Call, Goto, procVars, moduleVars, lockVars, runtimeVars,
            history
<1>1. TypeOK'
  <2>1. /\ pc' \in [Threads -> Places] /\ on' \in [Threads -> Runtimes]
        /\ calls' \in 0..MaxCalls
    BY OwnerAssumption DEF TypeOK, Places
  <2> QED BY <2>1 DEF TypeOK, Places
<1>2. Modules' /\ OwnProcessOnly'
  BY DEF Modules, OwnProcessOnly
<1>3. \A s \in Runtimes : Own(s)'
  BY DEF Own
<1>4. ASSUME NEW u \in Threads PROVE (Place(u) /\ Sofar(u) /\ Seen(u))'
  BY <1>4 DEF Place, Sofar, Seen, TypeOK, Loading, Looking, Importing,
              Accepted, Served
<1> QED BY <1>1, <1>2, <1>3, <1>4

LEMMA EnterStep ==
  ASSUME IInv, NEW t \in Threads, t \notin gone, Enter(t)
  PROVE  IInv'
<1> USE DEF IInv, Enter, Goto, procVars, moduleVars, runtimeVars, history
<1>1. TypeOK'
  <2>1. runtimeLock' \in [Runtimes -> Threads \cup {NoThread}]
    BY DEF TypeOK
  <2>2. pc' \in [Threads -> Places]
    BY DEF TypeOK, Places, Loading, Looking
  <2> QED BY <2>1, <2>2 DEF TypeOK, Places
<1>2. Modules' /\ OwnProcessOnly'
  BY DEF Modules, OwnProcessOnly
<1>3. \A s \in Runtimes : Own(s)'
  BY DEF Own
<1>4. ASSUME NEW u \in Threads, u # t PROVE (Place(u) /\ Sofar(u) /\ Seen(u))'
  BY <1>4, OwnerAssumption DEF Place, Sofar, Seen, TypeOK, Loading
<1>5. (Place(t) /\ Sofar(t) /\ Seen(t))'
  BY DEF Place, Sofar, Seen, Own, TypeOK, Loading, Looking, Importing,
         Accepted, Served
<1> QED BY <1>1, <1>2, <1>3, <1>4, <1>5

LEMMA FailStep ==
  ASSUME IInv, NEW t \in Threads, t \notin gone, LoadFails(t)
  PROVE  IInv'
<1> USE DEF IInv, LoadFails, procVars, history
<1>1. TypeOK'
  <2>1. Raise(t)
    OBVIOUS
  <2>2. /\ saw' \in [Threads -> [Files -> 0..2]]
        /\ closed' \in [Runtimes -> BOOLEAN]
        /\ runtimeLock' \in [Runtimes -> Threads \cup {NoThread}]
        /\ pc' \in [Threads -> Places]
    BY <2>1, RaiseTypes
  <2>3. broker' = broker /\ lease' = lease
    BY <2>1 DEF Raise
  <2> QED BY <2>2, <2>3 DEF TypeOK, Places
<1> USE DEF Raise, Goto, Back, Unlock
<1>2. Modules' /\ OwnProcessOnly'
  BY DEF Modules, OwnProcessOnly, Place, Sofar, Loading, Looking, Importing
<1>3. ASSUME NEW r \in Runtimes PROVE Own(r)'
  <2>1. closed'[r] = closed[r] \/ (r = on[t] /\ broker[r] = 0)
    BY DEF Place, TypeOK
  <2> QED BY <2>1 DEF Own
<1>4. ASSUME NEW u \in Threads, u # t PROVE (Place(u) /\ Sofar(u) /\ Seen(u))'
  <2>1. pc[u] \in Importing => init' = init /\ importLock' = importLock
    BY <1>4 DEF Place, Importing
  <2>2. /\ pc'[u] = pc[u] /\ saw'[u] = saw[u] /\ on' = on /\ u # NoThread
        /\ importLock' = u <=> importLock = u
    BY <1>4, OwnerAssumption DEF TypeOK
  <2>3. pc[u] \in Loading \cup {"acquire", "acquiring"} =>
          /\ on[u] # on[t] /\ closed'[on[u]] = closed[on[u]]
          /\ runtimeLock'[on[u]] = runtimeLock[on[u]]
    <3>1. runtimeLock[on[t]] = t
      BY DEF Place
    <3>2. pc[u] \in Loading \cup {"acquire", "acquiring"} => on[u] # on[t]
      BY <1>4, <3>1 DEF Place
    <3>3. on[u] \in Runtimes /\ on[t] \in Runtimes
      BY <1>4 DEF TypeOK
    <3>4. on[u] # on[t] => /\ closed'[on[u]] = closed[on[u]]
                           /\ runtimeLock'[on[u]] = runtimeLock[on[u]]
      BY <3>3 DEF TypeOK
    <3> QED BY <3>2, <3>4
  <2>4. Place(u)'
    BY <2>1, <2>2, <2>3 DEF Place, Loading
  <2> QED BY <2>1, <2>2, <2>4 DEF Sofar, Seen, Importing
<1>5. (Place(t) /\ Sofar(t) /\ Seen(t))'
  BY OwnerAssumption DEF Place, Sofar, Seen, TypeOK, Loading, Looking, Importing,
         Accepted, Served
<1> QED BY <1>1, <1>2, <1>3, <1>4, <1>5

LEMMA ImportStep ==
  ASSUME IInv, NEW t \in Threads, t \notin gone, Import(t)
  PROVE  IInv'
<1> USE DEF IInv, Import, Goto, procVars, moduleVars, runtimeVars, history
<1>1. TypeOK'
  <2>1. pc' \in [Threads -> Places] /\ importLock' \in Threads \cup {NoThread}
    BY DEF TypeOK, Places, Loading, Looking, Importing
  <2> QED BY <2>1 DEF TypeOK, Places
<1>2. Modules' /\ OwnProcessOnly'
  BY DEF Modules, OwnProcessOnly
<1>3. \A s \in Runtimes : Own(s)'
  BY DEF Own
<1>4. ASSUME NEW u \in Threads, u # t PROVE (Place(u) /\ Sofar(u) /\ Seen(u))'
  BY <1>4, OwnerAssumption DEF Place, Sofar, Seen, TypeOK, Loading, Importing
<1>5. (Place(t) /\ Sofar(t) /\ Seen(t))'
  <2>1. Place(t)'
    <3>1. CASE core # 0
      BY <3>1, OwnerAssumption DEF Place, TypeOK, Loading, Looking, Importing,
                                   Accepted, Served
    <3>2. CASE core = 0
      BY <3>2 DEF Place, TypeOK, Loading, Looking, Importing, Accepted, Served
    <3> QED BY <3>1, <3>2
  <2>2. Sofar(t)'
    BY DEF Sofar, Modules, TypeOK
  <2>3. Seen(t)'
    BY DEF Seen, TypeOK, Loading, Looking, Importing, Accepted
  <2> QED BY <2>1, <2>2, <2>3
<1> QED BY <1>1, <1>2, <1>3, <1>4, <1>5

LEMMA PackageStep ==
  ASSUME IInv, NEW t \in Threads, t \notin gone, RunPackage(t)
  PROVE  IInv'
<1> USE DEF IInv, RunPackage, Goto, Cached, procVars, lockVars, runtimeVars,
            history
<1>0. file["init"] \in Builds /\ file["identity"] \in Builds
  BY DEF TypeOK, Files
<1>1. TypeOK'
  <2>1. /\ pc' \in [Threads -> Places] /\ init' \in {0} \cup Builds
        /\ identity' \in {0} \cup Builds
    BY <1>0 DEF TypeOK, Places, Loading, Importing
  <2> QED BY <2>1 DEF TypeOK, Places
<1>2. /\ importLock = t /\ importLock' = t /\ t # NoThread
      /\ pc[t] = "runInit" /\ init # 0 => identity # 0
      /\ ~disturbed => \A f \in Files : file[f] = native[on[t]]
  BY OwnerAssumption DEF Place, Sofar, Seen, Importing, Accepted
<1>3. Modules'
  BY <1>0, <1>2 DEF Modules, Sofar, Files, Builds, TypeOK
<1>4. OwnProcessOnly'
  BY DEF OwnProcessOnly
<1>5. \A s \in Runtimes : Own(s)'
  BY DEF Own
<1>6. ASSUME NEW u \in Threads, u # t PROVE (Place(u) /\ Sofar(u) /\ Seen(u))'
  BY <1>2, <1>6 DEF Place, Sofar, Seen, TypeOK, Loading, Importing
<1>7. (Place(t) /\ Sofar(t) /\ Seen(t))'
  <2>1. Place(t)'
    BY DEF Place, TypeOK, Loading, Importing, Accepted, Served
  <2>2. Sofar(t)'
    BY <1>0, <1>2 DEF Sofar, Modules, TypeOK, Builds, Files
  <2>3. Seen(t)'
    BY DEF Seen, TypeOK, Loading, Importing, Accepted
  <2> QED BY <2>1, <2>2, <2>3
<1> QED BY <1>1, <1>3, <1>4, <1>5, <1>6, <1>7

\* The module is new: no runtime has one yet, and no thread is past the import.
LEMMA CoreStep ==
  ASSUME IInv, NEW t \in Threads, t \notin gone, RunCore(t)
  PROVE  IInv'
<1> DEFINE m == Module(<<init, file["core"]>>, identity)
<1> USE DEF IInv, RunCore, Goto, procVars, runtimeVars, history
<1>1. /\ importLock = t /\ importLock' = NoThread /\ t # NoThread /\ core = 0
      /\ pc[t] \in Importing /\ init \in Builds /\ identity \in Builds
      /\ file["core"] \in Builds /\ file["identity"] \in Builds
  BY OwnerAssumption DEF Place, Sofar, Importing, TypeOK, Files
<1>2. ~disturbed => \A f \in Files : file[f] = native[on[t]]
  BY DEF Seen, Importing, Accepted
<1>3. /\ instances \in Seq(ModuleRecord) /\ m \in ModuleRecord
      /\ instances' = Append(instances, m) /\ core' = Len(instances) + 1
  BY <1>1 DEF TypeOK, Module, ModuleRecord, Builds
<1>4. /\ m.here /\ m.sources[1] = init /\ m.sources[2] = file["core"]
      /\ m.sha = identity
  BY DEF Module
<1> HIDE DEF m
<1>5. /\ instances' \in Seq(ModuleRecord) /\ Len(instances') = Len(instances) + 1
      /\ Len(instances) \in Nat
      /\ core' # 0 /\ instances'[core'] = m
      /\ \A i \in 1..Len(instances) : instances'[i] = instances[i]
  BY <1>3
<1>6. TypeOK'
  <2>1. pc' \in [Threads -> Places]
    BY DEF TypeOK, Places, Loading
  <2>2. broker' \in [Runtimes -> 0..Len(instances')]
    BY <1>5 DEF TypeOK
  <2>3. served' \subseteq (1..Len(instances')) \X {"first", "child"}
    BY <1>5 DEF TypeOK
  <2>4. core' \in 0..Len(instances')
    BY <1>3, <1>5
  <2> QED BY <1>1, <1>5, <2>1, <2>2, <2>3, <2>4
          DEF TypeOK, Places, ModuleRecord
<1>7. Modules'
  BY <1>1, <1>2, <1>4, <1>5 DEF Modules, Builds, Files
<1>8. OwnProcessOnly'
  BY <1>5 DEF OwnProcessOnly, TypeOK
<1>9. ASSUME NEW r \in Runtimes PROVE Own(r)'
  BY <1>1, <1>9 DEF Own
<1>10. ASSUME NEW u \in Threads, u # t PROVE (Place(u) /\ Sofar(u) /\ Seen(u))'
  BY <1>1, <1>4, <1>5, <1>10, OwnerAssumption
     DEF Place, Sofar, Seen, TypeOK, Loading, Importing
<1>11. (Place(t) /\ Sofar(t) /\ Seen(t))'
  <2>1. pc'[t] = "check" /\ pc[t] = "runCore" /\ saw' = saw
    BY DEF TypeOK
  <2>2. Place(t)'
    BY <1>1, <1>4, <1>5, <2>1
       DEF Place, Loading, Looking, Importing, Accepted, Served
  <2>3. Sofar(t)' /\ Seen(t)'
    BY <2>1 DEF Sofar, Seen, Loading, Looking, Importing, Accepted
  <2> QED BY <2>2, <2>3
<1> QED BY <1>6, <1>7, <1>8, <1>9, <1>10, <1>11

\* A runtime takes the module for its broker.
LEMMA CheckStep ==
  ASSUME IInv, NEW t \in Threads, t \notin gone, CheckModule(t)
  PROVE  IInv'
<1> DEFINE r == on[t]
<1> USE DEF IInv
<1>1. /\ pc[t] = "check" /\ core # 0 /\ broker[r] = 0 /\ ~closed[r]
      /\ runtimeLock[r] = t /\ instances[core].here
      /\ saw[t]["identity"] = native[r] /\ r \in Runtimes
      /\ importLock # t
      /\ ~disturbed => \A f \in Files : file[f] = native[r]
  BY DEF CheckModule, Place, Seen, Loading, Looking, Importing, Accepted, TypeOK
<1>2. /\ UNCHANGED <<procVars, file, moduleVars, importLock, brokerLock, on,
                     calls, history>>
  BY DEF CheckModule
<1> USE <1>2 DEF procVars, moduleVars, history
<1>3. Modules' /\ OwnProcessOnly'
  BY DEF Modules, OwnProcessOnly
<1>4. CASE instances[core].sha = saw[t]["identity"]
  <2>1. /\ broker' = [broker EXCEPT ![r] = core]
        /\ pc' = [pc EXCEPT ![t] = "acquire"]
        /\ saw' = [saw EXCEPT ![t] = Nothing]
        /\ UNCHANGED <<closed, lease, runtimeLock>>
    BY <1>4 DEF CheckModule, Raise, Goto
  <2>2. Nothing \in [Files -> 0..2]
    BY DEF Nothing
  <2>3. TypeOK'
    <3>1. /\ broker' \in [Runtimes -> 0..Len(instances')]
          /\ pc' \in [Threads -> Places] /\ saw' \in [Threads -> [Files -> 0..2]]
      BY <2>1, <2>2 DEF TypeOK, Places
    <3> QED BY <2>1, <3>1 DEF TypeOK, Places
  <2>4. ~disturbed => instances[core].sources = <<native[r], native[r]>>
    <3> SUFFICES ASSUME ~disturbed
                 PROVE  instances[core].sources = <<native[r], native[r]>>
      OBVIOUS
    <3>1. instances[core] \in ModuleRecord
      <4>1. instances \in Seq(ModuleRecord) /\ core \in 0..Len(instances)
        BY DEF TypeOK, ModuleRecord
      <4> QED BY <1>1, <4>1
    <3>2. /\ instances[core].sources[1] = native[r]
          /\ instances[core].sources[2] >= native[r]
          /\ instances[core].sources[2] <= native[r]
      BY <1>1, <1>4 DEF Modules, Files
    <3>3. native[r] \in Nat /\ instances[core].sources[2] \in Nat
      BY <1>1, <3>1, OwnerAssumption DEF TypeOK, Builds, ModuleRecord
    <3>4. instances[core].sources[2] = native[r]
      BY <3>2, <3>3
    <3> QED BY <3>1, <3>2, <3>4 DEF ModuleRecord
  <2>5. ASSUME NEW s \in Runtimes PROVE Own(s)'
    BY <1>1, <1>4, <2>1, <2>4, <2>5 DEF Own, TypeOK
  <2>6. ASSUME NEW u \in Threads, u # t PROVE (Place(u) /\ Sofar(u) /\ Seen(u))'
    BY <1>1, <2>1, <2>6 DEF Place, Sofar, Seen, TypeOK, Loading
  <2>7. (Place(t) /\ Sofar(t) /\ Seen(t))'
    BY <1>1, <2>1 DEF Place, Sofar, Seen, TypeOK, Loading, Looking, Importing,
                      Accepted, Served
  <2> QED BY <1>3, <2>3, <2>5, <2>6, <2>7
<1>5. CASE instances[core].sha # saw[t]["identity"]
  <2>1. Raise(t)
    BY <1>5 DEF CheckModule
  <2>2. broker' = broker /\ lease' = lease
    BY <2>1 DEF Raise
  <2>3. TypeOK'
    BY <2>1, <2>2, RaiseTypes DEF TypeOK, Places
  <2>4. /\ closed' = [closed EXCEPT ![r] = TRUE]
        /\ runtimeLock' = [runtimeLock EXCEPT ![r] = NoThread]
        /\ pc' = [pc EXCEPT ![t] = "idle"] /\ saw' = [saw EXCEPT ![t] = Nothing]
    BY <2>1 DEF Raise, Back, Goto, Unlock
  <2>5. ASSUME NEW s \in Runtimes PROVE Own(s)'
    BY <1>1, <2>2, <2>4, <2>5 DEF Own, TypeOK
  <2>6. ASSUME NEW u \in Threads, u # t PROVE (Place(u) /\ Sofar(u) /\ Seen(u))'
    BY <1>1, <2>2, <2>4, <2>6 DEF Place, Sofar, Seen, TypeOK, Loading
  <2>7. (Place(t) /\ Sofar(t) /\ Seen(t))'
    BY <1>1, <2>4 DEF Place, Sofar, Seen, TypeOK, Loading, Looking, Importing,
                      Accepted, Served
  <2> QED BY <1>3, <2>3, <2>5, <2>6, <2>7
<1> QED BY <1>4, <1>5

-----------------------------------------------------------------------------
(* The broker's lock, and the environment.                                 *)

LEMMA TakeStep ==
  ASSUME IInv, NEW t \in Threads, t \notin gone, TakeBrokerLock(t)
  PROVE  IInv'
<1> USE DEF IInv, TakeBrokerLock, Goto, procVars, moduleVars, runtimeVars,
            history
<1>1. TypeOK'
  <2>1. pc' \in [Threads -> Places]
    BY DEF TypeOK, Places
  <2> QED BY <2>1 DEF TypeOK, Places
<1>2. Modules' /\ OwnProcessOnly'
  BY DEF Modules, OwnProcessOnly
<1>3. \A s \in Runtimes : Own(s)'
  BY DEF Own
<1>4. ASSUME NEW u \in Threads PROVE (Place(u) /\ Sofar(u) /\ Seen(u))'
  BY <1>4 DEF Place, Sofar, Seen, TypeOK, Loading, Looking, Importing,
              Accepted, Served
<1> QED BY <1>1, <1>2, <1>3, <1>4

\* acquire may declare the module broken; nothing else of it changes.
LEMMA AcquireStep ==
  ASSUME IInv, NEW t \in Threads, t \notin gone, Acquire(t)
  PROVE  IInv'
<1> DEFINE r == on[t]
           b == broker[r]
<1> USE DEF IInv
<1>1. /\ pc[t] = "acquiring" /\ b # 0 /\ r \in Runtimes
      /\ runtimeLock[r] = t /\ importLock # t
  BY DEF Acquire, Place, Served, Loading, Looking, Importing, TypeOK
<1>2. /\ brokerLock' = NoThread
      /\ runtimeLock' = [runtimeLock EXCEPT ![r] = NoThread]
      /\ UNCHANGED <<native, process, gone, file, init, identity, core,
                     importLock, closed, broker, on, saw, calls, disturbed,
                     served>>
  BY DEF Acquire, Unlock, procVars, history
<1>3. /\ lease' = lease \/ lease' = [lease EXCEPT ![r] = TRUE]
      /\ \E p \in {"idle", "submit"} : pc' = [pc EXCEPT ![t] = p]
  BY DEF Acquire, Goto
<1>4. instances \in Seq(ModuleRecord) /\ b \in 1..Len(instances)
  BY <1>1 DEF TypeOK, ModuleRecord
<1>5. /\ instances' \in Seq(ModuleRecord) /\ Len(instances') = Len(instances)
      /\ \A i \in 1..Len(instances) :
           /\ instances'[i].here = instances[i].here
           /\ instances'[i].sha = instances[i].sha
           /\ instances'[i].sources = instances[i].sources
           /\ instances'[i].owner = instances[i].owner
  <2>1. CASE instances' = instances
    BY <1>4, <2>1
  <2>2. CASE instances' # instances
    <3> DEFINE m == [instances[b] EXCEPT !.broken = @ \/ ~Ours(t)]
    <3>1. instances' = [instances EXCEPT ![b] = m]
      BY <2>2 DEF Acquire
    <3>2. instances[b] \in ModuleRecord
      BY <1>4
    <3>3. /\ m \in ModuleRecord /\ m.here = instances[b].here
          /\ m.sha = instances[b].sha /\ m.sources = instances[b].sources
          /\ m.owner = instances[b].owner
      BY <3>2 DEF ModuleRecord
    <3> HIDE DEF m
    <3> QED BY <1>4, <3>1, <3>3
  <2> QED BY <2>1, <2>2
<1>6. TypeOK'
  <2>1. /\ pc' \in [Threads -> Places] /\ lease' \in [Runtimes -> BOOLEAN]
        /\ runtimeLock' \in [Runtimes -> Threads \cup {NoThread}]
    BY <1>1, <1>2, <1>3 DEF TypeOK, Places
  <2> QED BY <1>2, <1>5, <2>1 DEF TypeOK, Places, ModuleRecord
<1>7. core # 0 => core \in 1..Len(instances)
  BY <1>4 DEF TypeOK
<1>8. Modules'
  BY <1>2, <1>5, <1>7 DEF Modules
<1>9. OwnProcessOnly'
  BY <1>2, <1>5 DEF OwnProcessOnly, TypeOK
<1>10. ASSUME NEW s \in Runtimes PROVE Own(s)'
  BY <1>1, <1>2, <1>3, <1>5, <1>7, <1>10 DEF Own, TypeOK
<1>11. ASSUME NEW u \in Threads, u # t PROVE (Place(u) /\ Sofar(u) /\ Seen(u))'
  <2>1. pc'[u] = pc[u] /\ on[u] \in Runtimes
    BY <1>3, <1>11 DEF TypeOK
  <2>2. pc[u] \in Loading \cup {"acquire", "acquiring"} =>
          runtimeLock'[on[u]] = runtimeLock[on[u]]
    BY <1>1, <1>2, <1>11, <2>1 DEF Place, TypeOK
  <2>3. core # 0 => instances'[core].here = instances[core].here
    BY <1>5, <1>7
  <2>4. Place(u)'
    BY <1>2, <1>11, <2>1, <2>2, <2>3 DEF Place
  <2> QED BY <1>2, <1>11, <2>1, <2>4 DEF Sofar, Seen
<1>12. (Place(t) /\ Sofar(t) /\ Seen(t))'
  BY <1>1, <1>2, <1>3
     DEF Place, Sofar, Seen, TypeOK, Loading, Looking, Importing, Accepted,
         Served
<1> QED BY <1>6, <1>8, <1>9, <1>10, <1>11, <1>12

LEMMA SubmitStep ==
  ASSUME IInv, NEW t \in Threads, t \notin gone, TrySubmit(t)
  PROVE  IInv'
<1> DEFINE b == broker[on[t]]
<1> USE DEF IInv
<1>1. /\ pc[t] = "submitting" /\ pc' = [pc EXCEPT ![t] = "idle"]
      /\ b \in 1..Len(instances)
      /\ \/ served' = served
         \/ /\ served' = served \cup {<<b, process>>}
            /\ instances[b].owner = process
      /\ brokerLock' = NoThread
      /\ UNCHANGED <<procVars, file, moduleVars, runtimeLock, importLock,
                     runtimeVars, on, saw, calls, disturbed>>
  BY DEF TrySubmit, Goto, Ours, Mine, Place, Served, TypeOK
<1> USE DEF procVars, moduleVars, runtimeVars
<1>2. TypeOK'
  <2>1. pc' \in [Threads -> Places]
    BY <1>1 DEF TypeOK, Places
  <2>2. served' \subseteq (1..Len(instances)) \X {"first", "child"}
    BY <1>1 DEF TypeOK
  <2> QED BY <1>1, <2>1, <2>2 DEF TypeOK, Places
<1>3. Modules' /\ OwnProcessOnly'
  BY <1>1 DEF Modules, OwnProcessOnly
<1>4. \A s \in Runtimes : Own(s)'
  BY <1>1 DEF Own
<1>5. ASSUME NEW u \in Threads, u # t PROVE (Place(u) /\ Sofar(u) /\ Seen(u))'
  <2>1. pc'[u] = pc[u]
    BY <1>1, <1>5 DEF TypeOK
  <2> QED BY <1>1, <1>5, <2>1 DEF Place, Sofar, Seen
<1>6. (Place(t) /\ Sofar(t) /\ Seen(t))'
  BY <1>1 DEF Place, Sofar, Seen, TypeOK, Loading, Looking, Importing, Accepted,
              Served
<1> QED BY <1>2, <1>3, <1>4, <1>5, <1>6

LEMMA UpgradeStep ==
  ASSUME IInv, NEW f \in Files, Upgrade(f)
  PROVE  IInv'
<1> USE DEF IInv, Upgrade, procVars, moduleVars, lockVars, runtimeVars
<1>1. TypeOK'
  <2>1. file' \in [Files -> Builds] /\ disturbed' \in BOOLEAN
    BY DEF TypeOK, Builds
  <2> QED BY <2>1 DEF TypeOK
<1>2. ASSUME NEW g \in Files
      PROVE  file'[g] \in Nat /\ file[g] \in Nat /\ file[g] <= file'[g]
  <2>1. file[g] \in {1, 2}
    BY <1>2 DEF TypeOK, Builds
  <2>2. file'[g] = IF g = f THEN 2 ELSE file[g]
    BY <1>2 DEF TypeOK
  <2> QED BY <2>1, <2>2
<1>3. ~disturbed' => ~disturbed /\ ~AtWork
  BY DEF TypeOK
<1>4. Modules'
  <2>1. identity \in Nat /\ identity <= file'["identity"]
    BY <1>2 DEF Modules, TypeOK, Builds, Files
  <2>2. core # 0 => instances[core].sources[2] \in Nat
    <3>1. instances \in Seq(ModuleRecord) /\ core \in 0..Len(instances)
      BY DEF TypeOK, ModuleRecord
    <3>2. core # 0 => instances[core] \in ModuleRecord
      BY <3>1
    <3> QED BY <3>2 DEF ModuleRecord
  <2>3. core # 0 /\ instances[core].here =>
          instances[core].sources[2] <= file'["core"]
    BY <1>2, <2>2 DEF Modules, Files
  <2> QED BY <1>3, <2>1, <2>3 DEF Modules
<1>5. OwnProcessOnly'
  BY DEF OwnProcessOnly
<1>6. ASSUME NEW r \in Runtimes PROVE Own(r)'
  BY <1>3, <1>6 DEF Own
<1>7. ASSUME NEW u \in Threads PROVE (Place(u) /\ Sofar(u) /\ Seen(u))'
  <2>1. Place(u)'
    BY <1>7 DEF Place
  <2>2. ~disturbed' => pc[u] \notin Loading \ {"origin", "identity"}
    BY <1>3, <1>7 DEF AtWork, Place, Loading, Looking, Importing
  <2>3. Sofar(u)'
    BY <1>7, <2>2 DEF Sofar, Loading, Looking, Importing
  <2>4. Seen(u)'
    BY <1>7, <2>2 DEF Seen, Loading, Looking, Importing, Accepted
  <2> QED BY <2>1, <2>3, <2>4
<1> QED BY <1>1, <1>4, <1>5, <1>6, <1>7

LEMMA ForkStep ==
  ASSUME IInv, NEW t \in Threads, Fork(t)
  PROVE  IInv'
<1> USE DEF IInv, Fork, moduleVars, lockVars, runtimeVars, history
<1>1. TypeOK'
  <2>1. /\ pc' \in [Threads -> Places] /\ saw' \in [Threads -> [Files -> 0..2]]
        /\ process' \in {"first", "child"} /\ gone' \subseteq Threads
    BY DEF Places, Nothing
  <2> QED BY <2>1 DEF TypeOK, Places
<1>2. Modules' /\ OwnProcessOnly'
  BY DEF Modules, OwnProcessOnly
<1>3. \A s \in Runtimes : Own(s)'
  BY DEF Own
<1>4. importLock # t \/ t \in gone
  BY DEF Place, Importing
<1>5. ASSUME NEW u \in Threads PROVE (Place(u) /\ Sofar(u) /\ Seen(u))'
  BY <1>4, <1>5 DEF Place, Sofar, Seen, Loading, Looking, Importing, Accepted,
                    Served
<1> QED BY <1>1, <1>2, <1>3, <1>5

-----------------------------------------------------------------------------
LEMMA NextIInv == IInv /\ [Next]_vars => IInv'
<1> SUFFICES ASSUME IInv, [Next]_vars PROVE IInv'
  OBVIOUS
<1>1. ASSUME NEW t \in Threads, Step(t) PROVE IInv'
  BY <1>1, EnterStep, OriginStep, ReadStep, DigestStep, ImportStep, PackageStep,
     CoreStep, CheckStep, FailStep, TakeStep, AcquireStep, SubmitStep
     DEF Step, Load
<1>2. ASSUME NEW t \in Threads, Fork(t) PROVE IInv'
  BY <1>2, ForkStep
<1>3. ASSUME NEW t \in Threads, t \notin gone, NEW r \in Runtimes, Call(t, r)
      PROVE  IInv'
  BY <1>3, CallStep
<1>4. ASSUME NEW f \in Files, Upgrade(f) PROVE IInv'
  BY <1>4, UpgradeStep
<1>5. CASE UNCHANGED vars
  BY <1>5 DEF vars, procVars, moduleVars, lockVars, runtimeVars, history, IInv,
              TypeOK, Modules, OwnProcessOnly, Place, Sofar, Seen, Own
<1> QED BY <1>1, <1>2, <1>3, <1>4, <1>5 DEF Next

\* Every look a loader takes is remembered, every module is what was looked at,
\* and every runtime's broker is one of its build: together an invariant.
THEOREM Inductive == Spec => []IInv
BY InitIInv, NextIInv, PTL DEF Spec

\* The state has its types.
THEOREM TypeCorrect == Spec => []TypeOK
<1>1. IInv => TypeOK
  BY DEF IInv
<1> QED BY <1>1, Inductive, PTL

\* The runtimes of a process have one broker, of the build each was shipped
\* with, whatever threads load, raise, upgrade and fork at the same time.
THEOREM SharesOneOwner == Spec => []OneOwner
<1>1. IInv => OneOwner
  BY DEF IInv, Own, OneOwner
<1> QED BY <1>1, Inductive, PTL

\* What runs are the sources of the runtime's own build, unless a loader was
\* disturbed.
THEOREM RefusesDrift == Spec => []DriftIsRefused
<1>1. IInv => DriftIsRefused
  BY DEF IInv, Own, DriftIsRefused
<1> QED BY <1>1, Inductive, PTL

\* A broker admits work only in the process that imported it.
THEOREM AdmitsInOwnProcess == Spec => []OwnProcessOnly
<1>1. IInv => OwnProcessOnly
  BY DEF IInv
<1> QED BY <1>1, Inductive, PTL
=============================================================================
