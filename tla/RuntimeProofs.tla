--------------------------- MODULE RuntimeProofs ---------------------------
(***************************************************************************)
(* Unload is safe for every number of runtimes, calls and close()s: a      *)
(* runtime has one lease in its life, somebody always owes its release,    *)
(* and once it is released nothing is admitted and what is left has been   *)
(* told to stop.                                                           *)
(***************************************************************************)
EXTENDS Runtime, TLAPS

\* A runtime has a lease from its acquire to close(), and never another.
Leased(r) ==
  /\ held[r] # 0 => ~closed[r] /\ loaded[r] /\ held[r] = acquired[r]
  /\ ~closed[r] /\ held[r] = 0 => acquired[r] = 0
  /\ revoked[r] # {} => closed[r]

\* A call's place against its lease, its operation and its outcome.
Placed(c) ==
  /\ callPc[c] \in {"submit", "starting", "wait", "cancel"} => mine[c] = 1
  /\ mine[c] = 1 => acquired[RuntimeOf(c)] = 1
  /\ callPc[c] \in {"idle", "preflight", "lease", "submit"} => stage[c] = "new"
  /\ callPc[c] \in {"starting", "wait", "cancel"} => stage[c] # "new"
  /\ stage[c] # "new" => mine[c] = 1
  /\ stage[c] = "free" => answer[c] # "pending"
  /\ callPc[c] # "done" => outcome[c] = "none"

\* What runs under a revoked lease has been told to stop.
RevokedIsCancelled(c) ==
  revoked[RuntimeOf(c)] # {} /\ c \in Service!Holding => cancelRequested[c]

\* A close() between its two halves owes the release of the lease it took, and
\* nobody else does.
Owes(k) == closerPc[k] = "release" =>
  /\ taken[k] = 1 /\ closed[Closes(k)]
  /\ acquired[Closes(k)] = 1 /\ revoked[Closes(k)] = {}
  /\ \A j \in Closers \ {k} : Closes(j) = Closes(k) => closerPc[j] # "release"

IInv == /\ TypeOK /\ LeaseHasOwner
        /\ \A r \in Runtimes : Leased(r)
        /\ \A c \in Calls : Placed(c) /\ RevokedIsCancelled(c)
        /\ \A k \in Closers : Owes(k)

LEMMA Homes ==
  ASSUME TypeOK
  PROVE  /\ \A c \in Calls : RuntimeOf(c) \in Runtimes
         /\ \A k \in Closers : Closes(k) \in Runtimes
BY RuntimeAssumption DEF TypeOK, RuntimeOf, Closes

LEMMA InitIInv == ASSUME Init PROVE IInv
<1> USE RuntimeAssumption DEF Init, Service!Init
<1>1. TypeOK
  BY DEF TypeOK
<1>2. LeaseHasOwner
  BY DEF LeaseHasOwner, Live
<1>3. \A r \in Runtimes : Leased(r)
  BY DEF Leased
<1>4. \A c \in Calls : Placed(c) /\ RevokedIsCancelled(c)
  BY <1>1, Homes DEF Placed, RevokedIsCancelled
<1>5. \A k \in Closers : Owes(k)
  BY DEF Owes
<1> QED BY <1>1, <1>2, <1>3, <1>4, <1>5 DEF IInv

-----------------------------------------------------------------------------
(* A call's steps but the first lease and the admission leave the leases   *)
(* alone; so does the broker.                                              *)

LEMMA SameLeases ==
  ASSUME IInv, UNCHANGED <<place, runtimeVars, leaseVars, closeVars>>
  PROVE  /\ LeaseHasOwner' /\ (\A r \in Runtimes : Leased(r)')
         /\ \A k \in Closers : Owes(k)'
BY DEF IInv, LeaseHasOwner, Live, Leased, Owes, Closes, runtimeVars, leaseVars,
       closeVars

LEMMA EarlyStep ==
  ASSUME IInv, NEW c \in Calls, UNCHANGED place,
         \/ Begin(c) \/ Preflight(c) \/ TakeAnswer(c) \/ GiveUp(c)
         \/ CancelOperation(c) \/ HostCancel(c)
  PROVE  IInv'
<1> USE DEF IInv, Begin, Preflight, TakeAnswer, GiveUp, CancelOperation,
            HostCancel, Goto, Return, Failed, runtimeVars, leaseVars, closeVars,
            avars
<1>1. TypeOK'
  <2>1. /\ callPc' \in [Calls -> {"idle", "preflight", "lease", "submit",
                                  "starting", "wait", "cancel", "done"}]
        /\ outcome' \in [Calls -> {"none", "invalid", "timeout", "unavailable",
                                   "answer", "cancelled"}]
    BY DEF TypeOK
  <2>2. /\ cancelRequested' \in [Calls -> BOOLEAN]
        /\ answer' \in [Calls -> {"pending", "result", "unavailable",
                                  "cancelled"}]
    BY RuntimeAssumption DEF TypeOK
  <2> QED BY <2>1, <2>2 DEF TypeOK
<1>2. /\ LeaseHasOwner' /\ (\A r \in Runtimes : Leased(r)')
      /\ \A k \in Closers : Owes(k)'
  BY SameLeases
<1>3. ASSUME NEW d \in Calls PROVE Placed(d)'
  BY <1>3 DEF Placed, RuntimeOf, TypeOK
<1>4. ASSUME NEW d \in Calls PROVE RevokedIsCancelled(d)'
  <2>1. cancelRequested[d] => cancelRequested'[d]
    BY <1>4 DEF TypeOK
  <2> QED BY <1>4, <2>1 DEF RevokedIsCancelled, RuntimeOf, Service!Holding
<1> QED BY <1>1, <1>2, <1>3, <1>4

LEMMA LeaseStep ==
  ASSUME IInv, NEW c \in Calls, UNCHANGED place, LeaseForOperation(c)
  PROVE  IInv'
<1> DEFINE r == RuntimeOf(c)
<1> USE DEF IInv
<1>1. r \in Runtimes /\ callPc[c] = "lease" /\ stage[c] = "new"
  BY Homes DEF LeaseForOperation, Placed
<1>2. /\ UNCHANGED <<place, revoked, late, cancelRequested, closeVars, avars>>
  BY DEF LeaseForOperation
<1>3. \/ /\ callPc' = [callPc EXCEPT ![c] = "done"]
         /\ outcome' = [outcome EXCEPT ![c] = Failed(c)]
         /\ UNCHANGED <<held, mine, acquired>>
         /\ \/ closed' = closed
            \/ held[r] = 0 /\ closed' = [closed EXCEPT ![r] = TRUE]
         /\ loaded' = loaded \/ loaded' = [loaded EXCEPT ![r] = TRUE]
      \/ /\ callPc' = [callPc EXCEPT ![c] = "submit"]
         /\ ~closed[r] /\ held[r] = 0
         /\ loaded' = [loaded EXCEPT ![r] = TRUE]
         /\ acquired' = [acquired EXCEPT ![r] = @ + 1]
         /\ held' = [held EXCEPT ![r] = acquired[r] + 1]
         /\ mine' = [mine EXCEPT ![c] = acquired[r] + 1]
         /\ UNCHANGED <<closed, outcome>>
      \/ /\ callPc' = [callPc EXCEPT ![c] = "submit"]
         /\ ~closed[r] /\ held[r] # 0
         /\ mine' = [mine EXCEPT ![c] = held[r]]
         /\ UNCHANGED <<closed, outcome, loaded, held, acquired>>
  BY <1>1 DEF LeaseForOperation, Return, Goto, Leased
<1> USE <1>2 DEF closeVars, avars
<1>4. ASSUME NEW d \in Calls, d # c, acquired[RuntimeOf(d)] = 1 => acquired'[RuntimeOf(d)] = 1
      PROVE  Placed(d)'
  BY <1>3, <1>4 DEF Placed, RuntimeOf, TypeOK
<1>5. ASSUME NEW d \in Calls PROVE RevokedIsCancelled(d)'
  BY <1>5 DEF RevokedIsCancelled, RuntimeOf, Service!Holding
<1>6. CASE /\ callPc' = [callPc EXCEPT ![c] = "done"]
           /\ outcome' = [outcome EXCEPT ![c] = Failed(c)]
           /\ UNCHANGED <<held, mine, acquired>>
           /\ \/ closed' = closed
              \/ held[r] = 0 /\ closed' = [closed EXCEPT ![r] = TRUE]
           /\ loaded' = loaded \/ loaded' = [loaded EXCEPT ![r] = TRUE]
  <2>1. /\ Failed(c) \in {"timeout", "unavailable"}
        /\ \A s \in Runtimes : /\ closed[s] => closed'[s]
                               /\ loaded[s] => loaded'[s]
    BY <1>1, <1>6 DEF TypeOK, Failed
  <2>2. TypeOK'
    BY <1>1, <1>6, <2>1 DEF TypeOK
  <2>3. LeaseHasOwner'
    BY <1>6 DEF LeaseHasOwner, Live, Closes
  <2>4. ASSUME NEW s \in Runtimes PROVE Leased(s)'
    BY <1>1, <1>6, <2>1, <2>4 DEF Leased, TypeOK
  <2>5. Placed(c)'
    BY <1>1, <1>6 DEF Placed, RuntimeOf, TypeOK
  <2>6. ASSUME NEW k \in Closers PROVE Owes(k)'
    BY <1>6, <2>1, <2>6, Homes DEF Owes, Closes
  <2> QED BY <1>4, <1>5, <1>6, <2>2, <2>3, <2>4, <2>5, <2>6
<1>7. CASE /\ callPc' = [callPc EXCEPT ![c] = "submit"]
           /\ ~closed[r] /\ held[r] = 0
           /\ loaded' = [loaded EXCEPT ![r] = TRUE]
           /\ acquired' = [acquired EXCEPT ![r] = @ + 1]
           /\ held' = [held EXCEPT ![r] = acquired[r] + 1]
           /\ mine' = [mine EXCEPT ![c] = acquired[r] + 1]
           /\ UNCHANGED <<closed, outcome>>
  <2>1. acquired[r] = 0 /\ revoked[r] = {}
    BY <1>1, <1>7 DEF Leased
  <2>2. /\ acquired' = [acquired EXCEPT ![r] = 1]
        /\ held' = [held EXCEPT ![r] = 1] /\ mine' = [mine EXCEPT ![c] = 1]
    BY <1>7, <2>1
  <2>3. TypeOK'
    BY <1>1, <1>7, <2>2 DEF TypeOK
  <2>4. ASSUME NEW s \in Runtimes, NEW l \in Live(s)'
        PROVE  \/ l = held'[s]
               \/ \E k \in Closers : /\ closerPc'[k] = "release"
                                     /\ Closes(k)' = s /\ taken'[k] = l
                                     /\ held'[s] = 0
    <3>1. CASE s = r
      BY <1>1, <2>1, <2>2, <2>4, <3>1 DEF Live, TypeOK
    <3>2. CASE s # r
      <4>1. l \in Live(s) /\ held'[s] = held[s]
        BY <1>1, <2>2, <2>4, <3>2 DEF Live, TypeOK
      <4> QED BY <2>4, <4>1 DEF LeaseHasOwner, Closes
    <3> QED BY <3>1, <3>2
  <2>5. ASSUME NEW s \in Runtimes PROVE Leased(s)'
    BY <1>1, <1>7, <2>1, <2>2, <2>5 DEF Leased, TypeOK
  <2>6. Placed(c)'
    BY <1>1, <1>7, <2>2 DEF Placed, RuntimeOf, TypeOK
  <2>7. ASSUME NEW k \in Closers PROVE Owes(k)'
    BY <1>1, <1>7, <2>2, <2>7, Homes DEF Owes, Closes, TypeOK
  <2>8. ASSUME NEW s \in Runtimes, acquired[s] = 1 PROVE acquired'[s] = 1
    BY <1>1, <2>2, <2>8 DEF TypeOK
  <2> QED BY <1>4, <1>5, <2>3, <2>4, <2>5, <2>6, <2>7, <2>8, Homes
          DEF LeaseHasOwner
<1>8. CASE /\ callPc' = [callPc EXCEPT ![c] = "submit"]
           /\ ~closed[r] /\ held[r] # 0
           /\ mine' = [mine EXCEPT ![c] = held[r]]
           /\ UNCHANGED <<closed, outcome, loaded, held, acquired>>
  <2>1. held[r] = 1 /\ acquired[r] = 1
    BY <1>1, <1>8 DEF Leased, TypeOK
  <2>2. TypeOK'
    BY <1>1, <1>8, <2>1 DEF TypeOK
  <2>3. Placed(c)'
    BY <1>1, <1>8, <2>1 DEF Placed, RuntimeOf, TypeOK
  <2>4. /\ LeaseHasOwner' /\ (\A s \in Runtimes : Leased(s)')
        /\ \A k \in Closers : Owes(k)'
    BY <1>8, SameLeases DEF runtimeVars, leaseVars
  <2> QED BY <1>4, <1>5, <1>8, <2>2, <2>3, <2>4
<1> QED BY <1>3, <1>6, <1>7, <1>8

LEMMA SubmitStep ==
  ASSUME IInv, NEW c \in Calls, UNCHANGED place, Submit(c)
  PROVE  IInv'
<1> USE DEF IInv, runtimeVars, leaseVars, closeVars
<1>1. /\ callPc[c] = "submit" /\ stage[c] = "new" /\ mine[c] = 1
      /\ outcome[c] = "none"
      /\ UNCHANGED <<runtimeVars, leaseVars, mine, late, cancelRequested,
                     closeVars, open, answer>>
  BY DEF Submit, Service!Admit, Placed, avars
<1>2. /\ LeaseHasOwner' /\ (\A r \in Runtimes : Leased(r)')
      /\ \A k \in Closers : Owes(k)'
  BY <1>1, SameLeases
<1>3. CASE /\ mine[c] \in Live(RuntimeOf(c)) /\ stage' = [stage EXCEPT ![c] = "held"]
           /\ callPc' = [callPc EXCEPT ![c] = "starting"] /\ outcome' = outcome
  <2>1. TypeOK'
    BY <1>1, <1>3 DEF TypeOK
  <2>2. ASSUME NEW d \in Calls PROVE Placed(d)'
    BY <1>1, <1>3, <2>2 DEF Placed, RuntimeOf, TypeOK
  <2>3. revoked[RuntimeOf(c)] = {}
    BY <1>1, <1>3, Homes DEF Live, TypeOK
  <2>4. ASSUME NEW d \in Calls PROVE RevokedIsCancelled(d)'
    BY <1>1, <1>3, <2>3, <2>4
       DEF RevokedIsCancelled, RuntimeOf, Service!Holding, TypeOK
  <2> QED BY <1>2, <2>1, <2>2, <2>4
<1>4. CASE Return(c, Failed(c)) /\ UNCHANGED avars
  <2>1. /\ Failed(c) \in {"timeout", "unavailable"} /\ stage' = stage
        /\ callPc' = [callPc EXCEPT ![c] = "done"]
        /\ outcome' = [outcome EXCEPT ![c] = Failed(c)]
    BY <1>4 DEF Return, Failed, avars
  <2>2. TypeOK'
    BY <1>1, <2>1 DEF TypeOK
  <2>3. ASSUME NEW d \in Calls PROVE Placed(d)'
    BY <1>1, <2>1, <2>3 DEF Placed, RuntimeOf, TypeOK
  <2>4. ASSUME NEW d \in Calls PROVE RevokedIsCancelled(d)'
    BY <1>1, <2>1, <2>4 DEF RevokedIsCancelled, RuntimeOf, Service!Holding
  <2> QED BY <1>2, <2>2, <2>3, <2>4
<1> QED BY <1>3, <1>4 DEF Submit, Service!Admit, Service!To, Goto

\* The operation is there and its caller waits, or it is gone and answered.
LEMMA StartedStep ==
  ASSUME IInv, NEW c \in Calls, UNCHANGED place, Started(c)
  PROVE  IInv'
<1> USE DEF IInv
<1>1. /\ callPc[c] = "starting" /\ mine[c] = 1 /\ stage[c] # "new"
      /\ outcome[c] = "none"
      /\ UNCHANGED <<runtimeVars, leaseVars, mine, late, cancelRequested,
                     closeVars>>
  BY DEF Started, Placed
<1>2. /\ LeaseHasOwner' /\ (\A r \in Runtimes : Leased(r)')
      /\ \A k \in Closers : Owes(k)'
  BY <1>1, SameLeases
<1> USE DEF runtimeVars, leaseVars, closeVars
<1>3. CASE Goto(c, "wait") /\ UNCHANGED avars
  <2> USE <1>3 DEF Goto, avars
  <2>1. TypeOK'
    BY <1>1 DEF TypeOK
  <2>2. ASSUME NEW d \in Calls PROVE Placed(d)' /\ RevokedIsCancelled(d)'
    BY <1>1, <2>2 DEF Placed, RevokedIsCancelled, RuntimeOf, Service!Holding,
                      TypeOK
  <2> QED BY <1>2, <2>1, <2>2
<1>4. CASE Service!Reject(c) /\ Return(c, Failed(c))
  <2>1. /\ stage' = [stage EXCEPT ![c] = "free"]
        /\ answer' = [answer EXCEPT ![c] = "unavailable"]
        /\ callPc' = [callPc EXCEPT ![c] = "done"]
        /\ outcome' = [outcome EXCEPT ![c] = Failed(c)]
        /\ open' = open /\ Failed(c) \in {"timeout", "unavailable"}
    BY <1>4 DEF Service!Reject, Service!Reply, Service!To, Return, Failed
  <2>2. TypeOK'
    BY <1>1, <2>1 DEF TypeOK
  <2>3. ASSUME NEW d \in Calls PROVE Placed(d)' /\ RevokedIsCancelled(d)'
    BY <1>1, <2>1, <2>3 DEF Placed, RevokedIsCancelled, RuntimeOf,
                            Service!Holding, TypeOK
  <2> QED BY <1>2, <2>2, <2>3
<1> QED BY <1>3, <1>4 DEF Started

LEMMA ExpireStep ==
  ASSUME IInv, NEW c \in Calls, Expire(c)
  PROVE  IInv'
<1> USE DEF IInv, Expire, avars
<1>1. TypeOK'
  BY DEF TypeOK, runtimeVars, leaseVars, closeVars
<1>2. /\ LeaseHasOwner' /\ (\A r \in Runtimes : Leased(r)')
      /\ \A k \in Closers : Owes(k)'
  BY SameLeases
<1>3. ASSUME NEW d \in Calls PROVE Placed(d)' /\ RevokedIsCancelled(d)'
  BY <1>3 DEF Placed, RevokedIsCancelled, RuntimeOf, Service!Holding, leaseVars
<1> QED BY <1>1, <1>2, <1>3

-----------------------------------------------------------------------------
(* close() and the broker.                                                 *)

LEMMA CloseBeginStep ==
  ASSUME IInv, NEW k \in Closers, CloseBegin(k)
  PROVE  IInv'
<1> DEFINE r == Closes(k)
<1> USE DEF IInv
<1>1. /\ r \in Runtimes /\ closerPc[k] = "idle"
      /\ UNCHANGED <<place, loaded, leaseVars, callVars, avars>>
  BY Homes DEF CloseBegin
<1> USE <1>1 DEF leaseVars, callVars, avars
<1>2. ASSUME NEW c \in Calls PROVE Placed(c)' /\ RevokedIsCancelled(c)'
  BY <1>2 DEF Placed, RevokedIsCancelled, RuntimeOf, Service!Holding
<1>3. CASE closed[r]
  <2>1. closerPc' = [closerPc EXCEPT ![k] = "done"] /\ UNCHANGED <<closed, held, taken>>
    BY <1>3 DEF CloseBegin, CloserTo
  <2>2. TypeOK'
    BY <2>1 DEF TypeOK
  <2>3. ASSUME NEW s \in Runtimes PROVE Leased(s)'
    BY <2>1, <2>3 DEF Leased
  <2>4. \A j \in Closers : closerPc[j] = "release" <=> closerPc'[j] = "release"
    BY <2>1 DEF TypeOK
  <2>5. LeaseHasOwner'
    BY <2>1, <2>4 DEF LeaseHasOwner, Live, Closes
  <2>6. ASSUME NEW j \in Closers PROVE Owes(j)'
    BY <2>1, <2>4, <2>6 DEF Owes, Closes
  <2> QED BY <1>2, <2>2, <2>3, <2>5, <2>6
<1>4. CASE ~closed[r]
  <2>1. /\ closed' = [closed EXCEPT ![r] = TRUE]
        /\ taken' = [taken EXCEPT ![k] = held[r]]
        /\ held' = [held EXCEPT ![r] = 0]
        /\ closerPc' = [closerPc EXCEPT ![k] =
                          IF held[r] # 0 THEN "release" ELSE "done"]
    BY <1>4 DEF CloseBegin, CloserTo
  <2>2. TypeOK'
    BY <2>1 DEF TypeOK
  <2>3. ASSUME NEW s \in Runtimes PROVE Leased(s)'
    BY <1>4, <2>1, <2>3 DEF Leased, TypeOK
  <2>4. ASSUME NEW s \in Runtimes, NEW l \in Live(s)'
        PROVE  \/ l = held'[s]
               \/ \E j \in Closers : /\ closerPc'[j] = "release"
                                     /\ Closes(j)' = s /\ taken'[j] = l
                                     /\ held'[s] = 0
    <3>1. l \in Live(s)
      BY <2>4 DEF Live
    <3>2. CASE s = r /\ l = held[r]
      <4>1. l # 0
        BY <2>4, <3>1 DEF Live, TypeOK
      <4>2. /\ closerPc'[k] = "release" /\ Closes(k)' = s /\ taken'[k] = l
            /\ held'[s] = 0
        BY <2>1, <3>2, <4>1 DEF TypeOK, Closes
      <4> QED BY <4>2
    <3>3. CASE s # r /\ l = held[s]
      BY <2>1, <2>4, <3>3 DEF TypeOK
    <3>4. CASE l # held[s]
      <4>1. PICK j \in Closers : /\ closerPc[j] = "release" /\ Closes(j) = s
                                /\ taken[j] = l /\ held[s] = 0
        BY <2>4, <3>1, <3>4 DEF LeaseHasOwner
      <4>2. j # k /\ s # r
        BY <1>4, <4>1 DEF Owes
      <4> QED BY <2>1, <2>4, <4>1, <4>2 DEF TypeOK, Closes
    <3> QED BY <3>2, <3>3, <3>4
  <2>5. ASSUME NEW j \in Closers PROVE Owes(j)'
    <3>1. CASE j = k
      <4>1. held[r] # 0 => /\ held[r] = 1 /\ acquired[r] = 1 /\ revoked[r] = {}
        BY <1>4 DEF Leased, TypeOK
      <4>2. \A i \in Closers : Closes(i) = r => closerPc[i] # "release"
        BY <1>4 DEF Owes
      <4> QED BY <2>1, <3>1, <4>1, <4>2 DEF Owes, Closes, TypeOK
    <3>2. CASE j # k
      <4> SUFFICES ASSUME closerPc[j] = "release" PROVE Owes(j)'
        BY <2>1, <3>2 DEF Owes, TypeOK
      <4>1. Closes(j) # r
        BY <1>4, <2>5 DEF Owes
      <4> QED BY <2>1, <2>5, <3>2, <4>1, Homes DEF Owes, Closes, TypeOK
    <3> QED BY <3>1, <3>2
  <2> QED BY <1>2, <2>2, <2>3, <2>4, <2>5 DEF LeaseHasOwner
<1> QED BY <1>3, <1>4

LEMMA CloseReleaseStep ==
  ASSUME IInv, NEW k \in Closers, CloseRelease(k)
  PROVE  IInv'
<1> DEFINE r == Closes(k)
<1> USE DEF IInv
<1>1. /\ r \in Runtimes /\ closerPc[k] = "release" /\ taken[k] = 1 /\ closed[r]
      /\ UNCHANGED <<place, closed, loaded, held, acquired, callPc, mine, late,
                     outcome, taken, avars>>
      /\ revoked' = [revoked EXCEPT ![r] = @ \cup {1}]
      /\ closerPc' = [closerPc EXCEPT ![k] = "done"]
      /\ cancelRequested' =
           [c \in Calls |-> \/ cancelRequested[c]
                            \/ /\ c \in Service!Holding
                               /\ RuntimeOf(c) = r /\ mine[c] = 1]
  BY Homes DEF CloseRelease, Owes, CloserTo, runtimeVars
<1> USE DEF avars
<1>2. TypeOK'
  <2>1. cancelRequested' \in [Calls -> BOOLEAN]
    BY <1>1 DEF TypeOK
  <2>2. revoked' \in [Runtimes -> SUBSET {1}]
    BY <1>1 DEF TypeOK
  <2> QED BY <1>1, <2>1, <2>2 DEF TypeOK
<1>3. ASSUME NEW s \in Runtimes PROVE Leased(s)'
  BY <1>1, <1>3 DEF Leased, TypeOK
<1>4. ASSUME NEW s \in Runtimes, NEW l \in Live(s)'
      PROVE  \/ l = held'[s]
             \/ \E j \in Closers : /\ closerPc'[j] = "release"
                                   /\ Closes(j)' = s /\ taken'[j] = l
                                   /\ held'[s] = 0
  <2>1. l \in Live(s) /\ s # r
    <3>1. acquired'[s] \in 0..1 /\ revoked'[s] = IF s = r THEN revoked[r] \cup {1} ELSE revoked[s]
      BY <1>1, <1>4 DEF TypeOK
    <3>2. l \in 1..acquired'[s] /\ l \notin revoked'[s]
      BY <1>4 DEF Live
    <3>3. l = 1
      BY <3>1, <3>2
    <3> QED BY <1>1, <3>1, <3>2, <3>3 DEF Live
  <2>2. CASE l = held[s]
    BY <1>1, <2>2
  <2>3. CASE l # held[s]
    <3>1. PICK j \in Closers : /\ closerPc[j] = "release" /\ Closes(j) = s
                              /\ taken[j] = l /\ held[s] = 0
      BY <1>4, <2>1, <2>3 DEF LeaseHasOwner
    <3>2. j # k
      BY <2>1, <3>1
    <3> QED BY <1>1, <3>1, <3>2 DEF TypeOK, Closes
  <2> QED BY <2>2, <2>3
<1>5. ASSUME NEW j \in Closers PROVE Owes(j)'
  BY <1>1, <1>5 DEF Owes, Closes, TypeOK
<1>6. ASSUME NEW c \in Calls PROVE Placed(c)'
  BY <1>1, <1>6 DEF Placed, RuntimeOf
<1>7. ASSUME NEW c \in Calls PROVE RevokedIsCancelled(c)'
  <2>1. CASE RuntimeOf(c) = r
    <3>1. c \in Service!Holding => mine[c] = 1
      BY <1>7 DEF Placed, Service!Holding
    <3> QED BY <1>1, <1>7, <2>1, <3>1
            DEF RevokedIsCancelled, RuntimeOf, Service!Holding, TypeOK
  <2>2. CASE RuntimeOf(c) # r
    <3>1. revoked'[RuntimeOf(c)] = revoked[RuntimeOf(c)]
      BY <1>1, <1>7, <2>2, Homes DEF TypeOK
    <3> QED BY <1>1, <1>7, <3>1
            DEF RevokedIsCancelled, RuntimeOf, Service!Holding, TypeOK
  <2> QED BY <2>1, <2>2
<1> QED BY <1>2, <1>3, <1>4, <1>5, <1>6, <1>7 DEF LeaseHasOwner

LEMMA ServiceStep ==
  ASSUME IInv, BrokerStep
  PROVE  IInv'
<1> USE DEF IInv, BrokerStep, callVars, Service!Close, Service!Begin,
            Service!End, Service!Free, Service!Resolve, Service!To,
            Service!Reply
<1>1. TypeOK'
  <2>1. /\ open' \in BOOLEAN
        /\ stage' \in [Calls -> {"new", "held", "busy", "over", "free"}]
        /\ answer' \in [Calls -> {"pending", "result", "unavailable",
                                  "cancelled"}]
    BY DEF TypeOK
  <2> QED BY <2>1 DEF TypeOK, runtimeVars, leaseVars, closeVars
<1>2. /\ LeaseHasOwner' /\ (\A r \in Runtimes : Leased(r)')
      /\ \A k \in Closers : Owes(k)'
  BY SameLeases
<1>3. ASSUME NEW c \in Calls
      PROVE  /\ stage[c] = "new" <=> stage'[c] = "new"
             /\ c \in Service!Holding' => c \in Service!Holding
  BY <1>3 DEF Service!Holding, TypeOK
<1>4. ASSUME NEW c \in Calls PROVE Placed(c)' /\ RevokedIsCancelled(c)'
  <2>1. stage'[c] = "free" => answer'[c] # "pending"
    BY <1>4 DEF Placed, TypeOK
  <2> QED BY <1>3, <1>4, <2>1 DEF Placed, RevokedIsCancelled, RuntimeOf, leaseVars
<1> QED BY <1>1, <1>2, <1>4

-----------------------------------------------------------------------------
LEMMA NextIInv == IInv /\ [Next]_vars => IInv'
<1> SUFFICES ASSUME IInv, [Next]_vars PROVE IInv'
  OBVIOUS
<1>1. ASSUME NEW c \in Calls, Call(c) PROVE IInv'
  BY <1>1, EarlyStep, LeaseStep, SubmitStep, StartedStep DEF Call
<1>2. ASSUME NEW c \in Calls, Expire(c) PROVE IInv'
  BY <1>2, ExpireStep
<1>3. ASSUME NEW k \in Closers, CloseBegin(k) \/ CloseRelease(k) PROVE IInv'
  BY <1>3, CloseBeginStep, CloseReleaseStep
<1>4. CASE BrokerStep
  BY <1>4, ServiceStep
<1>5. CASE UNCHANGED vars
  BY <1>5 DEF vars, runtimeVars, leaseVars, callVars, closeVars, avars, IInv,
              TypeOK, LeaseHasOwner, Live, Leased, Placed, RevokedIsCancelled,
              Owes, RuntimeOf, Closes, Service!Holding
<1> QED BY <1>1, <1>2, <1>3, <1>4, <1>5 DEF Next

\* Where each lease is held and what each call is owed is an invariant of the
\* runtimes, for any number of profiles, calls and closes.
THEOREM Inductive == Spec => []IInv
BY InitIInv, NextIInv, PTL DEF Spec

\* The state has its types: a runtime acquires at most one lease in its life.
THEOREM TypeCorrect == Spec => []TypeOK
<1>1. IInv => TypeOK
  BY DEF IInv
<1> QED BY <1>1, Inductive, PTL

\* No lease leaks, whatever calls acquire and close()s take at the same time.
THEOREM NoLeaseLeaks == Spec => []LeaseHasOwner
<1>1. IInv => LeaseHasOwner
  BY DEF IInv
<1> QED BY <1>1, Inductive, PTL

\* The lease of an unloaded runtime is revoked, if it had one.
LEMMA UnloadedIsRevoked ==
  ASSUME IInv, NEW r \in Runtimes, Unloaded(r)
  PROVE  Live(r) = {} /\ (acquired[r] = 1 => revoked[r] # {})
<1>1. held[r] = 0
  BY DEF IInv, Leased, Unloaded, TypeOK
<1>2. ASSUME NEW l \in Live(r) PROVE FALSE
  <2>1. l # 0
    BY <1>2 DEF Live, IInv, TypeOK
  <2> QED BY <1>1, <1>2, <2>1 DEF IInv, LeaseHasOwner, Unloaded
<1>3. acquired[r] = 1 => revoked[r] # {}
  BY <1>2 DEF Live, IInv, TypeOK
<1> QED BY <1>2, <1>3

\* What an unloaded profile still runs has been told to stop.
THEOREM UnloadStopsWork == Spec => []UnloadCancels
<1>1. IInv => UnloadCancels
  <2> SUFFICES ASSUME IInv, NEW c \in Calls, Unloaded(RuntimeOf(c)),
                      c \in Service!Holding
               PROVE  cancelRequested[c]
    BY DEF UnloadCancels
  <2>1. RuntimeOf(c) \in Runtimes
    BY Homes DEF IInv
  <2>2. acquired[RuntimeOf(c)] = 1
    BY DEF IInv, Placed, Service!Holding
  <2>3. revoked[RuntimeOf(c)] # {}
    BY <2>1, <2>2, UnloadedIsRevoked
  <2> QED BY <2>3 DEF IInv, RevokedIsCancelled
<1> QED BY <1>1, Inductive, PTL

\* Nothing is admitted for an unloaded profile.
THEOREM UnloadAdmitsNothing == Spec => NoAdmissionAfterClose
<1>1. IInv /\ [Next]_vars =>
        [\A c \in Calls : stage[c] = "new" /\ stage'[c] # "new"
                         => ~Unloaded(RuntimeOf(c))]_vars
  <2> SUFFICES ASSUME IInv, Next, NEW c \in Calls, stage[c] = "new",
                      stage'[c] # "new"
               PROVE  ~Unloaded(RuntimeOf(c))
    OBVIOUS
  <2>1. mine[c] \in Live(RuntimeOf(c))
    <3>1. ASSUME NEW d \in Calls, Call(d) PROVE mine[c] \in Live(RuntimeOf(c))
      BY <3>1 DEF Call, Begin, Preflight, LeaseForOperation, Submit, Started,
                  TakeAnswer, GiveUp, CancelOperation, HostCancel, avars,
                  Service!Admit, Service!Reject, Service!To, IInv, TypeOK
    <3>2. ASSUME NEW d \in Calls, Expire(d) PROVE FALSE
      BY <3>2 DEF Expire, avars
    <3>3. ASSUME NEW k \in Closers, CloseBegin(k) \/ CloseRelease(k) PROVE FALSE
      BY <3>3 DEF CloseBegin, CloseRelease, avars
    <3>4. CASE BrokerStep
      BY <3>4 DEF BrokerStep, Service!Close, Service!Begin, Service!End,
                  Service!Free, Service!Resolve, Service!To, Service!Holding,
                  IInv, TypeOK
    <3> QED BY <3>1, <3>2, <3>3, <3>4 DEF Next
  <2> QED BY <2>1, UnloadedIsRevoked, Homes DEF IInv
<1> QED BY <1>1, Inductive, PTL DEF Spec, NoAdmissionAfterClose

\* Closing a profile cancels no operation of another.
THEOREM ClosesItsOwn == Spec => CancelsOwn
<1>1. IInv /\ [Next]_vars =>
        [\A c \in Calls : ~cancelRequested[c] /\ cancelRequested'[c]
           => \/ callPc[c] = "cancel" /\ callPc'[c] = "done"
              \/ \E k \in Closers : /\ Closes(k) = RuntimeOf(c)
                                    /\ closerPc[k] # closerPc'[k]]_vars
  <2> SUFFICES ASSUME IInv, Next, NEW c \in Calls, ~cancelRequested[c],
                      cancelRequested'[c]
               PROVE  \/ callPc[c] = "cancel" /\ callPc'[c] = "done"
                      \/ \E k \in Closers : /\ Closes(k) = RuntimeOf(c)
                                            /\ closerPc[k] # closerPc'[k]
    OBVIOUS
  <2>1. ASSUME NEW d \in Calls, Call(d)
        PROVE  callPc[c] = "cancel" /\ callPc'[c] = "done"
    <3>1. CancelOperation(d)
      BY <2>1 DEF Call, Begin, Preflight, LeaseForOperation, Submit, Started,
                  TakeAnswer, GiveUp, HostCancel
    <3> QED BY <3>1 DEF CancelOperation, Return, IInv, TypeOK
  <2>2. ASSUME NEW d \in Calls, Expire(d) PROVE FALSE
    BY <2>2 DEF Expire
  <2>3. ASSUME NEW k \in Closers, CloseBegin(k) PROVE FALSE
    BY <2>3 DEF CloseBegin, callVars
  <2>4. ASSUME NEW k \in Closers, CloseRelease(k)
        PROVE  Closes(k) = RuntimeOf(c) /\ closerPc[k] # closerPc'[k]
    BY <2>4 DEF CloseRelease, CloserTo, IInv, TypeOK
  <2>5. CASE BrokerStep
    BY <2>5 DEF BrokerStep, callVars
  <2> QED BY <2>1, <2>2, <2>3, <2>4, <2>5 DEF Next
<1> QED BY <1>1, Inductive, PTL DEF Spec, CancelsOwn

\* A call that gave up has cancelled the work it left behind, where the wait's
\* TimeoutError is the one the handler names.
THEOREM GivingUpCancels == BuiltinTimeout => (Spec => []GaveUpIsCancelled)
<1> SUFFICES ASSUME BuiltinTimeout PROVE Spec => []GaveUpIsCancelled
  OBVIOUS
<1>1. Init => GaveUpIsCancelled
  BY DEF Init, GaveUpIsCancelled
<1>2. IInv /\ GaveUpIsCancelled /\ [Next]_vars => GaveUpIsCancelled'
  <2> SUFFICES ASSUME IInv, GaveUpIsCancelled, [Next]_vars, NEW c \in Calls,
                      outcome'[c] = "timeout", c \in Service!Holding',
                      answer'[c] \in {"pending", "cancelled"}
               PROVE  cancelRequested'[c]
    BY DEF GaveUpIsCancelled
  <2>1. ASSUME NEW d \in Calls, Call(d) PROVE cancelRequested'[c]
    <3>1. CASE d = c
      <4>1. CASE GiveUp(c) \/ CancelOperation(c)
        BY <4>1 DEF GiveUp, CancelOperation, Goto, IInv, TypeOK, Placed
      <4>2. CASE ~(GiveUp(c) \/ CancelOperation(c))
        <5>1. callPc[c] \in {"submit", "starting", "wait"} \/ stage'[c] = "new"
          BY <2>1, <3>1, <4>2
             DEF Call, Begin, Preflight, LeaseForOperation, avars, IInv, Placed,
                 Submit, Started, TakeAnswer, HostCancel
        <5>2. ~(Begin(c) \/ Preflight(c) \/ LeaseForOperation(c))
          BY <2>1, <3>1, <4>2, <5>1
             DEF Begin, Preflight, LeaseForOperation, IInv, Placed, avars,
                 Service!Holding
        <5>3. CASE Submit(c)
          BY <5>3 DEF Submit, Service!Admit, Service!To, Goto, Return, IInv,
                      Placed, TypeOK, Service!Holding, avars
        <5>4. CASE Started(c)
          BY <5>4 DEF Started, Service!Reject, Service!To, Goto, Return, IInv,
                      Placed, TypeOK, Service!Holding, avars
        <5>5. CASE TakeAnswer(c) \/ HostCancel(c)
          BY <5>5 DEF TakeAnswer, HostCancel, Return, IInv, TypeOK, avars
        <5> QED BY <2>1, <3>1, <4>2, <5>2, <5>3, <5>4, <5>5 DEF Call
      <4> QED BY <4>1, <4>2
    <3>2. CASE d # c
      <4>1. /\ outcome'[c] = outcome[c] /\ stage'[c] = stage[c]
            /\ answer'[c] = answer[c]
            /\ cancelRequested[c] => cancelRequested'[c]
        <5>1. CASE Begin(d) \/ Preflight(d) \/ TakeAnswer(d)
          BY <3>2, <5>1 DEF Begin, Preflight, TakeAnswer, Goto, Return, avars,
                            IInv, TypeOK
        <5>2. CASE LeaseForOperation(d)
          BY <3>2, <5>2 DEF LeaseForOperation, Goto, Return, avars, IInv, TypeOK
        <5>3. CASE Submit(d)
          BY <3>2, <5>3 DEF Submit, Goto, Return, avars, Service!Admit,
                            Service!To, IInv, TypeOK
        <5>4. CASE Started(d)
          BY <3>2, <5>4 DEF Started, Goto, Return, avars, Service!Reject,
                            Service!To, Service!Reply, IInv, TypeOK
        <5>5. CASE GiveUp(d) \/ CancelOperation(d) \/ HostCancel(d)
          BY <3>2, <5>5 DEF GiveUp, CancelOperation, HostCancel, Goto, Return,
                            avars, IInv, TypeOK
        <5> QED BY <2>1, <5>1, <5>2, <5>3, <5>4, <5>5 DEF Call
      <4> QED BY <4>1 DEF GaveUpIsCancelled, Service!Holding
    <3> QED BY <3>1, <3>2
  <2>2. ASSUME NEW d \in Calls, Expire(d) PROVE cancelRequested'[c]
    BY <2>2 DEF Expire, GaveUpIsCancelled, Service!Holding, avars
  <2>3. ASSUME NEW k \in Closers, CloseBegin(k) PROVE cancelRequested'[c]
    BY <2>3 DEF CloseBegin, GaveUpIsCancelled, Service!Holding, avars, callVars
  <2>4. ASSUME NEW k \in Closers, CloseRelease(k) PROVE cancelRequested'[c]
    BY <2>4 DEF CloseRelease, GaveUpIsCancelled, Service!Holding, avars
  <2>5. CASE BrokerStep
    <3>1. /\ outcome' = outcome /\ cancelRequested' = cancelRequested
      BY <2>5 DEF BrokerStep, callVars
    <3>2. /\ c \in Service!Holding
          /\ answer[c] \in {"pending", "cancelled"}
      BY <2>5 DEF BrokerStep, Service!Close, Service!Begin, Service!End,
                  Service!Free, Service!Resolve, Service!To, Service!Reply,
                  Service!Holding, IInv, TypeOK
    <3> QED BY <3>1, <3>2 DEF GaveUpIsCancelled
  <2>6. CASE UNCHANGED vars
    BY <2>6 DEF vars, callVars, avars, GaveUpIsCancelled, Service!Holding
  <2> QED BY <2>1, <2>2, <2>3, <2>4, <2>5, <2>6 DEF Next
<1> QED BY <1>1, <1>2, Inductive, PTL DEF Spec

-----------------------------------------------------------------------------
(* The runtimes and the broker's own steps are within BrokerService.       *)

LeaseFn == [r \in Runtimes |-> LeaseOf(r)]
Under   == {<<c, RuntimeOf(c)>> : c \in {d \in Calls : stage[d] # "new"}}
Serves  == [Service!ServiceNext]_(Service!svars)

LEMMA SameLeaseFn ==
  ASSUME UNCHANGED leaseVars
  PROVE  LeaseFn' = LeaseFn
BY DEF LeaseFn, LeaseOf, Live, leaseVars

LEMMA SameUnder ==
  ASSUME UNCHANGED place, \A c \in Calls : stage'[c] = "new" <=> stage[c] = "new"
  PROVE  Under' = Under
BY DEF Under, RuntimeOf

\* What the broker may do with an operation it has admitted.
LEMMA ServesOne ==
  ASSUME NEW c \in Calls, UNCHANGED <<LeaseFn, Under, cancelRequested>>,
         \/ Service!Begin(c) \/ Service!End(c) \/ Service!Resolve(c)
         \/ Service!Free(c) \/ Service!Reject(c),
         Service!Begin(c) \/ Service!End(c) => (stage[c] = "held" => Service!Wanted(c))
  PROVE  Serves
<1>1. Service!Serve(c)
  BY DEF Service!Serve, LeaseFn, Under
<1> QED BY <1>1 DEF Serves, Service!ServiceNext

\* The first call of a runtime acquires its lease.
LEMMA ServesAcquire ==
  ASSUME IInv, NEW c \in Calls, LeaseForOperation(c), UNCHANGED place
  PROVE  Serves
<1> PICK r \in Runtimes : r = RuntimeOf(c)
  BY Homes DEF IInv
<1>1. UNCHANGED <<revoked, cancelRequested, avars>>
  BY DEF LeaseForOperation
<1>2. Under' = Under
  BY <1>1, SameUnder DEF avars
<1>3. CASE acquired' = acquired
  <2>1. LeaseFn' = LeaseFn
    BY <1>1, <1>3, SameLeaseFn DEF leaseVars
  <2> QED BY <1>1, <1>2, <2>1
          DEF Serves, Service!svars, Service!avars, avars, LeaseFn, Under
<1>4. CASE acquired' # acquired
  <2>1. /\ ~closed[r] /\ held[r] = 0 /\ open
        /\ acquired' = [acquired EXCEPT ![r] = @ + 1]
    BY <1>4 DEF LeaseForOperation, Return
  <2>2. acquired[r] = 0 /\ revoked[r] = {} /\ acquired' = [acquired EXCEPT ![r] = 1]
    <3>1. acquired[r] = 0 /\ revoked[r] = {}
      BY <2>1 DEF IInv, Leased
    <3> QED BY <2>1, <3>1
  <2>3. LeaseOf(r) = "none" /\ LeaseOf(r)' = "live"
    <3>1. acquired'[r] = 1 /\ revoked'[r] = {}
      BY <1>1, <2>2 DEF IInv, TypeOK
    <3>2. 1 \in Live(r)'
      BY <3>1 DEF Live
    <3> QED BY <2>2, <3>1, <3>2 DEF LeaseOf
  <2>4. ASSUME NEW q \in Runtimes, q # r PROVE LeaseOf(q)' = LeaseOf(q)
    <3>1. acquired'[q] = acquired[q] /\ revoked'[q] = revoked[q]
      BY <1>1, <2>2, <2>4 DEF IInv, TypeOK
    <3> QED BY <3>1 DEF LeaseOf, Live
  <2>5. LeaseFn' = [LeaseFn EXCEPT ![r] = "live"]
    BY <1>1, <2>3, <2>4 DEF LeaseFn
  <2>6. Service!Acquire(r)
    BY <1>1, <1>2, <2>1, <2>3, <2>5
       DEF Service!Acquire, Service!avars, avars, LeaseFn, Under
  <2> QED BY <1>1, <2>6 DEF Serves, Service!ServiceNext
<1> QED BY <1>3, <1>4

\* A submission is admitted under the runtime's live lease.
LEMMA ServesSubmit ==
  ASSUME IInv, NEW c \in Calls, Submit(c), UNCHANGED place
  PROVE  Serves
<1> PICK r \in Runtimes : r = RuntimeOf(c)
  BY Homes DEF IInv
<1>1. UNCHANGED <<leaseVars, cancelRequested>>
  BY DEF Submit
<1>2. LeaseFn' = LeaseFn
  BY <1>1, SameLeaseFn
<1>3. CASE mine[c] \in Live(r) /\ Service!Admit(c)
  <2>1. LeaseOf(r) = "live"
    BY <1>1, <1>3 DEF LeaseOf, Live, IInv, TypeOK
  <2>2. stage' = [stage EXCEPT ![c] = "held"] /\ stage[c] = "new"
    BY <1>3 DEF Service!Admit, Service!To
  <2>3. {d \in Calls : stage'[d] # "new"} = {d \in Calls : stage[d] # "new"} \cup {c}
    BY <2>2 DEF IInv, TypeOK
  <2>4. Under' = Under \cup {<<c, r>>}
    BY <2>3 DEF Under, RuntimeOf
  <2>5. Service!AdmitUnder(c, r)
    BY <1>1, <1>2, <1>3, <2>1, <2>4 DEF Service!AdmitUnder, LeaseFn, Under
  <2> QED BY <1>1, <2>5 DEF Serves, Service!ServiceNext
<1>4. CASE UNCHANGED avars
  <2>1. Under' = Under
    BY <1>4, SameUnder DEF avars
  <2> QED BY <1>1, <1>2, <1>4, <2>1
          DEF Serves, Service!svars, Service!avars, avars, LeaseFn, Under
<1> QED BY <1>3, <1>4 DEF Submit

\* The rest of a call answers the operation, gives it back, cancels it or
\* leaves the broker alone.
LEMMA ServesCall ==
  ASSUME IInv, NEW c \in Calls, Call(c)
  PROVE  Serves
<1>1. UNCHANGED place
  BY DEF Call
<1>2. ASSUME UNCHANGED <<leaseVars, avars, cancelRequested>> PROVE Serves
  <2>1. Under' = Under
    BY <1>1, <1>2, SameUnder DEF avars
  <2> QED BY <1>2, <2>1, SameLeaseFn
          DEF Serves, Service!svars, Service!avars, avars, LeaseFn, Under
<1>3. CASE Started(c) /\ Service!Reject(c)
  <2>1. UNCHANGED <<leaseVars, cancelRequested>>
    BY <1>3 DEF Started
  <2>2. stage' = [stage EXCEPT ![c] = "free"] /\ stage[c] = "held"
    BY <1>3 DEF Service!Reject, Service!To
  <2>3. \A d \in Calls : stage'[d] = "new" <=> stage[d] = "new"
    BY <2>2 DEF IInv, TypeOK
  <2>4. Under' = Under
    BY <1>1, <2>3, SameUnder
  <2>5. ~Service!Begin(c) /\ ~Service!End(c)
    BY <2>2 DEF Service!Begin, Service!End, Service!To, IInv, TypeOK
  <2> QED BY <1>3, <2>1, <2>4, <2>5, SameLeaseFn, ServesOne
<1>4. CASE (GiveUp(c) \/ HostCancel(c)) /\ ~UNCHANGED answer
  <2>1. /\ callPc[c] = "wait" /\ answer[c] = "pending"
        /\ answer' = [answer EXCEPT ![c] = "cancelled"]
        /\ UNCHANGED <<open, stage, leaseVars, cancelRequested>>
    BY <1>4 DEF GiveUp, HostCancel, IInv, TypeOK
  <2>2. c \in Service!Holding
    BY <2>1 DEF IInv, Placed, TypeOK, Service!Holding
  <2>3. Service!Resolve(c)
    BY <2>1, <2>2 DEF Service!Resolve, Service!Reply
  <2>4. Under' = Under
    BY <1>1, <2>1, SameUnder
  <2>5. ~Service!Begin(c) /\ ~Service!End(c)
    BY <2>1 DEF Service!Begin, Service!End, IInv, TypeOK
  <2> QED BY <2>1, <2>3, <2>4, <2>5, SameLeaseFn, ServesOne
<1>5. CASE CancelOperation(c)
  <2>1. /\ callPc[c] = "cancel" /\ UNCHANGED <<leaseVars, avars>>
        /\ cancelRequested' = [cancelRequested EXCEPT ![c] = TRUE]
    BY <1>5 DEF CancelOperation
  <2>2. Under' = Under
    BY <1>1, <2>1, SameUnder DEF avars
  <2>3. Service!Cancel(c)
    BY <2>1, <2>2, SameLeaseFn
       DEF Service!Cancel, Service!avars, avars, LeaseFn, Under, IInv, Placed
  <2> QED BY <2>3 DEF Serves, Service!ServiceNext
<1>6. CASE LeaseForOperation(c) \/ Submit(c)
  BY <1>1, <1>6, ServesAcquire, ServesSubmit
<1>7. CASE \/ Begin(c) \/ Preflight(c) \/ TakeAnswer(c)
           \/ Started(c) /\ UNCHANGED avars
           \/ (GiveUp(c) \/ HostCancel(c)) /\ UNCHANGED answer
  BY <1>2, <1>7 DEF Begin, Preflight, TakeAnswer, Started, GiveUp, HostCancel,
                    avars
<1> QED BY <1>3, <1>4, <1>5, <1>6, <1>7 DEF Call, Started

\* The second half of close() revokes the runtime's lease: taking it made the
\* close() the only one to do so, and mine[c] tells its operations.
LEMMA ServesRelease ==
  ASSUME IInv, NEW k \in Closers, CloseRelease(k)
  PROVE  Serves
<1> PICK r \in Runtimes : r = Closes(k)
  BY Homes DEF IInv
<1>1. /\ taken[k] = 1 /\ acquired[r] = 1 /\ revoked[r] = {}
      /\ UNCHANGED <<place, acquired, avars>>
      /\ revoked' = [revoked EXCEPT ![r] = @ \cup {taken[k]}]
      /\ cancelRequested' =
           [c \in Calls |-> \/ cancelRequested[c]
                            \/ /\ c \in Service!Holding
                               /\ RuntimeOf(c) = r /\ mine[c] = taken[k]]
  BY DEF CloseRelease, IInv, Owes
<1>2. Under' = Under
  BY <1>1, SameUnder DEF avars
<1>3. LeaseOf(r) = "live" /\ LeaseOf(r)' = "revoked"
  <2>1. 1 \in Live(r)
    BY <1>1 DEF Live
  <2>2. revoked'[r] = {1} /\ acquired'[r] = 1
    BY <1>1 DEF IInv, TypeOK
  <2>3. Live(r)' = {}
    BY <2>2 DEF Live
  <2> QED BY <1>1, <2>1, <2>2, <2>3 DEF LeaseOf
<1>4. ASSUME NEW q \in Runtimes, q # r PROVE LeaseOf(q)' = LeaseOf(q)
  <2>1. acquired'[q] = acquired[q] /\ revoked'[q] = revoked[q]
    BY <1>1, <1>4 DEF IInv, TypeOK
  <2> QED BY <2>1 DEF LeaseOf, Live
<1>5. LeaseFn' = [LeaseFn EXCEPT ![r] = "revoked"]
  BY <1>1, <1>3, <1>4 DEF LeaseFn
<1>6. \A c \in Calls : <<c, r>> \in Under <=> stage[c] # "new" /\ RuntimeOf(c) = r
  BY DEF Under
<1>7. \A c \in Calls : c \in Service!Holding => stage[c] # "new" /\ mine[c] = 1
  BY DEF Service!Holding, IInv, Placed
<1>8. \A c \in Calls :
        (\/ cancelRequested[c]
         \/ c \in Service!Holding /\ RuntimeOf(c) = r /\ mine[c] = taken[k])
        = (cancelRequested[c] \/ (c \in Service!Holding /\ <<c, r>> \in Under))
  BY <1>1, <1>6, <1>7
<1>9. cancelRequested' = [c \in Calls |-> \/ cancelRequested[c]
                                          \/ c \in Service!Holding /\ <<c, r>> \in Under]
  BY <1>1, <1>8
<1>10. Service!Revoke(r)
  BY <1>1, <1>2, <1>3, <1>5, <1>9
     DEF Service!Revoke, Service!avars, avars, LeaseFn, Under
<1> QED BY <1>1, <1>10 DEF Serves, Service!ServiceNext

LEMMA ServesBroker ==
  ASSUME IInv, BrokerStep
  PROVE  Serves
<1>1. UNCHANGED <<place, leaseVars, cancelRequested>>
  BY DEF BrokerStep, callVars
<1>2. LeaseFn' = LeaseFn
  BY <1>1, SameLeaseFn
<1>3. CASE Service!Close
  <2>1. Under' = Under
    BY <1>1, <1>3, SameUnder DEF Service!Close
  <2> QED BY <1>1, <1>2, <1>3, <2>1
          DEF Serves, Service!ServiceNext, LeaseFn, Under
<1>4. ASSUME NEW c \in Calls,
             \/ /\ stage[c] = "held" => Service!Wanted(c)
                /\ Service!Begin(c) \/ Service!End(c)
             \/ Service!Free(c) \/ Service!Resolve(c)
      PROVE  Serves
  <2>1. \A d \in Calls : stage'[d] = "new" <=> stage[d] = "new"
    BY <1>4 DEF Service!Begin, Service!End, Service!Free, Service!Resolve,
                Service!To, Service!Holding, IInv, TypeOK
  <2>2. Under' = Under
    BY <1>1, <2>1, SameUnder
  <2>3. (Service!Free(c) \/ Service!Resolve(c))
          => ~Service!Begin(c) /\ ~Service!End(c)
    BY DEF Service!Begin, Service!End, Service!Free, Service!Resolve,
           Service!To, Service!Reply, IInv, TypeOK
  <2> QED BY <1>1, <1>2, <1>4, <2>2, <2>3, ServesOne
<1> QED BY <1>3, <1>4 DEF BrokerStep

\* The runtimes and the broker's own steps do nothing that BrokerService does
\* not promise: an operation is admitted under the runtime's live lease only,
\* close() revokes that lease once and cancels what is admitted under it, and
\* an operation is answered and given back by the side that may, whichever of
\* giving up, the host's cancellation, a failed start and the answer is first.
THEOREM UsesTheService == Spec => UsesService
<1>1. Init => Service!ServiceInit
  <2> SUFFICES ASSUME Init PROVE Service!ServiceInit
    OBVIOUS
  <2>1. {d \in Calls : stage[d] # "new"} = {}
    BY DEF Init, Service!Init
  <2>2. Under = {} /\ LeaseFn = [r \in Runtimes |-> "none"]
    BY <2>1 DEF Init, Under, LeaseFn, LeaseOf
  <2> QED BY <2>2 DEF Init, Service!ServiceInit, Under, LeaseFn
<1>2. IInv /\ [Next]_vars => [Service!ServiceNext]_(Service!svars)
  <2> SUFFICES ASSUME IInv, [Next]_vars PROVE Serves
    BY DEF Serves
  <2>1. ASSUME UNCHANGED <<place, leaseVars, avars, cancelRequested>> PROVE Serves
    <3>1. Under' = Under
      BY <2>1, SameUnder DEF avars
    <3> QED BY <2>1, <3>1, SameLeaseFn
            DEF Serves, Service!svars, Service!avars, avars, LeaseFn, Under
  <2>2. ASSUME NEW c \in Calls, Expire(c) PROVE Serves
    BY <2>1, <2>2 DEF Expire
  <2>3. ASSUME NEW k \in Closers, CloseBegin(k) PROVE Serves
    BY <2>1, <2>3 DEF CloseBegin, callVars
  <2>4. CASE UNCHANGED vars
    BY <2>1, <2>4 DEF vars, callVars
  <2> QED BY <2>2, <2>3, <2>4, ServesCall, ServesRelease, ServesBroker DEF Next
<1> QED BY <1>1, <1>2, Inductive, PTL DEF Spec, UsesService, Service!ServiceSpec

\* A step of a call or of a close() moves one runtime along its life at most.
LEMMA LifeStep ==
  ASSUME IInv, [Next]_vars, NEW r \in Runtimes
  PROVE  [Life(r)!Next]_(LifeOf(r))
<1> DEFINE Moves == [Life(r)!Next]_(LifeOf(r))
<1> USE DEF Life!Next, Life!Make, Life!Lease, Life!Shut, Life!Take, Life!Release
<1>1. ASSUME closed'[r] = closed[r], Live(r)' = Live(r) PROVE Moves
  BY <1>1 DEF LifeOf
<1>2. TypeOK /\ Leased(r) /\ (held[r] = 0 /\ ~closed[r] => Live(r) = {})
  BY DEF IInv, Leased, Live
<1>3. ASSUME NEW c \in Calls, Call(c) PROVE Moves
  <2>1. CASE LeaseForOperation(c)
    <3>1. revoked' = revoked
      BY <2>1 DEF LeaseForOperation
    <3>2. CASE acquired' = acquired
      <4>1. \/ closed'[r] = closed[r]
            \/ ~closed[r] /\ held[r] = 0 /\ closed'[r] = TRUE
        BY <1>2, <2>1, <3>2, Homes DEF LeaseForOperation, Leased, TypeOK
      <4>2. Live(r)' = Live(r)
        BY <3>1, <3>2 DEF Live
      <4> QED BY <1>1, <1>2, <4>1, <4>2 DEF LifeOf
    <3>3. CASE acquired' # acquired
      <4> DEFINE h == RuntimeOf(c)
      <4>1. /\ ~closed[h] /\ held[h] = 0 /\ closed' = closed
            /\ acquired' = [acquired EXCEPT ![h] = @ + 1]
        BY <2>1, <3>3 DEF LeaseForOperation, Return
      <4>2. CASE r = h
        <5>1. Live(r) = {} /\ acquired'[r] = 1 /\ revoked[r] = {}
          BY <1>2, <4>1, <4>2 DEF Leased, TypeOK
        <5>2. 1 \in Live(r)'
          BY <3>1, <5>1 DEF Live
        <5> QED BY <4>1, <4>2, <5>1, <5>2 DEF LifeOf
      <4>3. CASE r # h
        <5>1. Live(r)' = Live(r)
          BY <1>2, <3>1, <4>1, <4>3 DEF Live, TypeOK
        <5> QED BY <1>1, <4>1, <5>1
      <4> QED BY <4>2, <4>3
    <3> QED BY <3>2, <3>3
  <2>2. CASE ~LeaseForOperation(c)
    <3>1. UNCHANGED <<closed, leaseVars>>
      BY <1>3, <2>2 DEF Call, Begin, Preflight, Submit, Started, TakeAnswer,
                        GiveUp, CancelOperation, HostCancel, runtimeVars
    <3>2. Live(r)' = Live(r)
      BY <3>1 DEF Live, leaseVars
    <3> QED BY <1>1, <3>1, <3>2
  <2> QED BY <2>1, <2>2
<1>4. ASSUME NEW k \in Closers, CloseBegin(k) PROVE Moves
  <2>1. Live(r)' = Live(r)
    BY <1>4 DEF CloseBegin, leaseVars, Live
  <2>2. closed'[r] = closed[r] \/ (~closed[r] /\ closed'[r] = TRUE)
    BY <1>2, <1>4, Homes DEF CloseBegin, TypeOK
  <2> QED BY <1>1, <2>1, <2>2 DEF LifeOf
<1>5. ASSUME NEW k \in Closers, CloseRelease(k) PROVE Moves
  <2>1. /\ closerPc[k] = "release" /\ taken[k] = 1 /\ closed[Closes(k)]
        /\ UNCHANGED <<closed, acquired>>
        /\ revoked' = [revoked EXCEPT ![Closes(k)] = @ \cup {1}]
    BY <1>5 DEF CloseRelease, runtimeVars, IInv, Owes
  <2>2. CASE r = Closes(k)
    <3>1. Live(r)' = {}
      BY <1>2, <2>1, <2>2 DEF Live, TypeOK
    <3> QED BY <2>1, <2>2, <3>1 DEF LifeOf
  <2>3. CASE r # Closes(k)
    <3>1. Live(r)' = Live(r)
      BY <1>2, <2>1, <2>3 DEF Live, TypeOK
    <3> QED BY <1>1, <2>1, <3>1
  <2> QED BY <2>2, <2>3
<1>6. ASSUME UNCHANGED <<runtimeVars, leaseVars>> PROVE Moves
  <2>1. Live(r)' = Live(r)
    BY <1>6 DEF Live, leaseVars
  <2> QED BY <1>1, <1>6, <2>1 DEF runtimeVars
<1> QED BY <1>3, <1>4, <1>5, <1>6 DEF Next, Expire, BrokerStep, vars

\* Every runtime leads the life RuntimeLease describes, told by what the broker
\* sees of its lease, however many threads call and close it.
THEOREM LeasesAreOnce == Spec => LeasesOnce
<1>1. ASSUME NEW r \in Runtimes PROVE Spec => Life(r)!Spec
  <2>1. Init => LifeOf(r) \in {"absent", "fresh"}
    BY DEF Init, LifeOf, Live
  <2>2. Init => Life(r)!Init
    BY <2>1 DEF Life!Init
  <2>3. IInv /\ [Next]_vars => [Life(r)!Next]_(LifeOf(r))
    BY LifeStep
  <2> QED BY <2>2, <2>3, Inductive, PTL DEF Spec, Life!Spec
<1> QED BY <1>1 DEF LeasesOnce
=============================================================================
