-------------------------- MODULE SdkClientProofs --------------------------
(***************************************************************************)
(* The suppression of logging for every number of requests and loggers:    *)
(* the depth counts the requests in flight, and with one copy of the       *)
(* plugin the saved settings are what the host wants back.                 *)
(***************************************************************************)
EXTENDS SdkClient, FiniteSetTheorems, TLAPS

Flying(m) == {r \in Requests : CopyOf[r] = m /\ InFlight(r)}

\* The depth of a copy is the number of its requests in flight.
Counted ==
  /\ DOMAIN saved = Copies
  /\ \A m \in Copies : /\ depth[m] = Cardinality(Flying(m))
                       /\ depth[m] = 0 => DOMAIN saved[m] = {}

IInv == TypeOK /\ Counted /\ AnswersAreWhole

\* With one copy: what is saved is wished for, what is not saved is in force.
Remembered ==
  \A m \in Copies : \A l \in Loggers :
    /\ l \in DOMAIN saved[m] => saved[m][l] = wish[l] /\ setting[l] # Absent
    /\ l \notin DOMAIN saved[m] => setting[l] = wish[l]

OneInv == IInv /\ Remembered /\ SilentInFlight

-----------------------------------------------------------------------------
(* Counting.                                                               *)

LEMMA FiniteFlying ==
  ASSUME NEW m
  PROVE  IsFiniteSet(Flying(m)) /\ Cardinality(Flying(m)) \in Nat
<1>1. IsFiniteSet(Flying(m))
  BY SdkAssumption, FS_Subset DEF Flying
<1> QED BY <1>1, FS_CardinalityType

LEMMA Bounded ==
  ASSUME NEW S \in SUBSET Requests
  PROVE  Cardinality(S) \in 0..Cardinality(Requests)
<1>1. /\ Cardinality(S) <= Cardinality(Requests)
      /\ Cardinality(Requests) \in Nat /\ Cardinality(S) \in Nat
  BY SdkAssumption, FS_Subset, FS_CardinalityType
<1> QED BY <1>1

\* A request enters the suppression, ...
LEMMA Enters ==
  ASSUME TypeOK, Counted, NEW r \in Requests, ~InFlight(r), InFlight(r)',
         NEW p, pc' = [pc EXCEPT ![r] = p],
         depth' = [depth EXCEPT ![CopyOf[r]] = @ + 1]
  PROVE  \A m \in Copies : /\ depth'[m] = Cardinality(Flying(m)')
                           /\ depth'[m] = 0 => m # CopyOf[r] /\ depth[m] = 0
<1> SUFFICES ASSUME NEW m \in Copies
             PROVE  /\ depth'[m] = Cardinality(Flying(m)')
                    /\ depth'[m] = 0 => m # CopyOf[r] /\ depth[m] = 0
  OBVIOUS
<1>1. \A q \in Requests \ {r} : InFlight(q)' <=> InFlight(q)
  BY DEF InFlight, TypeOK
<1>2. CASE m = CopyOf[r]
  <2>1. Flying(m)' = Flying(m) \cup {r} /\ r \notin Flying(m)
    BY <1>1, <1>2 DEF Flying
  <2>2. Cardinality(Flying(m)') = Cardinality(Flying(m)) + 1
    BY <2>1, FiniteFlying, FS_AddElement
  <2> QED BY <1>2, <2>2, FiniteFlying DEF Counted, TypeOK
<1>3. CASE m # CopyOf[r]
  <2>1. Flying(m)' = Flying(m)
    BY <1>1, <1>3 DEF Flying
  <2> QED BY <1>3, <2>1 DEF Counted, TypeOK
<1> QED BY <1>2, <1>3

\* ... and leaves it; when the depth was 1 it was the only one.
LEMMA Leaves ==
  ASSUME TypeOK, Counted, NEW r \in Requests, InFlight(r), ~InFlight(r)',
         NEW p, pc' = [pc EXCEPT ![r] = p],
         depth' = [depth EXCEPT ![CopyOf[r]] = @ - 1]
  PROVE  /\ \A m \in Copies : depth'[m] = Cardinality(Flying(m)')
         /\ depth[CopyOf[r]] \in Nat \ {0}
         /\ depth[CopyOf[r]] = 1 => Flying(CopyOf[r]) = {r}
<1>1. \A q \in Requests \ {r} : InFlight(q)' <=> InFlight(q)
  BY DEF InFlight, TypeOK
<1>2. CopyOf[r] \in Copies /\ r \in Flying(CopyOf[r])
  BY SdkAssumption DEF Flying
<1>3. /\ depth[CopyOf[r]] \in Nat \ {0}
      /\ depth[CopyOf[r]] = 1 => Flying(CopyOf[r]) = {r}
  BY <1>2, FiniteFlying, FS_EmptySet, FS_Singleton DEF Counted
<1>4. ASSUME NEW m \in Copies PROVE depth'[m] = Cardinality(Flying(m)')
  <2>1. CASE m = CopyOf[r]
    <3>1. Flying(m)' = Flying(m) \ {r}
      BY <1>1, <2>1 DEF Flying
    <3>2. Cardinality(Flying(m)') = Cardinality(Flying(m)) - 1
      BY <1>2, <2>1, <3>1, FiniteFlying, FS_RemoveElement
    <3> QED BY <1>4, <2>1, <3>2, FiniteFlying DEF Counted, TypeOK
  <2>2. CASE m # CopyOf[r]
    <3>1. Flying(m)' = Flying(m)
      BY <1>1, <2>2 DEF Flying
    <3> QED BY <1>4, <2>2, <3>1 DEF Counted, TypeOK
  <2> QED BY <2>1, <2>2
<1> QED BY <1>3, <1>4

-----------------------------------------------------------------------------
(* Silencing and giving back.                                              *)

SetTypes ==
  /\ setting \in [Loggers -> Settings \cup {Absent, Off}]
  /\ wish \in [Loggers -> Settings \cup {Absent}]
  /\ DOMAIN saved = Copies
  /\ \A m \in Copies : /\ DOMAIN saved[m] \subseteq Loggers
                       /\ \A l \in DOMAIN saved[m] : saved[m][l] \in Settings \cup {Off}
  /\ bare \subseteq Loggers /\ seen \in [Requests -> SUBSET Loggers]

LEMMA SuppressTypes ==
  ASSUME TypeOK, Counted, NEW r \in Requests, Suppress(r)
  PROVE  /\ SetTypes'
         /\ \A m \in Copies \ {CopyOf[r]} : saved'[m] = saved[m]
<1> DEFINE m == CopyOf[r]
           found == Present \cup {Root}
           now(l) == IF setting[l] = Absent THEN Default ELSE setting[l]
<1>1. m \in Copies /\ Root \in Loggers /\ Default \in Settings
  BY SdkAssumption
<1>2. found \subseteq Loggers
  BY <1>1 DEF Present
<1>3. \A l \in Loggers : now(l) \in Settings \cup {Off}
  BY <1>1 DEF TypeOK
<1>4. /\ setting' = [l \in Loggers |-> IF l \in found THEN Off ELSE setting[l]]
      /\ wish' = [wish EXCEPT ![Root] = IF @ = Absent THEN Default ELSE @]
      /\ bare' = bare \ found /\ seen' = [seen EXCEPT ![r] = found]
      /\ saved' = [saved EXCEPT ![m] = [l \in DOMAIN saved[m] \cup found |->
                     IF l \in DOMAIN saved[m] THEN saved[m][l] ELSE now(l)]]
  BY DEF Suppress
<1> HIDE DEF now
<1>5. DOMAIN saved' = Copies /\ \A n \in Copies \ {m} : saved'[n] = saved[n]
  BY <1>4 DEF Counted
<1>6. saved'[m] = [l \in DOMAIN saved[m] \cup found |->
                     IF l \in DOMAIN saved[m] THEN saved[m][l] ELSE now(l)]
  BY <1>1, <1>4 DEF Counted
<1>7. /\ DOMAIN saved'[m] \subseteq Loggers
      /\ \A l \in DOMAIN saved'[m] : saved'[m][l] \in Settings \cup {Off}
  BY <1>1, <1>2, <1>3, <1>6 DEF TypeOK
<1>8. /\ setting' \in [Loggers -> Settings \cup {Absent, Off}]
      /\ wish' \in [Loggers -> Settings \cup {Absent}]
  BY <1>1, <1>4 DEF TypeOK
<1>9. bare' \subseteq Loggers /\ seen' \in [Requests -> SUBSET Loggers]
  BY <1>2, <1>4 DEF TypeOK
<1> QED BY <1>5, <1>7, <1>8, <1>9 DEF SetTypes, TypeOK

LEMMA RestoreTypes ==
  ASSUME TypeOK, Counted, NEW r \in Requests, Restore(r)
  PROVE  /\ SetTypes'
         /\ \A m \in Copies : \/ saved'[m] = saved[m]
                              \/ saved'[m] = Nothing
         /\ depth[CopyOf[r]] = 1 => saved'[CopyOf[r]] = Nothing
<1> DEFINE m == CopyOf[r]
<1>1. m \in Copies
  BY SdkAssumption
<1>2. UNCHANGED <<wish, bare, seen>>
  BY DEF Restore, ghostVars
<1>3. CASE depth[m] = 1
  <2>1. /\ setting' = [l \in Loggers |->
                         IF l \in DOMAIN saved[m] THEN saved[m][l] ELSE setting[l]]
        /\ saved' = [saved EXCEPT ![m] = Nothing]
    BY <1>3 DEF Restore
  <2>2. setting' \in [Loggers -> Settings \cup {Absent, Off}]
    BY <1>1, <2>1 DEF TypeOK
  <2>3. /\ DOMAIN saved' = Copies /\ saved'[m] = Nothing
        /\ \A n \in Copies \ {m} : saved'[n] = saved[n]
    BY <1>1, <2>1 DEF Counted
  <2>4. DOMAIN Nothing = {}
    BY DEF Nothing
  <2> QED BY <1>2, <2>2, <2>3, <2>4 DEF SetTypes, TypeOK
<1>4. CASE depth[m] # 1
  BY <1>2, <1>4 DEF Restore, SetTypes, TypeOK, Counted
<1> QED BY <1>3, <1>4

-----------------------------------------------------------------------------
(* The steps of a request, for any number of copies.                       *)

Pcs == {"idle", "load", "sending", "leave", "close", "closing", "closed", "done"}
Clients == {"none", "open", "closed", "lost"}
Outcomes == [kind : {"none", "failed", "answered"}, names : SUBSET Questions]

LEMMA InitIInv == ASSUME Init PROVE IInv
<1> USE SdkAssumption DEF Init
<1>1. \A m : Cardinality(Flying(m)) = 0
  <2>1. \A m : Flying(m) = {}
    BY DEF Flying, InFlight
  <2> QED BY <2>1, FS_EmptySet
<1>2. DOMAIN Nothing = {}
  BY DEF Nothing
<1>3. Counted
  BY <1>1, <1>2 DEF Counted
<1>4. TypeOK
  <2>1. None \in Outcomes
    BY DEF None, Outcomes
  <2>2. depth \in [Copies -> 0..Cardinality(Requests)]
    BY FS_CardinalityType
  <2>3. setting \in [Loggers -> Settings \cup {Absent}]
    OBVIOUS
  <2>4. /\ pc \in [Requests -> Pcs] /\ client \in [Requests -> Clients]
        /\ outcome \in [Requests -> Outcomes] /\ imported \in BOOLEAN
        /\ bare \subseteq Loggers /\ seen \in [Requests -> SUBSET Loggers]
    BY <2>1 DEF Pcs, Clients
  <2>5. \A m \in Copies : saved[m] = Nothing
    OBVIOUS
  <2>6. wish = setting
    OBVIOUS
  <2> HIDE DEF Init
  <2> QED BY <1>2, <2>2, <2>3, <2>4, <2>5, <2>6 DEF TypeOK, Pcs, Clients, Outcomes
<1>5. AnswersAreWhole
  BY DEF AnswersAreWhole, None
<1> QED BY <1>3, <1>4, <1>5 DEF IInv

LEMMA EnterStep ==
  ASSUME IInv, NEW r \in Requests, Suppress(r), NEW p \in Pcs,
         pc[r] \in {"idle", "close"}, p \in {"load", "closing"}, Goto(r, p),
         UNCHANGED <<imported, client, outcome>>
  PROVE  IInv'
<1> USE DEF IInv
<1>1. /\ pc' = [pc EXCEPT ![r] = p] /\ ~InFlight(r) /\ InFlight(r)'
      /\ depth' = [depth EXCEPT ![CopyOf[r]] = @ + 1]
  BY DEF Goto, InFlight, TypeOK, Suppress
<1>2. /\ SetTypes'
      /\ \A m \in Copies \ {CopyOf[r]} : saved'[m] = saved[m]
  BY SuppressTypes
<1>3. \A m \in Copies : /\ depth'[m] = Cardinality(Flying(m)')
                        /\ depth'[m] = 0 => m # CopyOf[r] /\ depth[m] = 0
  BY <1>1, Enters
<1>4. Counted'
  BY <1>2, <1>3 DEF Counted, SetTypes
<1>5. ASSUME NEW m \in Copies PROVE depth'[m] \in 0..Cardinality(Requests)
  <2>1. Cardinality(Flying(m)') \in 0..Cardinality(Requests)
    BY Bounded DEF Flying
  <2> QED BY <1>3, <1>5, <2>1
<1>6. depth' \in [Copies -> 0..Cardinality(Requests)]
  BY <1>1, <1>5 DEF TypeOK
<1>7. TypeOK'
  BY <1>1, <1>2, <1>6 DEF TypeOK, SetTypes, Pcs
<1> QED BY <1>4, <1>7 DEF AnswersAreWhole

LEMMA LeaveStep ==
  ASSUME IInv, NEW r \in Requests, Restore(r), NEW p \in Pcs,
         pc[r] \in {"leave", "closed"}, p \in {"close", "done"}, Goto(r, p),
         UNCHANGED <<imported, client, outcome>>
  PROVE  IInv'
<1> USE DEF IInv
<1>1. /\ pc' = [pc EXCEPT ![r] = p] /\ InFlight(r) /\ ~InFlight(r)'
      /\ depth' = [depth EXCEPT ![CopyOf[r]] = @ - 1]
  BY DEF Goto, InFlight, TypeOK, Restore
<1>2. /\ SetTypes'
      /\ \A m \in Copies : saved'[m] = saved[m] \/ saved'[m] = Nothing
      /\ depth[CopyOf[r]] = 1 => saved'[CopyOf[r]] = Nothing
  BY RestoreTypes
<1>3. /\ \A m \in Copies : depth'[m] = Cardinality(Flying(m)')
      /\ depth[CopyOf[r]] \in Nat \ {0}
  BY <1>1, Leaves
<1>4. Counted'
  <2>1. DOMAIN Nothing = {}
    BY DEF Nothing
  <2>2. ASSUME NEW m \in Copies, depth'[m] = 0 PROVE DOMAIN saved'[m] = {}
    BY <1>1, <1>2, <1>3, <2>1, <2>2 DEF Counted, TypeOK
  <2> QED BY <1>2, <1>3, <2>2 DEF Counted, SetTypes
<1>5. ASSUME NEW m \in Copies PROVE depth'[m] \in 0..Cardinality(Requests)
  <2>1. Cardinality(Flying(m)') \in 0..Cardinality(Requests)
    BY Bounded DEF Flying
  <2> QED BY <1>3, <1>5, <2>1
<1>6. depth' \in [Copies -> 0..Cardinality(Requests)]
  BY <1>1, <1>5 DEF TypeOK
<1>7. TypeOK'
  BY <1>1, <1>2, <1>6 DEF TypeOK, SetTypes, Pcs
<1> QED BY <1>4, <1>7 DEF AnswersAreWhole

\* A step between two boundaries of the suppression.
LEMMA WithinStep ==
  ASSUME IInv, NEW r \in Requests, NEW p \in Pcs, Goto(r, p),
         pc[r] \in {"idle", "load", "sending", "closing"},
         pc[r] = "idle" <=> p = "done",
         p \in {"sending", "leave", "closed", "done"}, UNCHANGED <<depth, saved>>
  PROVE  Counted' /\ pc' \in [Requests -> Pcs]
<1> USE DEF IInv
<1>1. \A q \in Requests : InFlight(q)' <=> InFlight(q)
  BY DEF Goto, InFlight, TypeOK, Pcs
<1>2. \A m : Flying(m)' = Flying(m)
  BY <1>1 DEF Flying
<1> QED BY <1>2 DEF Counted, Goto, TypeOK, Pcs

LEMMA NormalizedAnswer ==
  ASSUME NEW raw
  PROVE  LET o == Normalize(raw) IN
         /\ o \in Outcomes
         /\ o.kind = "answered" => /\ Questions \ Optional \subseteq o.names
                                  /\ o.names \subseteq Questions
BY DEF Normalize, Answered, Failed, Outcomes

\* An invalid request, refused at once.
Refused(r) == /\ pc[r] = "idle" /\ Goto(r, "done") /\ Say(r, Failed)
              /\ UNCHANGED <<logVars, ghostVars, imported, client>>

LEMMA OtherStep ==
  ASSUME IInv, NEW r \in Requests,
         Refused(r) \/ Load(r) \/ SendEnds(r) \/ CloseEnds(r)
  PROVE  IInv'
<1> USE DEF IInv
<1>1. Failed \in Outcomes /\ Failed.kind # "answered"
  BY DEF Failed, Outcomes
<1>2. CASE Refused(r)
  <2>1. /\ Goto(r, "done") /\ Say(r, Failed) /\ UNCHANGED ghostVars
        /\ pc[r] = "idle" /\ UNCHANGED <<logVars, imported, client>>
    BY <1>2 DEF Refused
  <2>2. Counted' /\ pc' \in [Requests -> Pcs]
    BY <2>1, WithinStep DEF Pcs, logVars
  <2>3. TypeOK' /\ AnswersAreWhole'
    BY <1>1, <2>1, <2>2 DEF TypeOK, AnswersAreWhole, Say, logVars, ghostVars,
                            Pcs, Outcomes
  <2> QED BY <2>2, <2>3
<1>3. CASE Load(r)
  <2>1. /\ pc[r] = "load" /\ UNCHANGED <<depth, saved, seen>>
        /\ \/ /\ Goto(r, "sending") /\ UNCHANGED outcome
              /\ client' = [client EXCEPT ![r] = "open"]
           \/ Goto(r, "leave") /\ Say(r, Failed) /\ UNCHANGED client
    BY <1>3 DEF Load
  <2>2. Counted' /\ pc' \in [Requests -> Pcs]
    BY <2>1, WithinStep DEF Pcs
  <2>3. /\ imported' \in BOOLEAN /\ bare' \subseteq Loggers
        /\ setting' \in [Loggers -> Settings \cup {Absent, Off}]
        /\ wish' \in [Loggers -> Settings \cup {Absent}]
    BY <1>3, SdkAssumption DEF Load, TypeOK
  <2>4. /\ client' \in [Requests -> Clients] /\ outcome' \in [Requests -> Outcomes]
        /\ AnswersAreWhole'
    BY <1>1, <2>1 DEF TypeOK, AnswersAreWhole, Say, Clients, Outcomes
  <2> QED BY <2>1, <2>2, <2>3, <2>4 DEF TypeOK, Pcs, Clients, Outcomes
<1>4. CASE SendEnds(r)
  <2>1. /\ pc[r] = "sending" /\ Goto(r, "leave")
        /\ UNCHANGED <<logVars, imported, client, ghostVars>>
    BY <1>4 DEF SendEnds
  <2>2. Counted' /\ pc' \in [Requests -> Pcs]
    BY <2>1, WithinStep DEF Pcs, logVars
  <2>3. PICK o \in Outcomes :
          /\ outcome' = [outcome EXCEPT ![r] = o]
          /\ o.kind = "answered" => /\ Questions \ Optional \subseteq o.names
                                   /\ o.names \subseteq Questions
    <3>1. CASE Say(r, Failed)
      BY <1>1, <3>1 DEF Say
    <3>2. ASSUME NEW raw \in Payloads, Say(r, Normalize(raw))
          PROVE  \E o \in Outcomes :
                   /\ outcome' = [outcome EXCEPT ![r] = o]
                   /\ o.kind = "answered" =>
                        /\ Questions \ Optional \subseteq o.names
                        /\ o.names \subseteq Questions
      BY <3>2, NormalizedAnswer DEF Say
    <3> QED BY <1>4, <3>1, <3>2 DEF SendEnds
  <2>4. outcome' \in [Requests -> Outcomes] /\ AnswersAreWhole'
    BY <2>3 DEF TypeOK, AnswersAreWhole, Outcomes
  <2> QED BY <2>1, <2>2, <2>4 DEF TypeOK, logVars, ghostVars, Pcs, Outcomes
<1>5. CASE CloseEnds(r)
  <2>1. /\ pc[r] = "closing" /\ Goto(r, "closed")
        /\ UNCHANGED <<logVars, imported, outcome, ghostVars>>
        /\ \E c \in {"closed", "lost"} : client' = [client EXCEPT ![r] = c]
    BY <1>5 DEF CloseEnds
  <2>2. Counted' /\ pc' \in [Requests -> Pcs]
    BY <2>1, WithinStep DEF Pcs, logVars
  <2>3. TypeOK' /\ AnswersAreWhole'
    BY <2>1, <2>2 DEF TypeOK, AnswersAreWhole, logVars, ghostVars, Pcs
  <2> QED BY <2>2, <2>3
<1> QED BY <1>2, <1>3, <1>4, <1>5

LEMMA ConfigureStep ==
  ASSUME IInv, NEW l \in Loggers, Configure(l)
  PROVE  IInv'
<1> USE DEF IInv, Configure
<1>1. TypeOK'
  BY DEF TypeOK
<1>2. \A m : Flying(m)' = Flying(m)
  BY DEF Flying, InFlight
<1>3. Counted' /\ AnswersAreWhole'
  BY <1>2 DEF Counted, AnswersAreWhole
<1> QED BY <1>1, <1>3

\* What a request does is one of these.
LEMMA Kinds ==
  ASSUME IInv, NEW r \in Requests, Request(r)
  PROVE  \/ \E p \in Pcs :
              /\ Suppress(r) /\ pc[r] \in {"idle", "close"}
              /\ p \in {"load", "closing"} /\ Goto(r, p)
              /\ UNCHANGED <<imported, client, outcome>>
         \/ \E p \in Pcs :
              /\ Restore(r) /\ pc[r] \in {"leave", "closed"}
              /\ p \in {"close", "done"} /\ Goto(r, p)
              /\ UNCHANGED <<imported, client, outcome>>
         \/ Refused(r) \/ Load(r) \/ SendEnds(r) \/ CloseEnds(r)
BY DEF Request, Refused, Begin, Leave, Close, CloseLeave, Pcs

LEMMA NextIInv == IInv /\ [Next]_vars => IInv'
<1> SUFFICES ASSUME IInv, [Next]_vars PROVE IInv'
  OBVIOUS
<1>1. ASSUME NEW r \in Requests, Request(r) PROVE IInv'
  BY <1>1, Kinds, EnterStep, LeaveStep, OtherStep
<1>2. ASSUME NEW l \in Loggers, Configure(l) PROVE IInv'
  BY <1>2, ConfigureStep
<1>3. CASE UNCHANGED vars
  <2>1. \A m : Flying(m)' = Flying(m)
    BY <1>3 DEF vars, Flying, InFlight
  <2>2. TypeOK' /\ AnswersAreWhole'
    BY <1>3 DEF vars, logVars, ghostVars, IInv, TypeOK, AnswersAreWhole
  <2> QED BY <1>3, <2>1, <2>2 DEF vars, logVars, IInv, Counted
<1> QED BY <1>1, <1>2, <1>3 DEF Next

\* The depth of each copy counts its requests in flight, whatever the number of
\* copies.
THEOREM Inductive == Spec => []IInv
BY InitIInv, NextIInv, PTL DEF Spec

\* The state has its types.
THEOREM TypeCorrect == Spec => []TypeOK
<1>1. IInv => TypeOK
  BY DEF IInv
<1> QED BY <1>1, Inductive, PTL

\* What reaches the runtime answers every core question and nothing else.
THEOREM WholeAnswers == Spec => []AnswersAreWhole
<1>1. IInv => AnswersAreWhole
  BY DEF IInv
<1> QED BY <1>1, Inductive, PTL

-----------------------------------------------------------------------------
(* One copy of the plugin.                                                 *)

OneCopy == \E m : Copies = {m}

LEMMA TheCopy ==
  ASSUME OneCopy, NEW m \in Copies
  PROVE  Copies = {m} /\ \A r \in Requests : CopyOf[r] = m
BY SdkAssumption DEF OneCopy

LEMMA OneInit == ASSUME OneCopy, Init PROVE OneInv
<1>1. IInv
  BY InitIInv
<1>2. DOMAIN Nothing = {}
  BY DEF Nothing
<1>3. Remembered
  BY <1>2 DEF Init, Remembered
<1>4. SilentInFlight
  BY DEF Init, SilentInFlight, InFlight
<1> QED BY <1>1, <1>3, <1>4 DEF OneInv

LEMMA OneEnter ==
  ASSUME OneCopy, OneInv, NEW r \in Requests, Suppress(r), NEW p \in Pcs,
         pc[r] \in {"idle", "close"}, Goto(r, p)
  PROVE  Remembered' /\ SilentInFlight'
<1> DEFINE m == CopyOf[r]
           found == Present \cup {Root}
           now(l) == IF setting[l] = Absent THEN Default ELSE setting[l]
<1> USE DEF OneInv, IInv
<1>1. m \in Copies /\ Copies = {m} /\ Root \in Loggers /\ Default # Absent
  BY SdkAssumption, TheCopy
<1>2. /\ setting' = [l \in Loggers |-> IF l \in found THEN Off ELSE setting[l]]
      /\ wish' = [wish EXCEPT ![Root] = IF @ = Absent THEN Default ELSE @]
      /\ bare' = bare \ found /\ seen' = [seen EXCEPT ![r] = found]
      /\ saved' = [saved EXCEPT ![m] = [l \in DOMAIN saved[m] \cup found |->
                     IF l \in DOMAIN saved[m] THEN saved[m][l] ELSE now(l)]]
  BY DEF Suppress
<1>3. saved'[m] = [l \in DOMAIN saved[m] \cup found |->
                     IF l \in DOMAIN saved[m] THEN saved[m][l] ELSE now(l)]
  BY <1>1, <1>2 DEF Counted
<1>4. ASSUME NEW l \in Loggers
      PROVE  /\ l \in DOMAIN saved'[m] =>
                  saved'[m][l] = wish'[l] /\ setting'[l] # Absent
             /\ l \notin DOMAIN saved'[m] => setting'[l] = wish'[l]
  <2>1. wish'[l] = IF l = Root /\ wish[l] = Absent THEN Default ELSE wish[l]
    BY <1>1, <1>2, <1>4 DEF TypeOK
  <2>2. setting'[l] = IF l \in found THEN Off ELSE setting[l]
    BY <1>2, <1>4
  <2>3. CASE l \in DOMAIN saved[m]
    <3>1. saved[m][l] = wish[l] /\ setting[l] # Absent /\ wish[l] # Absent
      BY <1>1, <1>4, <2>3, SdkAssumption DEF Remembered, TypeOK, Absent, Off
    <3>2. l \in found /\ Off # Absent
      BY <1>4, <3>1 DEF Present, Off, Absent
    <3> QED BY <1>3, <2>1, <2>2, <2>3, <3>1, <3>2
  <2>4. CASE l \notin DOMAIN saved[m] /\ l \in found
    <3>1. setting[l] = wish[l]
      BY <1>1, <1>4, <2>4 DEF Remembered
    <3>2. saved'[m][l] = now(l) /\ l \in DOMAIN saved'[m]
      BY <1>3, <2>4
    <3>3. wish[l] = Absent => l = Root
      BY <1>4, <2>4, <3>1 DEF Present
    <3>4. now(l) = wish'[l]
      BY <2>1, <3>1, <3>3
    <3> QED BY <2>2, <2>4, <3>2, <3>4 DEF Off, Absent
  <2>5. CASE l \notin DOMAIN saved[m] /\ l \notin found
    BY <1>1, <1>3, <1>4, <2>1, <2>2, <2>5 DEF Remembered
  <2> QED BY <2>3, <2>4, <2>5
<1>5. Remembered'
  BY <1>1, <1>4 DEF Remembered
<1>6. SilentInFlight'
  <2> SUFFICES ASSUME NEW q \in Requests, InFlight(q)', NEW l \in seen'[q] \ bare'
               PROVE  setting'[l] = Off
    BY DEF SilentInFlight
  <2>1. CASE l \in found
    BY <1>1, <1>2, <2>1 DEF Present
  <2>2. CASE l \notin found
    <3>1. q # r /\ l \in seen[q] \ bare /\ l \in Loggers
      BY <1>2, <2>2 DEF TypeOK
    <3>2. InFlight(q)
      BY <3>1 DEF Goto, InFlight, TypeOK
    <3> QED BY <1>2, <2>2, <3>1, <3>2 DEF SilentInFlight
  <2> QED BY <2>1, <2>2
<1> QED BY <1>5, <1>6

LEMMA OneLeave ==
  ASSUME OneCopy, OneInv, NEW r \in Requests, Restore(r), NEW p \in Pcs,
         pc[r] \in {"leave", "closed"}, p \in {"close", "done"}, Goto(r, p)
  PROVE  Remembered' /\ SilentInFlight'
<1> DEFINE m == CopyOf[r]
<1> USE DEF OneInv, IInv
<1>1. m \in Copies /\ Copies = {m} /\ \A q \in Requests : CopyOf[q] = m
  BY SdkAssumption, TheCopy
<1>2. /\ pc' = [pc EXCEPT ![r] = p] /\ InFlight(r) /\ ~InFlight(r)'
      /\ depth' = [depth EXCEPT ![CopyOf[r]] = @ - 1]
      /\ UNCHANGED <<wish, bare, seen>>
  BY DEF Goto, InFlight, TypeOK, Restore, ghostVars
<1>3. depth[m] = 1 => Flying(m) = {r}
  BY <1>2, Leaves
<1>4. \A q \in Requests : InFlight(q)' => InFlight(q) /\ q # r
  BY <1>2 DEF InFlight, TypeOK
<1>5. CASE depth[m] = 1
  <2>1. /\ setting' = [l \in Loggers |->
                         IF l \in DOMAIN saved[m] THEN saved[m][l] ELSE setting[l]]
        /\ saved' = [saved EXCEPT ![m] = Nothing]
    BY <1>5 DEF Restore
  <2>2. DOMAIN saved'[m] = {}
    BY <1>1, <2>1 DEF Counted, Nothing
  <2>3. \A l \in Loggers : setting'[l] = wish'[l]
    BY <1>1, <1>2, <2>1 DEF Remembered
  <2>4. Remembered'
    BY <1>1, <2>2, <2>3 DEF Remembered
  <2>5. \A q \in Requests : ~InFlight(q)'
    BY <1>1, <1>3, <1>4, <1>5 DEF Flying
  <2> QED BY <2>4, <2>5 DEF SilentInFlight
<1>6. CASE depth[m] # 1
  <2>1. UNCHANGED <<setting, saved>>
    BY <1>6 DEF Restore
  <2> QED BY <1>2, <1>4, <2>1 DEF Remembered, SilentInFlight
<1> QED BY <1>5, <1>6

LEMMA OneOther ==
  ASSUME OneCopy, OneInv, NEW r \in Requests,
         Refused(r) \/ Load(r) \/ SendEnds(r) \/ CloseEnds(r)
  PROVE  Remembered' /\ SilentInFlight'
<1> USE DEF OneInv, IInv
<1>1. /\ \A q \in Requests : InFlight(q)' => InFlight(q)
      /\ UNCHANGED <<saved, seen>>
  BY DEF Refused, Load, SendEnds, CloseEnds, Goto, InFlight, TypeOK, logVars,
         ghostVars
<1>2. CASE UNCHANGED <<setting, wish, bare>>
  BY <1>1, <1>2 DEF Remembered, SilentInFlight
<1>3. CASE /\ setting' = [l \in Loggers |-> IF l \in MadeByImport \ Present
                                           THEN Default ELSE setting[l]]
           /\ wish' = [l \in Loggers |-> IF l \in MadeByImport \ Present
                                        THEN Default ELSE wish[l]]
           /\ bare' = bare \cup (MadeByImport \ Present)
  <2>1. Default # Absent
    BY SdkAssumption
  <2>2. ASSUME NEW m \in Copies, NEW l \in Loggers, l \in DOMAIN saved[m]
        PROVE  l \in Present
    BY <2>2 DEF Remembered, Present
  <2>3. Remembered'
    BY <1>1, <1>3, <2>1, <2>2 DEF Remembered
  <2>4. SilentInFlight'
    BY <1>1, <1>3 DEF SilentInFlight, TypeOK
  <2> QED BY <2>3, <2>4
<1> QED BY <1>2, <1>3
        DEF Refused, Load, SendEnds, CloseEnds, logVars, ghostVars

LEMMA OneConfigure ==
  ASSUME OneCopy, OneInv, NEW l \in Loggers, Configure(l)
  PROVE  Remembered' /\ SilentInFlight'
<1> USE DEF OneInv, IInv
<1>1. PICK s \in Settings :
        /\ setting' = [setting EXCEPT ![l] = s]
        /\ wish' = IF Held(l) THEN wish ELSE [wish EXCEPT ![l] = s]
        /\ bare' = bare \cup {l}
        /\ UNCHANGED <<depth, saved, imported, pc, client, outcome, seen>>
  BY DEF Configure
<1>2. s # Absent
  BY SdkAssumption
<1>3. Remembered'
  <2> SUFFICES ASSUME NEW m \in Copies, NEW k \in Loggers
               PROVE  /\ k \in DOMAIN saved[m] =>
                           saved[m][k] = wish'[k] /\ setting'[k] # Absent
                      /\ k \notin DOMAIN saved[m] => setting'[k] = wish'[k]
    BY <1>1 DEF Remembered
  <2>1. CASE k # l
    BY <1>1, <2>1 DEF Remembered, TypeOK
  <2>2. CASE k = l
    <3>1. Held(l) <=> l \in DOMAIN saved[m]
      BY TheCopy DEF Held
    <3> QED BY <1>1, <1>2, <2>2, <3>1 DEF Remembered, TypeOK
  <2> QED BY <2>1, <2>2
<1>4. SilentInFlight'
  BY <1>1 DEF SilentInFlight, InFlight, TypeOK
<1> QED BY <1>3, <1>4

LEMMA OneNext == OneCopy /\ OneInv /\ [Next]_vars => OneInv'
<1> SUFFICES ASSUME OneCopy, OneInv, [Next]_vars PROVE Remembered' /\ SilentInFlight'
  BY NextIInv DEF OneInv
<1>1. ASSUME NEW r \in Requests, Request(r) PROVE Remembered' /\ SilentInFlight'
  BY <1>1, Kinds, OneEnter, OneLeave, OneOther DEF OneInv
<1>2. ASSUME NEW l \in Loggers, Configure(l) PROVE Remembered' /\ SilentInFlight'
  BY <1>2, OneConfigure
<1>3. CASE UNCHANGED vars
  BY <1>3 DEF vars, logVars, ghostVars, OneInv, Remembered, SilentInFlight,
              InFlight
<1> QED BY <1>1, <1>2, <1>3 DEF Next

\* With one copy, what it saved is what the host last set.
THEOREM OneInductive == OneCopy => (Spec => []OneInv)
<1> SUFFICES ASSUME OneCopy PROVE Spec => []OneInv
  OBVIOUS
<1>1. Init => OneInv
  BY OneInit
<1>2. OneInv /\ [Next]_vars => OneInv'
  BY OneNext
<1> QED BY <1>1, <1>2, PTL DEF Spec

\* With one copy, every logger a request found is silent while it is in flight.
THEOREM OneCopySilences == OneCopy => (Spec => []SilentInFlight)
<1>1. OneInv => SilentInFlight
  BY DEF OneInv
<1> QED BY <1>1, OneInductive, PTL

\* With one copy, the host has its loggers back as soon as no request is in
\* flight, however requests overlapped, failed and were cancelled.
THEOREM OneCopyGivesBack == OneCopy => (Spec => []HostSettingsReturn)
<1> SUFFICES ASSUME OneCopy PROVE Spec => []HostSettingsReturn
  OBVIOUS
<1>1. OneInv => HostSettingsReturn
  <2> SUFFICES ASSUME OneInv, \A r \in Requests : ~InFlight(r)
               PROVE  setting = wish
    BY DEF HostSettingsReturn
  <2>1. PICK m : Copies = {m}
    BY DEF OneCopy
  <2>2. Flying(m) = {}
    BY DEF Flying
  <2>3. DOMAIN saved[m] = {}
    BY <2>1, <2>2, FS_EmptySet DEF OneInv, IInv, Counted
  <2>4. \A l \in Loggers : setting[l] = wish[l]
    BY <2>1, <2>3 DEF OneInv, Remembered
  <2> QED BY <2>4 DEF OneInv, IInv, TypeOK
<1> QED BY <1>1, OneInductive, PTL
=============================================================================
