---------------------------- MODULE PluginProofs ----------------------------
(***************************************************************************)
(* The plugin's promises for every number of instances and callbacks, every *)
(* host and every set of checks: no lease without an unload, nothing out of *)
(* a closed runtime, and no tool run or text passed but on a complete       *)
(* judgement of it.                                                         *)
(***************************************************************************)
EXTENDS Plugin, WellFoundedInduction, TLAPS

-----------------------------------------------------------------------------
(* What the guard makes of an answer is what the answer amounts to.        *)

LEMMA Least ==
  ASSUME NEW S \in SUBSET Nat, S # {}
  PROVE  \E x \in S : \A y \in S : x <= y
<1>1. \E x \in S : \A y \in S : <<y, x>> \notin OpToRel(<, Nat)
  BY WFMin, NatLessThanWellFounded, Zenon
<1>2. \E x \in S : \A y \in S : ~(y < x)
  BY <1>1, Zenon DEF OpToRel
<1> QED BY <1>2

Worst(r) == {p \in DOMAIN Checks :
               \A q \in DOMAIN Checks : r[Checks[q]] <= r[Checks[p]]}

Loudest(r) == Checks[CHOOSE p \in Worst(r) : \A q \in Worst(r) : p <= q]

LEMMA ChecksAre ==
  /\ DOMAIN Checks \in SUBSET Nat /\ DOMAIN Checks # {}
  /\ \A p \in DOMAIN Checks : Checks[p] \in CheckSet
BY GuardAssumption DEF CheckSet, ToSet

\* Among the checks of a complete answer there is a first worst one.
LEMMA WorstExists ==
  ASSUME NEW r \in [CheckSet -> 0..MaxScore]
  PROVE  \E p \in Worst(r) : \A q \in Worst(r) : p <= q
<1>1. \A p \in DOMAIN Checks : r[Checks[p]] \in 0..MaxScore
  BY ChecksAre
<1> DEFINE Gaps == {MaxScore - r[Checks[p]] : p \in DOMAIN Checks}
<1>2. Gaps \in SUBSET Nat /\ Gaps # {}
  BY <1>1, ChecksAre, GuardAssumption
<1>3. PICK g \in Gaps : \A h \in Gaps : g <= h
  BY <1>2, Least
<1>4. PICK p \in DOMAIN Checks : g = MaxScore - r[Checks[p]]
  OBVIOUS
<1>5. p \in Worst(r)
  <2> SUFFICES ASSUME NEW q \in DOMAIN Checks PROVE r[Checks[q]] <= r[Checks[p]]
    BY DEF Worst
  <2>1. g <= MaxScore - r[Checks[q]]
    BY <1>3
  <2> QED BY <1>1, <1>4, <2>1, GuardAssumption
<1>6. Worst(r) \in SUBSET Nat /\ Worst(r) # {}
  BY <1>5, ChecksAre DEF Worst
<1> QED BY <1>6, Least

\* From any threshold on, the check selected is the first worst one, if that
\* one reaches the threshold.
LEMMA SelectsLoudest ==
  ASSUME NEW r \in [CheckSet -> 0..MaxScore], NEW m \in Nat
  PROVE  Selected(r, m) = IF r[Loudest(r)] >= m THEN Loudest(r) ELSE NoCheck
<1> DEFINE over == {i \in DOMAIN Checks : /\ Checks[i] \in DOMAIN r
                                          /\ r[Checks[i]] >= m}
           best == {i \in over : \A j \in over : r[Checks[j]] <= r[Checks[i]]}
           first == CHOOSE p \in Worst(r) : \A q \in Worst(r) : p <= q
<1>1. first \in Worst(r) /\ Loudest(r) = Checks[first]
  BY WorstExists DEF Loudest
<1>2. \A p \in DOMAIN Checks : r[Checks[p]] \in 0..MaxScore /\ Checks[p] \in DOMAIN r
  BY ChecksAre
<1>3. first \in DOMAIN Checks /\ \A q \in DOMAIN Checks : r[Checks[q]] <= r[Checks[first]]
  BY <1>1 DEF Worst
<1>4. Selected(r, m) = IF over = {} THEN NoCheck ELSE Checks[Min(best)]
  BY DEF Selected
<1> HIDE DEF first
<1>5. CASE r[Loudest(r)] >= m
  <2>1. first \in over
    BY <1>1, <1>2, <1>3, <1>5
  <2>2. best = Worst(r)
    BY <1>1, <1>2, <1>3, <1>5, <2>1 DEF Worst
  <2>3. Min(best) = first
    BY <2>2 DEF Min, first
  <2> QED BY <1>1, <1>4, <1>5, <2>1, <2>3
<1>6. CASE ~(r[Loudest(r)] >= m)
  <2>1. over = {}
    BY <1>1, <1>2, <1>3, <1>6, GuardAssumption
  <2> QED BY <1>4, <1>6, <2>1
<1> QED BY <1>5, <1>6

\* The classification and the judgement say the same.
LEMMA Judged ==
  ASSUME NEW r \in Results
  PROVE  LET j == Judgement(r)  a == Classify(r) IN
         \/ j = "nothing" /\ a.action = "unavailable"
         \/ j = "high" /\ a.action = "block"
         \/ j = "low" /\ a.action = "pass"
         \/ j \in CheckSet /\ a.action = "approve" /\ a.check = j
<1>1. CASE DOMAIN r # CheckSet
  BY <1>1 DEF Judgement, Classify, Complete
<1>2. CASE DOMAIN r = CheckSet
  <2>1. r \in [CheckSet -> 0..MaxScore]
    BY <1>2 DEF Results
  <2>2. Loudest(r) \in CheckSet
    BY <2>1, WorstExists, ChecksAre DEF Loudest, Worst
  <2>3. r[Loudest(r)] \in 0..MaxScore /\ NoCheck \notin CheckSet
    BY <2>1, <2>2, GuardAssumption
  <2>4. /\ Selected(r, High) = IF r[Loudest(r)] >= High THEN Loudest(r) ELSE NoCheck
        /\ Selected(r, Medium) = IF r[Loudest(r)] >= Medium THEN Loudest(r) ELSE NoCheck
    BY <2>1, SelectsLoudest, GuardAssumption
  <2>5. Judgement(r) = IF r[Loudest(r)] >= High THEN "high"
                       ELSE IF r[Loudest(r)] < Medium THEN "low" ELSE Loudest(r)
    BY <1>2 DEF Judgement, Loudest, Worst
  <2>6. CASE r[Loudest(r)] >= High
    BY <1>2, <2>2, <2>3, <2>4, <2>5, <2>6 DEF Classify, Complete
  <2>7. CASE r[Loudest(r)] < Medium
    BY <1>2, <2>2, <2>3, <2>4, <2>5, <2>7, GuardAssumption DEF Classify, Complete
  <2>8. CASE r[Loudest(r)] >= Medium /\ ~(r[Loudest(r)] >= High)
    BY <1>2, <2>2, <2>3, <2>4, <2>5, <2>8, GuardAssumption DEF Classify, Complete
  <2> QED BY <2>3, <2>6, <2>7, <2>8, GuardAssumption
<1> QED BY <1>1, <1>2

LEMMA UnavailableIs ==
  ASSUME NEW h
  PROVE  /\ Unavailable(h).key = NoKey
         /\ Unavailable(h).action = CASE h = "pre_tool" -> "block"
                                      [] h = "final" -> "marked"
                                      [] OTHER -> "none"
BY DEF Unavailable, NoVerdict, NoKey

LEMMA Evaluated ==
  ASSUME NEW r \in Results, NEW t, NEW scope,
         NEW j, j = Judgement(r),
         NEW v, v = EvaluateToolArguments(t, r, scope)
  PROVE  /\ \/ v.action = "block"
            \/ v.action = "pass" /\ j = "low"
            \/ /\ v.action = "approve" /\ j \in CheckSet /\ t.identified
               /\ v.key = RuleKey(scope, j, t)
         /\ v.action = "approve" <=> v.key # NoKey
         /\ j \in {"nothing", "low", "high"} \cup CheckSet
<1> DEFINE a == Classify(r)
<1>1. \/ j = "nothing" /\ a.action = "unavailable"
      \/ j = "high" /\ a.action = "block"
      \/ j = "low" /\ a.action = "pass"
      \/ j \in CheckSet /\ a.action = "approve" /\ a.check = j
  BY Judged
<1>2. v = CASE a.action = "pass" -> [action |-> "pass", key |-> NoKey]
            [] a.action = "approve" /\ t.identified ->
                 [action |-> "approve", key |-> RuleKey(scope, a.check, t)]
            [] OTHER -> [action |-> "block", key |-> NoKey]
  BY DEF EvaluateToolArguments
<1>3. RuleKey(scope, a.check, t) # NoKey
  BY DEF RuleKey, NoKey
<1> HIDE DEF a
<1>4. CASE a.action = "pass"
  <2>1. v = [action |-> "pass", key |-> NoKey]
    BY <1>2, <1>4
  <2> QED BY <1>1, <1>4, <2>1
<1>5. CASE a.action = "approve" /\ t.identified
  <2>1. v = [action |-> "approve", key |-> RuleKey(scope, a.check, t)]
    BY <1>2, <1>5
  <2> QED BY <1>1, <1>3, <1>5, <2>1
<1>6. CASE a.action # "pass" /\ ~(a.action = "approve" /\ t.identified)
  <2>1. v = [action |-> "block", key |-> NoKey]
    BY <1>2, <1>6
  <2> QED BY <1>1, <1>6, <2>1
<1> QED BY <1>4, <1>5, <1>6

LEMMA FinalTextSays ==
  ASSUME NEW r \in Results
  PROVE  /\ FinalText(r) = CASE Judgement(r) = "nothing" -> "marked"
                             [] Judgement(r) = "high" -> "replaced"
                             [] Judgement(r) = "low" -> "unchanged"
                             [] OTHER -> "warned"
         /\ FinalText(r) # "approve"
BY Judged, GuardAssumption DEF FinalText

-----------------------------------------------------------------------------
(* The inductive invariant.                                                *)

Shut(i) == \A k \in Kinds : runtime[i][k] \in {"absent", "closed"}

\* An instance from its registration to its unloading: who closes it, and what
\* is closed by then.
Life(i) ==
  /\ regPc[i] = "start" => \A k \in Kinds : runtime[i][k] = "absent"
  /\ regPc[i] \in {"start", "pre_llm", "pre_tool", "final", "on_unload"} =>
       closePc[i] = "idle" /\ unload[i] = "none"
  /\ regPc[i] \in {"tool", "raising"} => unload[i] \in {"none", "registered"}
  /\ regPc[i] = "tool" /\ closePc[i] # "idle" => unload[i] = "none"
  /\ closePc[i] # "idle" /\ RegisterOver(i) => unload[i] = "running"
  /\ unload[i] = "running" => RegisterOver(i) /\ closePc[i] # "idle"
  /\ closePc[i] = "harness" => runtime[i]["tool"] \in {"absent", "closed"}
  /\ \A k \in Kinds : runtime[i][k] = "releasing" => closePc[i] = k
  /\ /\ closePc[i] = "idle"
     /\ \/ regPc[i] = "raising" \/ unload[i] = "over"
        \/ regPc[i] \in {"tool", "done"} /\ unload[i] = "none"
     => Shut(i)
  /\ regPc[i] = "raised" => Shut(i)

\* What a verdict on a tool call rests on.
Grounded(c) ==
  IF call[c].own THEN verdict[c].action = "pass" /\ scored[c] = "nothing"
  ELSE \/ verdict[c].action = "block"
       \/ verdict[c].action = "pass" /\ scored[c] = "low" /\ Screenable(call[c])
       \/ /\ verdict[c].action = "approve" /\ scored[c] \in CheckSet
          /\ Screenable(call[c]) /\ call[c].identified
          /\ verdict[c].key = RuleKey(on[c], scored[c], call[c])

\* A callback, by its place.
Callback(c) ==
  /\ callPc[c] \in {"idle", "done"} => ~cold[c] /\ hook[c] = "none"
  /\ callPc[c] \notin {"idle", "done"} => on[c] \in Instances /\ hook[c] \in Hooks
  /\ callPc[c] # "answered" => scored[c] = "nothing"
  /\ callPc[c] \in {"ask", "asking"} =>
       ~call[c].own /\ (hook[c] = "pre_tool" => Screenable(call[c]))
  /\ cold[c] /\ callPc[c] = "ask" => Closed(runtime[on[c]][KindOf(hook[c])])
  /\ cold[c] => callPc[c] # "asking"
  /\ callPc[c] = "answered" /\ hook[c] = "pre_tool" => Grounded(c)

\* An approval the host remembers was given to a call its user was shown.
Remembered ==
  \A k \in approved : \E s \in consent :
    /\ s = [on |-> s.on, call |-> s.call, check |-> s.check]
    /\ s.call \in ToolCalls /\ ~s.call.own /\ s.call.identified
    /\ k = RuleKey(s.on, s.check, s.call)

IInv == /\ TypeOK /\ DeadHooksRefuse /\ FinalSaysWhatWasScored /\ Remembered
        /\ \A i \in Instances : Life(i)
        /\ \A c \in Calls : Callback(c)
LEMMA InitIInv == Init => IInv
<1> SUFFICES ASSUME Init PROVE IInv
  OBVIOUS
<1>1. TypeOK
  BY DEF Init, TypeOK, Kinds, NoVerdict, NoKey, Hooks
<1>2. DeadHooksRefuse /\ FinalSaysWhatWasScored /\ Remembered
  BY DEF Init, DeadHooksRefuse, FinalSaysWhatWasScored, Remembered
<1>3. \A i \in Instances : Life(i)
  BY DEF Init, Life, Shut, Kinds, RegisterOver
<1>4. \A c \in Calls : Callback(c)
  BY DEF Init, Callback
<1> QED BY <1>1, <1>2, <1>3, <1>4 DEF IInv

-----------------------------------------------------------------------------
(* The instances' steps.                                                   *)

InstanceTypes ==
  /\ ctx \in [Instances -> Contexts]
  /\ regPc \in [Instances -> {"start", "pre_llm", "pre_tool", "final", "on_unload",
                             "tool", "raising", "done", "raised"}]
  /\ closePc \in [Instances -> Kinds \cup {"idle"}]
  /\ hooks \in [Instances -> SUBSET Hooks]
  /\ unload \in [Instances -> {"none", "registered", "running", "over"}]
  /\ runtime \in [Instances -> [Kinds -> {"absent", "fresh", "leased", "releasing",
                                         "closed"}]]

Elsewhere(i) ==
  \A j \in Instances \ {i} :
    /\ regPc'[j] = regPc[j] /\ closePc'[j] = closePc[j]
    /\ unload'[j] = unload[j] /\ runtime'[j] = runtime[j]

StaysClosed ==
  \A i \in Instances : \A k \in Kinds : Closed(runtime[i][k]) => Closed(runtime'[i][k])

\* A step of one instance that keeps its own life in order, leaves the others
\* alone and reopens nothing keeps the invariant.
LEMMA InstanceFrame ==
  ASSUME IInv, UNCHANGED <<callVars, hostVars>>, NEW i \in Instances,
         InstanceTypes', Life(i)', Elsewhere(i), StaysClosed
  PROVE  IInv'
<1>0. TypeOK'
  BY DEF IInv, TypeOK, InstanceTypes, callVars, hostVars
<1>1. DeadHooksRefuse' /\ FinalSaysWhatWasScored' /\ Remembered'
  BY DEF IInv, DeadHooksRefuse, FinalSaysWhatWasScored, Remembered, callVars, hostVars
<1>2. ASSUME NEW j \in Instances PROVE Life(j)'
  <2>1. CASE j # i
    BY <2>1 DEF IInv, Elsewhere, Life, Shut, RegisterOver
  <2> QED BY <2>1
<1>3. ASSUME NEW c \in Calls PROVE Callback(c)'
  <2>1. cold[c] /\ callPc[c] = "ask" => Closed(runtime'[on[c]][KindOf(hook[c])])
    BY DEF IInv, Callback, StaysClosed, KindOf, Kinds
  <2> QED BY <2>1 DEF IInv, Callback, Grounded, callVars
<1> QED BY <1>0, <1>1, <1>2, <1>3 DEF IInv

LEMMA RegisterSteps ==
  ASSUME IInv, NEW i \in Instances, UNCHANGED <<callVars, hostVars>>,
         Register(i) \/ RegisterHook(i) \/ OnUnload(i) \/ RegisterTool(i) \/ Raise(i)
  PROVE  IInv'
<1>0. InstanceTypes /\ Life(i)
  BY DEF IInv, TypeOK, InstanceTypes
<1> USE <1>0 DEF InstanceTypes
<1>1. CASE Register(i)
  <2>1. InstanceTypes'
    BY <1>1 DEF Register, RegTo
  <2>2. Life(i)'
    BY <1>1 DEF Register, RegTo, Life, RegisterOver, Shut
  <2>3. Elsewhere(i) /\ StaysClosed
    BY <1>1 DEF Register, RegTo, Elsewhere, StaysClosed, Life, Closed
  <2> QED BY <2>1, <2>2, <2>3, InstanceFrame
<1>2. CASE RegisterHook(i)
  <2>1. InstanceTypes'
    BY <1>2 DEF RegisterHook, RegTo, Wanted, Hooks
  <2>2. Life(i)'
    BY <1>2 DEF RegisterHook, RegTo, Life, RegisterOver, Shut
  <2>3. Elsewhere(i) /\ StaysClosed
    BY <1>2 DEF RegisterHook, RegTo, Elsewhere, StaysClosed
  <2> QED BY <2>1, <2>2, <2>3, InstanceFrame
<1>3. CASE OnUnload(i)
  <2>1. InstanceTypes'
    BY <1>3 DEF OnUnload, RegTo, CloseThen, Kinds
  <2>2. Life(i)'
    BY <1>3 DEF OnUnload, RegTo, CloseThen, Life, RegisterOver, Shut, Kinds
  <2>3. Elsewhere(i) /\ StaysClosed
    BY <1>3 DEF OnUnload, RegTo, CloseThen, Elsewhere, StaysClosed
  <2> QED BY <2>1, <2>2, <2>3, InstanceFrame
<1>4. CASE RegisterTool(i)
  <2>1. InstanceTypes'
    <3>1. hooks' \in [Instances -> SUBSET Hooks]
      BY <1>4 DEF RegisterTool, Hooks
    <3>2. /\ regPc' \in [Instances -> {"start", "pre_llm", "pre_tool", "final",
                                       "on_unload", "tool", "raising", "done", "raised"}]
          /\ closePc' \in [Instances -> Kinds \cup {"idle"}]
      BY <1>4 DEF RegisterTool, RegTo, CloseThen, Kinds
    <3> QED BY <1>4, <3>1, <3>2 DEF RegisterTool
  <2>2. Life(i)'
    BY <1>4 DEF RegisterTool, RegTo, CloseThen, Life, RegisterOver, Shut, Kinds
  <2>3. Elsewhere(i) /\ StaysClosed
    BY <1>4 DEF RegisterTool, RegTo, CloseThen, Elsewhere, StaysClosed
  <2> QED BY <2>1, <2>2, <2>3, InstanceFrame
<1>5. CASE Raise(i)
  <2>1. InstanceTypes'
    BY <1>5 DEF Raise, RegTo
  <2>2. Life(i)'
    BY <1>5 DEF Raise, RegTo, Life, RegisterOver, Shut
  <2>3. Elsewhere(i) /\ StaysClosed
    BY <1>5 DEF Raise, RegTo, Elsewhere, StaysClosed
  <2> QED BY <2>1, <2>2, <2>3, InstanceFrame
<1> QED BY <1>1, <1>2, <1>3, <1>4, <1>5

LEMMA CloseSteps ==
  ASSUME IInv, NEW i \in Instances, UNCHANGED <<callVars, hostVars>>,
         Unload(i) \/ CloseSet(i) \/ CloseRelease(i)
  PROVE  IInv'
<1>0. InstanceTypes /\ Life(i)
  BY DEF IInv, TypeOK, InstanceTypes
<1> USE <1>0 DEF InstanceTypes
<1>1. CASE Unload(i)
  <2>1. InstanceTypes'
    BY <1>1 DEF Unload, Kinds
  <2>2. Life(i)'
    BY <1>1 DEF Unload, Life, RegisterOver, Shut, Kinds
  <2>3. Elsewhere(i) /\ StaysClosed
    BY <1>1 DEF Unload, Elsewhere, StaysClosed
  <2> QED BY <2>1, <2>2, <2>3, InstanceFrame
<1>2. CASE CloseSet(i)
  <2> PICK k \in Kinds :
         /\ closePc[i] = k /\ runtime[i][k] # "releasing"
         /\ IF runtime[i][k] = "leased"
            THEN /\ runtime' = [runtime EXCEPT ![i][k] = "releasing"]
                 /\ UNCHANGED <<closePc, unload>>
            ELSE /\ runtime' = [runtime EXCEPT ![i][k] =
                                  IF @ = "absent" THEN @ ELSE "closed"]
                 /\ Advance(i, k)
         /\ UNCHANGED <<ctx, regPc, hooks>>
    BY <1>2 DEF CloseSet
  <2>1. InstanceTypes'
    <3>1. runtime' \in [Instances -> [Kinds -> {"absent", "fresh", "leased",
                                               "releasing", "closed"}]]
      BY DEF Kinds
    <3>2. /\ closePc' \in [Instances -> Kinds \cup {"idle"}]
          /\ unload' \in [Instances -> {"none", "registered", "running", "over"}]
      BY DEF Advance, Kinds
    <3> QED BY <3>1, <3>2
  <2>2. Life(i)'
    BY DEF Advance, Life, RegisterOver, Shut, Kinds
  <2>3. Elsewhere(i) /\ StaysClosed
    BY DEF Advance, Elsewhere, StaysClosed, Closed
  <2> QED BY <2>1, <2>2, <2>3, InstanceFrame
<1>3. CASE CloseRelease(i)
  <2> PICK k \in Kinds :
         /\ closePc[i] = k /\ runtime[i][k] = "releasing"
         /\ runtime' = [runtime EXCEPT ![i][k] = "closed"]
         /\ Advance(i, k)
         /\ UNCHANGED <<ctx, regPc, hooks>>
    BY <1>3 DEF CloseRelease
  <2>1. InstanceTypes'
    BY DEF Advance, Kinds
  <2>2. Life(i)'
    BY DEF Advance, Life, RegisterOver, Shut, Kinds
  <2>3. Elsewhere(i) /\ StaysClosed
    BY DEF Advance, Elsewhere, StaysClosed, Closed
  <2> QED BY <2>1, <2>2, <2>3, InstanceFrame
<1> QED BY <1>1, <1>2, <1>3
-----------------------------------------------------------------------------
(* The callbacks' steps.                                                   *)

CallTypes ==
  /\ callPc \in [Calls -> {"idle", "ask", "asking", "answered", "done"}]
  /\ on \in [Calls -> Instances \cup {"none"}]
  /\ hook \in [Calls -> Hooks \cup {"none"}]
  /\ call \in [Calls -> ToolCalls \cup {NoCall}]
  /\ cold \in [Calls -> BOOLEAN]
  /\ scored \in [Calls -> {"nothing", "low", "high"} \cup CheckSet]
  /\ DOMAIN verdict = Calls /\ ran \subseteq Calls

Keyed(c) == verdict[c].action = "approve" <=> verdict[c].key # NoKey

DeadHook(c) ==
  cold[c] /\ ~call[c].own =>
    /\ scored[c] = "nothing"
    /\ callPc[c] = "answered" => verdict[c] = Unavailable(hook[c])

FinalSays(c) ==
  hook[c] = "final" /\ callPc[c] = "answered" =>
    verdict[c].action = CASE scored[c] = "nothing" -> "marked"
                          [] scored[c] = "high" -> "replaced"
                          [] scored[c] = "low" -> "unchanged"
                          [] OTHER -> "warned"

Sound(c) == Keyed(c) /\ DeadHook(c) /\ FinalSays(c) /\ Callback(c)

LEMMA SoundIs ==
  ASSUME IInv
  PROVE  CallTypes /\ InstanceTypes /\ \A c \in Calls : Sound(c)
BY DEF IInv, TypeOK, CallTypes, InstanceTypes, DeadHooksRefuse, FinalSaysWhatWasScored,
       Sound, Keyed, DeadHook, FinalSays

\* A step of one callback that leaves the others alone and its own state sound.
LEMMA CallFrame ==
  ASSUME IInv, NEW c \in Calls, UNCHANGED regVars,
         runtime' \in [Instances -> [Kinds -> {"absent", "fresh", "leased", "releasing",
                                               "closed"}]],
         \A i \in Instances : Life(i)', StaysClosed,
         CallTypes', Sound(c)', Remembered',
         \A d \in Calls \ {c} :
           /\ callPc'[d] = callPc[d] /\ on'[d] = on[d] /\ hook'[d] = hook[d]
           /\ call'[d] = call[d] /\ cold'[d] = cold[d]
           /\ scored'[d] = scored[d] /\ verdict'[d] = verdict[d]
  PROVE  IInv'
<1>1. ASSUME NEW d \in Calls PROVE Sound(d)'
  <2>1. CASE d # c
    <3>1. Sound(d) /\ (cold[d] /\ callPc[d] = "ask" =>
                         Closed(runtime'[on[d]][KindOf(hook[d])]))
      BY SoundIs DEF Sound, Callback, StaysClosed, KindOf, Kinds
    <3>2. Keyed(d)' /\ DeadHook(d)' /\ FinalSays(d)'
      BY <2>1, <3>1 DEF Sound, Keyed, DeadHook, FinalSays
    <3>3. Grounded(d)' <=> Grounded(d)
      BY <2>1 DEF Grounded
    <3>4. Callback(d)'
      BY <2>1, <3>1, <3>3 DEF Sound, Callback
    <3> QED BY <3>2, <3>4 DEF Sound
  <2> QED BY <2>1
<1>2. TypeOK'
  BY <1>1, SoundIs DEF TypeOK, CallTypes, InstanceTypes, Sound, Keyed, regVars
<1>3. DeadHooksRefuse' /\ FinalSaysWhatWasScored'
  BY <1>1 DEF DeadHooksRefuse, FinalSaysWhatWasScored, Sound, DeadHook, FinalSays
<1> QED BY <1>1, <1>2, <1>3 DEF IInv, Sound

Entered(c, i, h, t) ==
  /\ on' = [on EXCEPT ![c] = i] /\ hook' = [hook EXCEPT ![c] = h]
  /\ call' = [call EXCEPT ![c] = t]
  /\ cold' = [cold EXCEPT ![c] = Closed(runtime[i][KindOf(h)])]
  /\ \/ h = "pre_tool" /\ t.own /\ Answer(c, [NoVerdict EXCEPT !.action = "pass"])
     \/ ~t.own /\ Answer(c, Unavailable(h))
     \/ /\ h = "pre_tool" => Screenable(t)
        /\ callPc' = [callPc EXCEPT ![c] = "ask"] /\ UNCHANGED verdict

LEMMA EnterSteps ==
  ASSUME IInv, NEW c \in Calls, Enter(c), UNCHANGED <<regVars, runtime, hostVars>>
  PROVE  IInv'
<1>0. CallTypes /\ InstanceTypes /\ Sound(c)
  BY SoundIs
<1> PICK i \in Instances : \E h \in hooks[i] :
      \E t \in (IF h = "pre_tool" THEN ToolCalls ELSE {NoCall}) : Entered(c, i, h, t)
  BY DEF Enter, Entered
<1> PICK h \in hooks[i] :
      \E t \in (IF h = "pre_tool" THEN ToolCalls ELSE {NoCall}) : Entered(c, i, h, t)
  OBVIOUS
<1> PICK t \in (IF h = "pre_tool" THEN ToolCalls ELSE {NoCall}) : Entered(c, i, h, t)
  OBVIOUS
<1> USE DEF Entered
<1>1. callPc[c] = "idle" /\ scored' = scored /\ scored[c] = "nothing" /\ h \in Hooks
  BY <1>0 DEF Enter, Sound, Callback, InstanceTypes
<1>2. CallTypes'
  BY <1>0, <1>1 DEF CallTypes, Answer, hostVars, Closed
<1>3. Sound(c)'
  <2>1. /\ on'[c] = i /\ hook'[c] = h /\ call'[c] = t /\ scored'[c] = "nothing"
        /\ cold'[c] = Closed(runtime[i][KindOf(h)])
        /\ h # "pre_tool" => t = NoCall
    BY <1>0, <1>1 DEF CallTypes
  <2>2. CASE h = "pre_tool" /\ t.own /\ Answer(c, [NoVerdict EXCEPT !.action = "pass"])
    <3>1. /\ callPc'[c] = "answered"
          /\ verdict'[c] = [NoVerdict EXCEPT !.action = "pass"]
      BY <1>0, <2>2 DEF CallTypes, Answer
    <3> QED BY <1>1, <2>1, <2>2, <3>1
         DEF Sound, Keyed, DeadHook, FinalSays, Callback, Grounded, NoVerdict, NoKey
  <2>3. CASE ~t.own /\ Answer(c, Unavailable(h))
    <3>1. callPc'[c] = "answered" /\ verdict'[c] = Unavailable(h)
      BY <1>0, <2>3 DEF CallTypes, Answer
    <3>2. Keyed(c)' /\ DeadHook(c)' /\ FinalSays(c)'
      BY <2>1, <3>1, UnavailableIs DEF Keyed, DeadHook, FinalSays
    <3>3. Callback(c)'
      BY <1>1, <2>1, <2>3, <3>1, UnavailableIs DEF Callback, Grounded
    <3> QED BY <3>2, <3>3 DEF Sound
  <2>4. CASE /\ h = "pre_tool" => Screenable(t)
             /\ callPc' = [callPc EXCEPT ![c] = "ask"] /\ UNCHANGED verdict
    <3>1. callPc'[c] = "ask" /\ verdict'[c] = verdict[c] /\ ~t.own
      BY <1>0, <2>1, <2>4 DEF CallTypes, Screenable, NoCall
    <3>2. Keyed(c)' /\ DeadHook(c)' /\ FinalSays(c)'
      BY <1>0, <2>1, <3>1 DEF Sound, Keyed, DeadHook, FinalSays
    <3>3. Callback(c)'
      BY <1>1, <2>1, <2>4, <3>1 DEF Callback
    <3> QED BY <3>2, <3>3 DEF Sound
  <2> QED BY <2>2, <2>3, <2>4
<1>4. Remembered' /\ StaysClosed /\ \A j \in Instances : Life(j)'
  BY DEF IInv, Remembered, hostVars, StaysClosed, Life, Shut, regVars, RegisterOver
<1>5. \A d \in Calls \ {c} :
         /\ callPc'[d] = callPc[d] /\ on'[d] = on[d] /\ hook'[d] = hook[d]
         /\ call'[d] = call[d] /\ cold'[d] = cold[d]
         /\ scored'[d] = scored[d] /\ verdict'[d] = verdict[d]
  BY <1>0, <1>1 DEF CallTypes, Answer
<1> QED BY <1>0, <1>2, <1>3, <1>4, <1>5, CallFrame DEF InstanceTypes

LEMMA AskSteps ==
  ASSUME IInv, NEW c \in Calls, Ask(c), UNCHANGED <<regVars, hostVars>>
  PROVE  IInv'
<1> DEFINE i == on[c]
           k == KindOf(hook[c])
<1>0. CallTypes /\ InstanceTypes /\ Sound(c)
  BY SoundIs
<1>1. /\ callPc[c] = "ask" /\ i \in Instances /\ k \in Kinds /\ hook[c] \in Hooks
      /\ scored[c] = "nothing" /\ ~call[c].own
      /\ hook[c] = "pre_tool" => Screenable(call[c])
      /\ cold[c] => Closed(runtime[i][k])
      /\ UNCHANGED <<on, hook, call, cold, scored>>
  BY <1>0 DEF Ask, Sound, Callback, KindOf, Kinds
<1>2. \/ runtime' = runtime
      \/ /\ runtime[i][k] \in {"fresh", "leased"}
         /\ \E s \in {"leased", "closed"} :
              runtime' = [runtime EXCEPT ![i][k] = s] /\ (runtime[i][k] = "leased" => s = "leased")
  <2>1. /\ runtime[i][k] = "leased" => runtime' = runtime \/ runtime' = [runtime EXCEPT ![i][k] = "leased"]
        /\ runtime[i][k] = "fresh" => \/ runtime' = runtime
                                      \/ runtime' = [runtime EXCEPT ![i][k] = "leased"]
                                      \/ runtime' = [runtime EXCEPT ![i][k] = "closed"]
        /\ runtime[i][k] \notin {"fresh", "leased"} =>
             runtime' = runtime \/ runtime' = [runtime EXCEPT ![i][k] = @]
    BY DEF Ask
  <2>2. [runtime EXCEPT ![i][k] = @] = runtime
    BY <1>0, <1>1 DEF InstanceTypes
  <2> QED BY <2>1, <2>2
<1> HIDE DEF i, k
<1>3. runtime' \in [Instances -> [Kinds -> {"absent", "fresh", "leased", "releasing",
                                            "closed"}]]
  BY <1>0, <1>1, <1>2 DEF InstanceTypes
<1>4. \A j \in Instances : \A m \in Kinds :
        /\ runtime[j][m] = "absent" <=> runtime'[j][m] = "absent"
        /\ runtime[j][m] = "releasing" <=> runtime'[j][m] = "releasing"
        /\ runtime[j][m] = "closed" => runtime'[j][m] = "closed"
  BY <1>0, <1>1, <1>2 DEF InstanceTypes
<1>5. \A j \in Instances : Life(j)'
  BY <1>4 DEF IInv, Life, Shut, regVars, RegisterOver, Kinds
<1>6. \/ callPc' = [callPc EXCEPT ![c] = "asking"] /\ UNCHANGED verdict /\ ~cold[c]
      \/ Answer(c, Unavailable(hook[c]))
  BY <1>1 DEF Ask, Closed, i, k
<1>7. CallTypes'
  BY <1>0, <1>1, <1>6 DEF CallTypes, Answer, hostVars
<1>8. Sound(c)'
  <2>1. CASE callPc' = [callPc EXCEPT ![c] = "asking"] /\ UNCHANGED verdict /\ ~cold[c]
    BY <1>0, <1>1, <2>1 DEF CallTypes, Sound, Keyed, DeadHook, FinalSays, Callback, i
  <2>2. CASE Answer(c, Unavailable(hook[c]))
    <3>1. callPc'[c] = "answered" /\ verdict'[c] = Unavailable(hook[c])
      BY <1>0, <2>2 DEF CallTypes, Answer
    <3>2. Keyed(c)' /\ DeadHook(c)' /\ FinalSays(c)'
      BY <1>1, <3>1, UnavailableIs DEF Keyed, DeadHook, FinalSays
    <3>3. Callback(c)'
      BY <1>1, <3>1, UnavailableIs DEF Callback, Grounded, i
    <3> QED BY <3>2, <3>3 DEF Sound
  <2> QED BY <1>6, <2>1, <2>2
<1>9. Remembered'
  BY DEF IInv, Remembered, hostVars
<1>10. \A d \in Calls \ {c} :
         /\ callPc'[d] = callPc[d] /\ on'[d] = on[d] /\ hook'[d] = hook[d]
         /\ call'[d] = call[d] /\ cold'[d] = cold[d]
         /\ scored'[d] = scored[d] /\ verdict'[d] = verdict[d]
  BY <1>0, <1>1, <1>6 DEF CallTypes, Answer
<1>11. StaysClosed
  BY <1>0, <1>4 DEF InstanceTypes, StaysClosed, Closed
<1> QED BY <1>3, <1>5, <1>7, <1>8, <1>9, <1>10, <1>11, CallFrame

AnsweredBy(c, r) ==
  /\ scored' = [scored EXCEPT ![c] = Judgement(r)]
  /\ Answer(c, CASE hook[c] = "pre_tool" -> EvaluateToolArguments(call[c], r, on[c])
                 [] hook[c] = "final" -> [NoVerdict EXCEPT !.action = FinalText(r)]
                 [] OTHER -> NoVerdict)

LEMMA AskEndSteps ==
  ASSUME IInv, NEW c \in Calls, AskEnd(c), UNCHANGED <<regVars, runtime, hostVars>>
  PROVE  IInv'
<1>0. CallTypes /\ InstanceTypes /\ Sound(c)
  BY SoundIs
<1>1. /\ callPc[c] = "asking" /\ on[c] \in Instances /\ hook[c] \in Hooks
      /\ scored[c] = "nothing" /\ ~call[c].own /\ ~cold[c]
      /\ hook[c] = "pre_tool" => Screenable(call[c])
      /\ UNCHANGED <<on, hook, call, cold>>
  BY <1>0 DEF AskEnd, Sound, Callback
<1>2. ASSUME Answer(c, Unavailable(hook[c])), UNCHANGED scored
      PROVE  CallTypes' /\ Sound(c)'
  <2>1. callPc'[c] = "answered" /\ verdict'[c] = Unavailable(hook[c])
    BY <1>0, <1>2 DEF CallTypes, Answer
  <2>2. Keyed(c)' /\ DeadHook(c)' /\ FinalSays(c)'
    BY <1>1, <1>2, <2>1, UnavailableIs DEF Keyed, DeadHook, FinalSays
  <2>3. Callback(c)'
    BY <1>1, <1>2, <2>1, UnavailableIs DEF Callback, Grounded
  <2>4. CallTypes' /\ Sound(c)'
    BY <1>0, <1>1, <1>2, <2>2, <2>3 DEF CallTypes, Answer, hostVars, Sound
  <2> QED BY <2>4
<1>3. ASSUME NEW r \in Results, AnsweredBy(c, r)
      PROVE  CallTypes' /\ Sound(c)'
  <2> DEFINE j == Judgement(r)
             v == EvaluateToolArguments(call[c], r, on[c])
  <2>1. /\ \/ v.action = "block"
           \/ v.action = "pass" /\ j = "low"
           \/ /\ v.action = "approve" /\ j \in CheckSet /\ call[c].identified
              /\ v.key = RuleKey(on[c], j, call[c])
        /\ v.action = "approve" <=> v.key # NoKey
        /\ j \in {"nothing", "low", "high"} \cup CheckSet
    BY Evaluated
  <2>2. /\ callPc'[c] = "answered" /\ scored'[c] = j
        /\ hook[c] = "pre_tool" => verdict'[c] = v
        /\ hook[c] = "final" => verdict'[c] = [NoVerdict EXCEPT !.action = FinalText(r)]
        /\ hook[c] \notin {"pre_tool", "final"} => verdict'[c] = NoVerdict
    BY <1>0, <1>3 DEF CallTypes, Answer, AnsweredBy
  <2> HIDE DEF j, v
  <2>3. CallTypes'
    BY <1>0, <1>1, <1>3, <2>1 DEF CallTypes, Answer, AnsweredBy, hostVars, j
  <2>4. DeadHook(c)'
    BY <1>1 DEF DeadHook
  <2>5. hook'[c] = hook[c] /\ call'[c] = call[c] /\ on'[c] = on[c] /\ ~cold'[c]
    BY <1>1
  <2>6. CASE hook[c] = "pre_tool"
    <3>1. Keyed(c)' /\ FinalSays(c)'
      BY <2>1, <2>2, <2>5, <2>6 DEF Keyed, FinalSays
    <3>2. Grounded(c)'
      BY <1>1, <2>1, <2>2, <2>5, <2>6 DEF Grounded
    <3>3. Callback(c)'
      BY <1>1, <2>2, <2>5, <3>2 DEF Callback
    <3> QED BY <2>3, <2>4, <3>1, <3>3 DEF Sound
  <2>7. CASE hook[c] = "final"
    <3>1. verdict'[c].action = FinalText(r) /\ verdict'[c].key = NoKey
      BY <2>2, <2>7 DEF NoVerdict
    <3>2. Keyed(c)' /\ FinalSays(c)'
      BY <2>2, <2>5, <2>7, <3>1, FinalTextSays DEF Keyed, FinalSays, j
    <3>3. Callback(c)'
      BY <1>1, <2>2, <2>5, <2>7 DEF Callback
    <3> QED BY <2>3, <2>4, <3>2, <3>3 DEF Sound
  <2>8. CASE hook[c] \notin {"pre_tool", "final"}
    <3>1. verdict'[c].action = "none" /\ verdict'[c].key = NoKey
      BY <2>2, <2>8 DEF NoVerdict
    <3>2. Keyed(c)' /\ FinalSays(c)'
      BY <2>5, <2>8, <3>1 DEF Keyed, FinalSays
    <3>3. Callback(c)'
      BY <1>1, <2>2, <2>5, <2>8 DEF Callback
    <3> QED BY <2>3, <2>4, <3>2, <3>3 DEF Sound
  <2> QED BY <2>6, <2>7, <2>8
<1>4. CallTypes' /\ Sound(c)'
  <2>1. \/ Answer(c, Unavailable(hook[c])) /\ UNCHANGED scored
        \/ \E r \in Results : AnsweredBy(c, r)
    BY DEF AskEnd, AnsweredBy
  <2> QED BY <1>2, <1>3, <2>1
<1>5. Remembered' /\ StaysClosed /\ \A j \in Instances : Life(j)'
  BY DEF IInv, Remembered, hostVars, StaysClosed, Life, Shut, regVars, RegisterOver
<1>6. \A d \in Calls \ {c} :
         /\ callPc'[d] = callPc[d] /\ on'[d] = on[d] /\ hook'[d] = hook[d]
         /\ call'[d] = call[d] /\ cold'[d] = cold[d]
         /\ scored'[d] = scored[d] /\ verdict'[d] = verdict[d]
  BY <1>0, <1>1 DEF CallTypes, AskEnd, Answer
<1> QED BY <1>0, <1>4, <1>5, <1>6, CallFrame DEF InstanceTypes
\* What the host's run of a tool call rests on.
LEMMA HostRunsWhat ==
  ASSUME IInv, NEW c \in Calls, HostRuns(c)
  PROVE  \/ UNCHANGED hostVars
         \/ /\ hook[c] = "pre_tool" /\ Grounded(c) /\ ran' = ran \cup {c}
            /\ \/ verdict[c].action = "pass" /\ UNCHANGED <<approved, consent>>
               \/ verdict[c].action = "approve" /\ verdict[c].key \in approved
                  /\ UNCHANGED <<approved, consent>>
               \/ /\ verdict[c].action = "approve"
                  /\ approved' = approved \cup {verdict[c].key}
                  /\ consent' = consent \cup {Shown(c)}
<1>1. callPc[c] = "answered" /\ (hook[c] = "pre_tool" => Grounded(c))
  BY SoundIs DEF HostRuns, Sound, Callback
<1> QED BY <1>1 DEF HostRuns

LEMMA ShownIs ==
  ASSUME IInv, NEW c \in Calls, Grounded(c), verdict[c].action = "approve"
  PROVE  /\ ~call[c].own /\ call[c] \in ToolCalls /\ call[c].identified
         /\ scored[c] \in CheckSet
         /\ verdict[c].key = RuleKey(on[c], scored[c], call[c])
         /\ Shown(c) = [on |-> on[c], call |-> call[c], check |-> scored[c]]
<1>1. /\ ~call[c].own /\ call[c].identified /\ scored[c] \in CheckSet
      /\ verdict[c].key = RuleKey(on[c], scored[c], call[c])
  BY DEF Grounded
<1>2. call[c] \in ToolCalls
  BY <1>1, SoundIs DEF CallTypes, NoCall
<1>3. verdict[c].key[2] = scored[c]
  BY <1>1 DEF RuleKey
<1> QED BY <1>1, <1>2, <1>3 DEF Shown

LEMMA HostSteps ==
  ASSUME IInv, NEW c \in Calls, HostRuns(c), UNCHANGED <<regVars, runtime>>
  PROVE  IInv'
<1>0. CallTypes /\ InstanceTypes /\ Sound(c)
  BY SoundIs
<1>1. /\ callPc' = [callPc EXCEPT ![c] = "done"]
      /\ on' = [on EXCEPT ![c] = "none"] /\ hook' = [hook EXCEPT ![c] = "none"]
      /\ call' = [call EXCEPT ![c] = NoCall] /\ cold' = [cold EXCEPT ![c] = FALSE]
      /\ scored' = [scored EXCEPT ![c] = "nothing"]
      /\ verdict' = [verdict EXCEPT ![c] = NoVerdict]
  BY DEF HostRuns
<1>2. CallTypes'
  BY <1>0, <1>1, HostRunsWhat DEF CallTypes, hostVars
<1>3. Sound(c)'
  BY <1>0, <1>1 DEF CallTypes, Sound, Keyed, DeadHook, FinalSays, Callback, NoVerdict, NoKey
<1>4. Remembered'
  <2>1. CASE UNCHANGED <<approved, consent>>
    BY <2>1 DEF IInv, Remembered
  <2>2. CASE /\ Grounded(c) /\ verdict[c].action = "approve"
             /\ approved' = approved \cup {verdict[c].key}
             /\ consent' = consent \cup {Shown(c)}
    <3>1. \A k \in approved : \E s \in consent' :
             /\ s = [on |-> s.on, call |-> s.call, check |-> s.check]
             /\ s.call \in ToolCalls /\ ~s.call.own /\ s.call.identified
             /\ k = RuleKey(s.on, s.check, s.call)
      BY <2>2 DEF IInv, Remembered
    <3>2. LET s == Shown(c) IN
             /\ s \in consent'
             /\ s = [on |-> s.on, call |-> s.call, check |-> s.check]
             /\ s.call \in ToolCalls /\ ~s.call.own /\ s.call.identified
             /\ verdict[c].key = RuleKey(s.on, s.check, s.call)
      BY <2>2, ShownIs
    <3> QED BY <2>2, <3>1, <3>2 DEF Remembered
  <2> QED BY <2>1, <2>2, HostRunsWhat DEF hostVars
<1>5. StaysClosed /\ \A j \in Instances : Life(j)'
  BY DEF IInv, StaysClosed, Life, Shut, regVars, RegisterOver
<1>6. \A d \in Calls \ {c} :
         /\ callPc'[d] = callPc[d] /\ on'[d] = on[d] /\ hook'[d] = hook[d]
         /\ call'[d] = call[d] /\ cold'[d] = cold[d]
         /\ scored'[d] = scored[d] /\ verdict'[d] = verdict[d]
  BY <1>0, <1>1 DEF CallTypes
<1> QED BY <1>0, <1>2, <1>3, <1>4, <1>5, <1>6, CallFrame DEF InstanceTypes

-----------------------------------------------------------------------------
(* The theorems.                                                           *)

\* The invariant is kept by every step: the host's reloads and registrations,
\* what its threads call meanwhile, and the unloading (__init__.py, guard.py,
\* harness.py).
THEOREM Inductive == IInv /\ [Next]_vars => IInv'
<1> SUFFICES ASSUME IInv, [Next]_vars PROVE IInv'
  OBVIOUS
<1>1. CASE UNCHANGED vars
  BY <1>1 DEF vars, regVars, callVars, hostVars, IInv, TypeOK, DeadHooksRefuse,
              FinalSaysWhatWasScored, Remembered, Life, Shut, RegisterOver, Callback,
              Grounded
<1>2. ASSUME NEW i \in Instances, UNCHANGED <<callVars, hostVars>>,
             \/ Register(i) \/ RegisterHook(i) \/ OnUnload(i) \/ RegisterTool(i)
             \/ Raise(i) \/ Unload(i) \/ CloseSet(i) \/ CloseRelease(i)
      PROVE  IInv'
  BY <1>2, RegisterSteps, CloseSteps
<1>3. ASSUME NEW c \in Calls,
             \/ (Enter(c) \/ AskEnd(c)) /\ UNCHANGED <<regVars, runtime, hostVars>>
             \/ Ask(c) /\ UNCHANGED <<regVars, hostVars>>
             \/ HostRuns(c) /\ UNCHANGED <<regVars, runtime>>
      PROVE  IInv'
  BY <1>3, EnterSteps, AskSteps, AskEndSteps, HostSteps
<1> QED BY <1>1, <1>2, <1>3 DEF Next

LEMMA Invariant == Spec => []IInv
BY InitIInv, Inductive, PTL DEF Spec

\* Every variable keeps its type, and a verdict carries a rule key exactly when
\* it asks for approval (guard.py, ToolGuardDecision).
THEOREM TypesHold == Spec => []TypeOK
<1>1. IInv => TypeOK
  BY DEF IInv
<1> QED BY <1>1, Invariant, PTL

\* Once register() is over, a lease has an unload to end it; once that is over,
\* no runtime has one or gets one (__init__.py, close_runtimes).
THEOREM LeasesHaveUnloads == Spec => []LeaseHasUnload
<1>1. IInv => LeaseHasUnload
  <2> SUFFICES ASSUME IInv, NEW i \in Instances, NEW k \in Kinds, RegisterOver(i)
               PROVE  /\ runtime[i][k] \in {"fresh", "leased", "releasing"} =>
                           regPc[i] = "done" /\ unload[i] \in {"registered", "running"}
                      /\ unload[i] \notin {"registered", "running"} =>
                           runtime[i][k] \in {"absent", "closed"}
    BY DEF LeaseHasUnload
  <2>1. Life(i) /\ InstanceTypes
    BY SoundIs DEF IInv
  <2> QED BY <2>1 DEF Life, Shut, RegisterOver, InstanceTypes
<1> QED BY <1>1, Invariant, PTL

\* A callback of a closed runtime gets nothing from the service and says so
\* (harness.py, the handlers' except branches).
THEOREM DeadHooksAreRefused == Spec => []DeadHooksRefuse
<1>1. IInv => DeadHooksRefuse
  BY DEF IInv
<1> QED BY <1>1, Invariant, PTL

\* The final screen says what was scored and no more (represent_final_text).
THEOREM FinalTextIsTrue == Spec => []FinalSaysWhatWasScored
<1>1. IInv => FinalSaysWhatWasScored
  BY DEF IInv
<1> QED BY <1>1, Invariant, PTL

\* Every run of a tool call is one callback's, as HostRunsWhat has it.
LEMMA RunsAre ==
  ASSUME IInv, [Next]_vars, NEW c \in ran' \ ran
  PROVE  c \in Calls /\ HostRuns(c)
<1>1. CASE UNCHANGED vars
  BY <1>1 DEF vars, hostVars
<1>2. ASSUME NEW d \in Calls, HostRuns(d), ran' # ran PROVE c \in Calls /\ HostRuns(c)
  BY <1>2, HostRunsWhat DEF hostVars
<1> QED BY <1>1, <1>2 DEF Next, hostVars

\* A foreign tool runs only on a complete judgement of its very call
\* (harness.py and guard.py; docs/DECISIONS.md).
THEOREM RunsRestOnJudgement == Spec => RunsAreJudged
<1>1. ASSUME IInv, [Next]_vars, NEW c \in ran' \ ran, ~call[c].own
      PROVE  Screenable(call[c]) /\ scored[c] \in {"low"} \cup CheckSet
  <2>1. c \in Calls /\ HostRuns(c)
    BY <1>1, RunsAre
  <2>2. Grounded(c) /\ verdict[c].action \in {"pass", "approve"}
    BY <1>1, <2>1, HostRunsWhat DEF hostVars
  <2> QED BY <1>1, <2>2 DEF Grounded
<1>2. IInv /\ [Next]_vars =>
        [\A c \in ran' \ ran : ~call[c].own =>
           Screenable(call[c]) /\ scored[c] \in {"low"} \cup CheckSet]_vars
  BY <1>1
<1> QED BY <1>2, Invariant, PTL DEF Spec, RunsAreJudged

\* A doubted tool call runs only when the user was shown that doubt about that
\* very call of that plugin instance: two calls with the same rule key are one
\* (guard.py, the rule key; harness.py, the instance's scope).
THEOREM ConsentIsForOneCall == Spec => ConsentIsForThisCall
<1>1. ASSUME IInv, [Next]_vars, NEW c \in ran' \ ran, scored[c] \in CheckSet
      PROVE  [on |-> on[c], call |-> call[c], check |-> scored[c]] \in consent'
  <2>1. c \in Calls /\ HostRuns(c)
    BY <1>1, RunsAre
  <2>2. /\ Grounded(c)
        /\ \/ verdict[c].action = "pass"
           \/ verdict[c].action = "approve" /\ verdict[c].key \in approved
              /\ UNCHANGED <<approved, consent>>
           \/ verdict[c].action = "approve" /\ consent' = consent \cup {Shown(c)}
    BY <1>1, <2>1, HostRunsWhat DEF hostVars
  <2>3. verdict[c].action = "approve"
    BY <1>1, <2>2, GuardAssumption DEF Grounded
  <2>4. /\ ~call[c].own /\ call[c] \in ToolCalls /\ call[c].identified
        /\ verdict[c].key = RuleKey(on[c], scored[c], call[c])
        /\ Shown(c) = [on |-> on[c], call |-> call[c], check |-> scored[c]]
    BY <1>1, <2>1, <2>2, <2>3, ShownIs
  <2>5. CASE verdict[c].key \in approved /\ UNCHANGED <<approved, consent>>
    <3>1. PICK s \in consent :
             /\ s = [on |-> s.on, call |-> s.call, check |-> s.check]
             /\ s.call \in ToolCalls /\ ~s.call.own /\ s.call.identified
             /\ verdict[c].key = RuleKey(s.on, s.check, s.call)
      BY <1>1, <2>5 DEF IInv, Remembered
    <3>2. /\ s.on = on[c] /\ s.check = scored[c]
          /\ s.call.id = call[c].id /\ s.call.args = call[c].args
      BY <2>4, <3>1 DEF RuleKey
    <3>3. s.call = call[c]
      BY <2>4, <3>1, <3>2, GuardAssumption
    <3> QED BY <2>5, <3>1, <3>2, <3>3
  <2> QED BY <2>2, <2>3, <2>4, <2>5
<1>2. IInv /\ [Next]_vars =>
        [\A c \in ran' \ ran : scored[c] \in CheckSet =>
           [on |-> on[c], call |-> call[c], check |-> scored[c]] \in consent']_vars
  BY <1>1
<1> QED BY <1>2, Invariant, PTL DEF Spec, ConsentIsForThisCall

\* A step of the plugin moves a runtime along its life or leaves it.
LEMMA RuntimeLifeStep ==
  ASSUME IInv, [Next]_vars, NEW i \in Instances, NEW k \in Kinds
  PROVE  [RuntimeLife(i, k)!Next]_(runtime[i][k])
<1> DEFINE Moves == [RuntimeLife(i, k)!Next]_(runtime[i][k])
<1> USE DEF RuntimeLife!Next, RuntimeLife!Make, RuntimeLife!Lease,
            RuntimeLife!Shut, RuntimeLife!Take, RuntimeLife!Release
<1>1. CASE UNCHANGED runtime
  BY <1>1
<1>2. runtime \in [Instances -> [Kinds -> {"absent", "fresh", "leased",
                                          "releasing", "closed"}]]
  BY DEF IInv, TypeOK
<1>3. ASSUME NEW j \in Instances, Register(j) PROVE Moves
  <2>1. j = i => runtime[i][k] = "absent"
    BY <1>3 DEF Register, IInv, Life
  <2> QED BY <1>2, <1>3, <2>1 DEF Register
<1>4. ASSUME NEW j \in Instances, CloseSet(j) PROVE Moves
  BY <1>2, <1>4 DEF CloseSet
<1>5. ASSUME NEW j \in Instances, CloseRelease(j) PROVE Moves
  BY <1>2, <1>5 DEF CloseRelease
<1>6. ASSUME NEW c \in Calls, Ask(c) PROVE Moves
  BY <1>2, <1>6 DEF Ask
<1> QED BY <1>1, <1>3, <1>4, <1>5, <1>6
        DEF Next, RegisterHook, OnUnload, RegisterTool, Raise, Unload, vars

\* Registration, unloading and the callbacks use a runtime as it lets them: what
\* Plugin keeps of a runtime behaves as RuntimeLease says, and so, by the
\* theorem LeasesAreOnce of RuntimeProofs, does a runtime (runtime.py).
THEOREM RuntimesLeaseOnce == Spec => UsesRuntimes
<1>1. ASSUME NEW i \in Instances, NEW k \in Kinds
      PROVE  Spec => RuntimeLife(i, k)!Spec
  <2>1. Init => RuntimeLife(i, k)!Init
    BY DEF Init, RuntimeLife!Init
  <2>2. IInv /\ [Next]_vars => [RuntimeLife(i, k)!Next]_(runtime[i][k])
    BY RuntimeLifeStep
  <2> QED BY <2>1, <2>2, Invariant, PTL DEF Spec, RuntimeLife!Spec
<1> QED BY <1>1 DEF UsesRuntimes
=============================================================================
