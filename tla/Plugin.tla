------------------------------- MODULE Plugin -------------------------------
(***************************************************************************)
(* A plugin instance from register(ctx) to its unloading (__init__.py),    *)
(* with the callbacks the host makes into it meanwhile: the pre-tool guard *)
(* and the final screen of harness.py, and the calls of the other two      *)
(* hooks as far as they use the instance's runtimes.                       *)
(*                                                                         *)
(* An instance owns two runtimes, one of the system_one tool and one of    *)
(* the harness hooks.  Of each we keep what close() and the calls tell     *)
(* apart; Runtime has the details.  A call may come as soon as the host    *)
(* has its hook, from any thread, during registration and after unloading. *)
(*                                                                         *)
(* The host is external: it keeps hooks, calls them, runs the tool when    *)
(* the guard lets it, and remembers what its user approved by rule key.    *)
(***************************************************************************)
EXTENDS Guard

CONSTANTS
  Instances,       \* every register() in a behaviour; an instance is its scope
  Calls,           \* every callback
  Contexts         \* the hosts and settings an instance may meet

Hooks == {"pre_llm", "pre_tool", "final", "system_one"}

\* harness: the host has the reviewed capabilities.  unload: it has on_unload.
\* refused: the hooks it raises at.  preLlm, guard: the settings.
ASSUME PluginAssumption ==
  Contexts \subseteq [harness : BOOLEAN, unload : BOOLEAN, refused : SUBSET Hooks,
                      preLlm : BOOLEAN, guard : BOOLEAN]

VARIABLES
  ctx,
  regPc,           \* register(ctx)
  closePc,         \* close_runtimes: its place, and where it goes afterwards
  hooks,           \* what the host calls
  unload,          \* the unload callback
  runtime,         \* the two runtimes
  callPc, on, hook, call,  \* a callback: its place, instance, hook, tool call
  cold,            \* its runtime was closed before it began
  scored,          \* ghost: what the service's answer amounts to
  verdict,         \* what it told the host
  approved,        \* rule keys the host's user has approved
  consent,         \* ghost: the calls he was shown when he did
  ran              \* ghost: the callbacks whose tool call was run

regVars  == <<ctx, regPc, closePc, hooks, unload>>
callVars == <<callPc, on, hook, call, cold, scored, verdict>>
hostVars == <<approved, consent, ran>>
vars == <<regVars, runtime, callVars, hostVars>>

Kinds == {"tool", "harness"}
KindOf(h) == IF h = "system_one" THEN "tool" ELSE "harness"
NoCall == [own |-> FALSE, args |-> 0, id |-> 0, identified |-> FALSE]
NoVerdict == [action |-> "none", key |-> NoKey]

\* What a service answer amounts to, said without the code's thresholds and
\* selections: nothing unless every check is answered; high or low when the
\* worst score is; else the check that is worst, the first among equals.
Judgement(r) ==
  LET worst == {p \in DOMAIN Checks :
                  \A q \in DOMAIN Checks : r[Checks[q]] <= r[Checks[p]]}
      loudest == Checks[CHOOSE p \in worst : \A q \in worst : p <= q]
  IN IF DOMAIN r # CheckSet THEN "nothing"
     ELSE IF r[loudest] >= High THEN "high"
     ELSE IF r[loudest] < Medium THEN "low" ELSE loudest

\* Which hooks the settings and the host ask for.
Wanted(i) ==
  IF ~ctx[i].harness THEN {}
  ELSE {h \in {"pre_llm"} : ctx[i].preLlm}
         \cup {h \in {"pre_tool", "final"} : ctx[i].guard}

Init ==
  /\ ctx \in [Instances -> Contexts]
  /\ regPc = [i \in Instances |-> "start"]
  /\ closePc = [i \in Instances |-> "idle"]
  /\ hooks = [i \in Instances |-> {}]
  /\ unload = [i \in Instances |-> "none"]
  /\ runtime = [i \in Instances |-> [k \in Kinds |-> "absent"]]
  /\ callPc = [c \in Calls |-> "idle"] /\ on = [c \in Calls |-> "none"]
  /\ hook = [c \in Calls |-> "none"] /\ call = [c \in Calls |-> NoCall]
  /\ cold = [c \in Calls |-> FALSE]
  /\ scored = [c \in Calls |-> "nothing"]
  /\ verdict = [c \in Calls |-> NoVerdict]
  /\ approved = {} /\ consent = {} /\ ran = {}

-----------------------------------------------------------------------------
(* register(ctx).                                                          *)

RegTo(i, pc) == regPc' = [regPc EXCEPT ![i] = pc]

RegisterOver(i) == regPc[i] \in {"done", "raised"}

\* The host reloads one profile: an instance is over before the next begins.
\* Instances of different profiles share nothing here.
Register(i) ==
  /\ regPc[i] = "start" /\ RegTo(i, "pre_llm")
  /\ \A j \in Instances \ {i} :
       \/ regPc[j] = "start"
       \/ RegisterOver(j) /\ unload[j] \notin {"registered", "running"}
  /\ runtime' = [runtime EXCEPT ![i] =
       [k \in Kinds |-> IF k = "tool" \/ Wanted(i) # {} THEN "fresh" ELSE "absent"]]
  /\ UNCHANGED <<ctx, closePc, hooks, unload>>

\* register_hook_checked swallows what the host raises, and register() does
\* not look at what it returns.
RegisterHook(i) ==
  \E step \in {<<"pre_llm", "pre_tool">>, <<"pre_tool", "final">>,
               <<"final", "on_unload">>} :
    /\ regPc[i] = step[1] /\ RegTo(i, step[2])
    /\ hooks' = [hooks EXCEPT ![i] =
                   @ \cup ({step[1]} \cap (Wanted(i) \ ctx[i].refused))]
    /\ UNCHANGED <<ctx, closePc, unload, runtime>>

CloseThen(i, pc) == closePc' = [closePc EXCEPT ![i] = "tool"] /\ RegTo(i, pc)

\* Accepted; or raises; or the host has no such thing.
OnUnload(i) ==
  /\ regPc[i] = "on_unload"
  /\ \/ /\ ctx[i].unload
        /\ unload' = [unload EXCEPT ![i] = "registered"]
        /\ RegTo(i, "tool") /\ UNCHANGED closePc
     \/ /\ ctx[i].unload
        /\ CloseThen(i, "raising") /\ UNCHANGED unload
     \/ /\ ~ctx[i].unload
        /\ CloseThen(i, "tool") /\ UNCHANGED unload
  /\ UNCHANGED <<ctx, hooks, runtime>>

\* The bundled skill and the tool; either may raise.
RegisterTool(i) ==
  /\ regPc[i] = "tool" /\ closePc[i] = "idle"
  /\ \/ /\ hooks' = [hooks EXCEPT ![i] = @ \cup {"system_one"}]
        /\ RegTo(i, "done") /\ UNCHANGED closePc
     \/ CloseThen(i, "raising") /\ UNCHANGED hooks
  /\ UNCHANGED <<ctx, unload, runtime>>

Raise(i) ==
  /\ regPc[i] = "raising" /\ closePc[i] = "idle" /\ RegTo(i, "raised")
  /\ UNCHANGED <<ctx, closePc, hooks, unload, runtime>>

-----------------------------------------------------------------------------
(* close_runtimes and the host's unloading.                                *)

\* The host calls what it was given, once register() is over.  A host that has
\* dropped the hooks by then is one that does not call them any more.
Unload(i) ==
  /\ RegisterOver(i) /\ unload[i] = "registered" /\ closePc[i] = "idle"
  /\ unload' = [unload EXCEPT ![i] = "running"]
  /\ closePc' = [closePc EXCEPT ![i] = "tool"]
  /\ UNCHANGED <<ctx, regPc, hooks, runtime>>

\* On to the loop's next runtime, or back to whoever closes.
Advance(i, k) ==
  IF k = "tool" THEN closePc' = [closePc EXCEPT ![i] = "harness"] /\ UNCHANGED unload
  ELSE /\ closePc' = [closePc EXCEPT ![i] = "idle"]
       /\ unload' = [unload EXCEPT ![i] = IF @ = "running" THEN "over" ELSE @]

\* (mutant) passes over a runtime that has no lease yet.
CloseSetLeased(i) ==
  \E k \in Kinds :
    /\ closePc[i] = k
    /\ IF runtime[i][k] = "leased"
       THEN /\ runtime' = [runtime EXCEPT ![i][k] = "releasing"]
            /\ UNCHANGED <<closePc, unload>>
       ELSE UNCHANGED runtime /\ Advance(i, k)
    /\ UNCHANGED <<ctx, regPc, hooks>>

\* close(): sets _closed and takes the lease, under the runtime's lock ...
CloseSet(i) ==
  \E k \in Kinds :
    /\ closePc[i] = k /\ runtime[i][k] # "releasing"
    /\ IF runtime[i][k] = "leased"
       THEN /\ runtime' = [runtime EXCEPT ![i][k] = "releasing"]
            /\ UNCHANGED <<closePc, unload>>
       ELSE /\ runtime' = [runtime EXCEPT ![i][k] =
                             IF @ = "absent" THEN @ ELSE "closed"]
            /\ Advance(i, k)
    /\ UNCHANGED <<ctx, regPc, hooks>>

\* ... and gives the lease back.
CloseRelease(i) ==
  \E k \in Kinds :
    /\ closePc[i] = k /\ runtime[i][k] = "releasing"
    /\ runtime' = [runtime EXCEPT ![i][k] = "closed"]
    /\ Advance(i, k)
    /\ UNCHANGED <<ctx, regPc, hooks>>

-----------------------------------------------------------------------------
(* The callbacks.                                                          *)

Closed(state) == state \in {"releasing", "closed"}

Answer(c, v) == /\ callPc' = [callPc EXCEPT ![c] = "answered"]
                /\ verdict' = [verdict EXCEPT ![c] = v]

\* What a handler says when anything goes wrong before or in its request.
Unavailable(h) ==
  [NoVerdict EXCEPT !.action =
     CASE h = "pre_tool" -> "block" [] h = "final" -> "marked" [] OTHER -> "none"]

\* The plugin's own tool passes; a call that cannot be screened, another model,
\* another profile, no key or no time left ends at once.
Enter(c) ==
  /\ callPc[c] = "idle"
  /\ \E i \in Instances : \E h \in hooks[i] :
     \E t \in (IF h = "pre_tool" THEN ToolCalls ELSE {NoCall}) :
       /\ on' = [on EXCEPT ![c] = i] /\ hook' = [hook EXCEPT ![c] = h]
       /\ call' = [call EXCEPT ![c] = t]
       /\ cold' = [cold EXCEPT ![c] = Closed(runtime[i][KindOf(h)])]
       /\ \/ h = "pre_tool" /\ t.own /\ Answer(c, [NoVerdict EXCEPT !.action = "pass"])
          \/ ~t.own /\ Answer(c, Unavailable(h))
          \/ /\ h = "pre_tool" => Screenable(t)
             /\ callPc' = [callPc EXCEPT ![c] = "ask"] /\ UNCHANGED verdict
  /\ UNCHANGED scored

\* (mutant) a callback of a closed runtime makes it a new lease.
AskReopens(c) ==
  LET i == on[c]  k == KindOf(hook[c]) IN
  /\ callPc[c] = "ask"
  /\ \/ /\ runtime' = [runtime EXCEPT ![i][k] = "leased"]
        /\ callPc' = [callPc EXCEPT ![c] = "asking"] /\ UNCHANGED verdict
     \/ Answer(c, Unavailable(hook[c])) /\ UNCHANGED runtime
  /\ UNCHANGED <<on, hook, call, cold, scored>>

\* execute_sync takes the lease, or finds none: the runtime is closed, or
\* acquisition fails, for now or for good.
Ask(c) ==
  LET i == on[c]  k == KindOf(hook[c]) IN
  /\ callPc[c] = "ask"
  /\ \/ /\ runtime[i][k] \in {"fresh", "leased"}
        /\ runtime' = [runtime EXCEPT ![i][k] = "leased"]
        /\ callPc' = [callPc EXCEPT ![c] = "asking"] /\ UNCHANGED verdict
     \/ /\ runtime[i][k] # "leased"
        /\ runtime' = [runtime EXCEPT ![i][k] =
                         IF @ = "fresh" THEN "closed" ELSE @]
        /\ Answer(c, Unavailable(hook[c]))
     \/ Answer(c, Unavailable(hook[c])) /\ UNCHANGED runtime
  /\ UNCHANGED <<on, hook, call, cold, scored>>

\* (mutant) a request that fails does not stop the tool.
AskEndOpen(c) ==
  /\ callPc[c] = "asking"
  /\ \/ Answer(c, [NoVerdict EXCEPT !.action = "pass"]) /\ UNCHANGED scored
     \/ \E r \in Results :
          /\ scored' = [scored EXCEPT ![c] = Judgement(r)]
          /\ Answer(c, EvaluateToolArguments(call[c], r, on[c]))
  /\ UNCHANGED <<on, hook, call, cold>>

\* The request fails, or the service answers.  An answer may still arrive when
\* the runtime has been closed meanwhile.
AskEnd(c) ==
  /\ callPc[c] = "asking"
  /\ \/ Answer(c, Unavailable(hook[c])) /\ UNCHANGED scored
     \/ \E r \in Results :
          /\ scored' = [scored EXCEPT ![c] = Judgement(r)]
          /\ Answer(c, CASE hook[c] = "pre_tool" ->
                              EvaluateToolArguments(call[c], r, on[c])
                         [] hook[c] = "final" ->
                              [NoVerdict EXCEPT !.action = FinalText(r)]
                         [] OTHER -> NoVerdict)
  /\ UNCHANGED <<on, hook, call, cold>>

-----------------------------------------------------------------------------
(* The host's part: it runs a tool call the guard passes, and one the guard *)
(* wants approved when its user approves it or has approved that rule key.  *)

Shown(c) == [on |-> on[c], call |-> call[c], check |-> verdict[c].key[2]]

\* A callback leaves nothing behind but what the host remembers.
HostRuns(c) ==
  /\ callPc[c] = "answered"
  /\ callPc' = [callPc EXCEPT ![c] = "done"]
  /\ on' = [on EXCEPT ![c] = "none"] /\ hook' = [hook EXCEPT ![c] = "none"]
  /\ call' = [call EXCEPT ![c] = NoCall] /\ cold' = [cold EXCEPT ![c] = FALSE]
  /\ scored' = [scored EXCEPT ![c] = "nothing"]
  /\ verdict' = [verdict EXCEPT ![c] = NoVerdict]
  /\ \/ /\ hook[c] = "pre_tool"
        /\ \/ verdict[c].action = "pass" /\ UNCHANGED <<approved, consent>>
           \/ verdict[c].action = "approve" /\ verdict[c].key \in approved
              /\ UNCHANGED <<approved, consent>>
           \/ /\ verdict[c].action = "approve"
              /\ approved' = approved \cup {verdict[c].key}
              /\ consent' = consent \cup {Shown(c)}
        /\ ran' = ran \cup {c}
     \/ UNCHANGED hostVars

-----------------------------------------------------------------------------
Next ==
  \/ \E i \in Instances :
       /\ \/ Register(i) \/ RegisterHook(i) \/ OnUnload(i) \/ RegisterTool(i)
          \/ Raise(i) \/ Unload(i) \/ CloseSet(i) \/ CloseRelease(i)
       /\ UNCHANGED <<callVars, hostVars>>
  \/ \E c \in Calls :
       \/ (Enter(c) \/ AskEnd(c)) /\ UNCHANGED <<regVars, runtime, hostVars>>
       \/ Ask(c) /\ UNCHANGED <<regVars, hostVars>>
       \/ HostRuns(c) /\ UNCHANGED <<regVars, runtime>>

Spec == Init /\ [][Next]_vars

-----------------------------------------------------------------------------
(* Properties.                                                             *)

TypeOK ==
  /\ ctx \in [Instances -> Contexts]
  /\ regPc \in [Instances -> {"start", "pre_llm", "pre_tool", "final", "on_unload",
                             "tool", "raising", "done", "raised"}]
  /\ closePc \in [Instances -> Kinds \cup {"idle"}]
  /\ hooks \in [Instances -> SUBSET Hooks]
  /\ unload \in [Instances -> {"none", "registered", "running", "over"}]
  /\ runtime \in [Instances -> [Kinds -> {"absent", "fresh", "leased", "releasing",
                                         "closed"}]]
  /\ callPc \in [Calls -> {"idle", "ask", "asking", "answered", "done"}]
  /\ on \in [Calls -> Instances \cup {"none"}]
  /\ hook \in [Calls -> Hooks \cup {"none"}]
  /\ call \in [Calls -> ToolCalls \cup {NoCall}]
  /\ cold \in [Calls -> BOOLEAN] /\ scored \in [Calls -> {"nothing", "low", "high"} \cup CheckSet]
  /\ DOMAIN verdict = Calls /\ ran \subseteq Calls
  /\ \A c \in Calls : verdict[c].action = "approve" <=> verdict[c].key # NoKey

\* Whatever the host refuses during registration, and whatever its threads call
\* meanwhile: when register() is over, a lease an instance holds is one that an
\* unload callback is there to give back, or that is being given back; and when
\* that callback has returned, or register() has raised, no runtime holds one
\* or can still get one.
LeaseHasUnload ==
  \A i \in Instances :
    RegisterOver(i) => \A k \in Kinds :
      /\ runtime[i][k] \in {"fresh", "leased", "releasing"} =>
           regPc[i] = "done" /\ unload[i] \in {"registered", "running"}
      /\ unload[i] \notin {"registered", "running"} =>
           runtime[i][k] \in {"absent", "closed"}

\* A callback that began after its runtime was closed gets nothing from the
\* service: it blocks the tool call, marks the text, or says nothing.
DeadHooksRefuse ==
  \A c \in Calls :
    cold[c] /\ ~call[c].own =>
      /\ scored[c] = "nothing"
      /\ callPc[c] = "answered" => verdict[c] = Unavailable(hook[c])

\* A foreign tool runs only if every check of its very call was answered, and
\* none severely: no failure, no partial answer, no unload and no race lets it
\* through (docs/DECISIONS.md, "provider/key/broker/deadline failures block").
RunsAreJudged ==
  [][\A c \in ran' \ ran : ~call[c].own =>
       Screenable(call[c]) /\ scored[c] \in {"low"} \cup CheckSet]_vars

\* A tool call some check doubts runs only when the user was shown that check
\* for that call and those arguments by the same plugin instance: no approval
\* carries over to other arguments, another call or a reloaded plugin.
ConsentIsForThisCall ==
  [][\A c \in ran' \ ran : scored[c] \in CheckSet =>
       [on |-> on[c], call |-> call[c], check |-> scored[c]] \in consent']_vars

\* The final screen claims what was scored and no more: a text is unchanged,
\* warned of or replaced only after a complete answer of that severity, and is
\* marked as not verified in every other case.
FinalSaysWhatWasScored ==
  \A c \in Calls :
    hook[c] = "final" /\ callPc[c] = "answered" =>
      verdict[c].action = CASE scored[c] = "nothing" -> "marked"
                            [] scored[c] = "high" -> "replaced"
                            [] scored[c] = "low" -> "unchanged"
                            [] OTHER -> "warned"

-----------------------------------------------------------------------------
(* Each of an instance's runtimes is one of RuntimeLease, as a runtime of  *)
(* Runtime is.                                                             *)

RuntimeLife(i, k) == INSTANCE RuntimeLease WITH life <- runtime[i][k]

\* Registration, unloading and the callbacks use a runtime as Runtime lets them.
UsesRuntimes == \A i \in Instances, k \in Kinds : RuntimeLife(i, k)!Spec
=============================================================================
