----------------------------- MODULE PreLlmHook -----------------------------
(***************************************************************************)
(* The combined pre-LLM callback of harness.py: one call of the handler,   *)
(* running while time passes and the host republishes its skills.          *)
(*                                                                         *)
(* Routing goes first, then the suggestion: rank, a second look at the     *)
(* roster, rerank.  Every request is a blocking execute_sync with a        *)
(* timeout; it ends with an answer or an exception by its deadline, which  *)
(* is what Runtime is for.  Time is counted in ticks, the smallest         *)
(* difference between the two budgets.                                     *)
(***************************************************************************)
EXTENDS Routing, Suggestion

CONSTANTS
  Useful,          \* USEFUL_HOOK_SECONDS
  Timeout,         \* HOOK_TIMEOUT_SECONDS
  MaxRpc,          \* MAX_PRE_LLM_RPC
  MaxClock,        \* a bound on the clock
  MaxGen           \* a bound on the host's generations

ASSUME HookAssumption ==
  /\ Useful \in Nat /\ Timeout \in Nat /\ Useful < Timeout
  /\ MaxRpc \in Nat /\ MaxClock \in Nat /\ MaxGen \in Nat
  /\ None \notin RankAnswers \cup RerankAnswers

VARIABLES
  turn,            \* the settings and the arguments of the call
  host,            \* the roster the host publishes
  clock,
  pc, started, calls,
  timeout,         \* the local "remaining"
  due,             \* deadline of the request in flight
  first, latest,   \* the two snapshots, None before they are read
  route, rank, rerank,   \* the three answers, None without one
  switch, context  \* the two parts of the output

outputVars  == <<switch, context>>
answerVars  == <<route, rank, rerank>>
vars == <<turn, host, clock, pc, started, calls, timeout, due, first, latest,
          answerVars, outputVars>>

Turns == [routing : BOOLEAN, mode : Modes, isFirst : BOOLEAN,
          current : Labels \cup {None}, suggesting : BOOLEAN]

\* While the host changes its generations one after the other they disagree,
\* and no roster can be read.
Hosts == [gen : 0..MaxGen, skills : SUBSET Skills, settled : {TRUE}]
           \cup [gen : 0..MaxGen, skills : {{}}, settled : {FALSE}]
Snapshots == [gen : 0..MaxGen, skills : SUBSET Skills]

Init ==
  /\ turn \in Turns
  /\ ~turn.routing => turn.mode = "first_turn" /\ turn.isFirst /\ turn.current = None
  /\ host \in Hosts /\ host.gen = 0
  /\ clock = 0 /\ pc = "enter" /\ started = 0 /\ calls = 0
  /\ timeout = 0 /\ due = 0
  /\ first = None /\ latest = None
  /\ route = None /\ rank = None /\ rerank = None
  /\ switch = None /\ context = NoContext

-----------------------------------------------------------------------------
(* The environment.                                                        *)

InFlight == pc \in {"routing", "ranking", "reranking"}

\* execute_sync never waits past its deadline.
Tick ==
  /\ pc \notin {"enter", "done"} /\ clock < MaxClock
  /\ InFlight => clock < due
  /\ clock' = clock + 1
  /\ UNCHANGED <<turn, host, pc, started, calls, timeout, due, first, latest,
                 answerVars, outputVars>>

\* The roster changes with or without a new generation, in one step or while
\* the profile, registry, roots and quarantine generations still differ.  What
\* it does before the handler first looks makes no difference to Init's choice.
Republish ==
  /\ pc \in {"snapshot", "ranking", "reread", "reranking"}
  /\ host' \in Hosts /\ host'.gen \in {host.gen, host.gen + 1}
  /\ UNCHANGED <<turn, clock, pc, started, calls, timeout, due, first, latest,
                 answerVars, outputVars>>

-----------------------------------------------------------------------------
(* The handler.                                                            *)

\* _deadline_remaining: the smaller of the two budgets' remainders.
Remaining == Min({Timeout - (clock - started), Useful - (clock - started)})

\* host_snapshot_to_verified of what skills_snapshot() returns.
Verified == IF host.settled THEN [gen |-> host.gen, skills |-> host.skills]
                            ELSE None

\* (mutant) compares the generation alone.
MatchGeneration(a, b) == a # None /\ b # None /\ a.gen = b.gen

Match(a, b) == a # None /\ b # None /\ a.gen = b.gen /\ a.skills = b.skills

\* (mutant) counts the request when it is built and when it is sent.
SendTwice(next, wait) ==
  pc' = next /\ calls' = calls + 2 /\ due' = clock + wait

Send(next, wait) ==
  pc' = next /\ calls' = calls + 1 /\ due' = clock + wait

Return == pc' = "done" /\ UNCHANGED <<calls, due>>

\* Settings, profile and key are checked before the clock is read.
Enter ==
  /\ pc = "enter"
  /\ \/ pc' = "done" /\ UNCHANGED started
     \/ /\ turn.routing \/ turn.suggesting
        /\ pc' = "route" /\ started' = clock
  /\ UNCHANGED <<turn, host, clock, calls, timeout, due, first, latest,
                 answerVars, outputVars>>

RouteBegin ==
  /\ pc = "route"
  /\ timeout' = Remaining
  /\ IF /\ turn.routing /\ calls < MaxRpc
        /\ Eligible(turn.mode, turn.isFirst) /\ turn.current # None
        /\ Remaining > 0
     THEN Send("routing", Remaining)
     ELSE pc' = "suggest" /\ UNCHANGED <<calls, due>>
  /\ UNCHANGED <<turn, host, clock, started, first, latest, answerVars, outputVars>>

\* An exception of the request, or of the evaluation, is swallowed.
RouteEnd ==
  /\ pc = "routing"
  /\ pc' = "suggest"
  /\ \/ UNCHANGED <<route, switch>>
     \/ \E a \in Answers :
          /\ route' = a
          /\ switch' = IF SwitchWorthy(a, turn.current, turn.mode, turn.isFirst)
                       THEN Directive(a, turn.isFirst) ELSE switch
  /\ UNCHANGED <<turn, host, clock, started, calls, timeout, due, first, latest,
                 rank, rerank, context>>

\* The routing answer is not read again.
SuggestBegin ==
  /\ pc = "suggest"
  /\ timeout' = Remaining /\ route' = None
  /\ pc' = IF turn.suggesting /\ calls < MaxRpc /\ Remaining > 0
           THEN "snapshot" ELSE "done"
  /\ UNCHANGED <<turn, host, clock, started, calls, due, first, latest,
                 rank, rerank, outputVars>>

\* (mutant) waits for a roster when there is none.
RankWaits ==
  /\ pc = "snapshot"
  /\ first' = Verified
  /\ first' # None /\ first'.skills # {} /\ Send("ranking", timeout)
  /\ UNCHANGED <<turn, host, clock, started, timeout, latest, answerVars, outputVars>>

\* get_snapshot() has taken what time it took; the rank request still gets
\* the timeout of before.  Either call may raise.
Rank ==
  /\ pc = "snapshot"
  /\ first' = Verified
  /\ \/ Return
     \/ first' # None /\ first'.skills # {} /\ Send("ranking", timeout)
  /\ UNCHANGED <<turn, host, clock, started, timeout, latest, answerVars, outputVars>>

\* (mutant) takes a failed rank request for "no skill applies".
RankEndMiss ==
  /\ pc = "ranking"
  /\ \/ pc' = "done" /\ context' = Miss /\ UNCHANGED rank
     \/ \E a \in RankAnswers :
          /\ rank' = a
          /\ context' = RankContext(first.skills, a)
          /\ pc' = IF RankValid(first.skills, a) /\ ~a.gateLow THEN "reread" ELSE "done"
  /\ UNCHANGED <<turn, host, clock, started, calls, timeout, due, first, latest,
                 route, rerank, switch>>

RankEnd ==
  /\ pc = "ranking"
  /\ \/ pc' = "done" /\ UNCHANGED <<rank, context>>
     \/ \E a \in RankAnswers :
          /\ rank' = a
          /\ context' = RankContext(first.skills, a)
          /\ pc' = IF RankValid(first.skills, a) /\ ~a.gateLow THEN "reread" ELSE "done"
  /\ UNCHANGED <<turn, host, clock, started, calls, timeout, due, first, latest,
                 route, rerank, switch>>

\* (mutant) sends the rerank with the timeout of the rank request.
RerankStaleTimeout ==
  /\ pc = "reread"
  /\ latest' = Verified /\ UNCHANGED timeout
  /\ \/ Return
     \/ Match(first, latest') /\ calls < MaxRpc /\ Send("reranking", timeout)
  /\ UNCHANGED <<turn, host, clock, started, first, answerVars, outputVars>>

Rerank ==
  /\ pc = "reread"
  /\ latest' = Verified
  /\ timeout' = Remaining
  /\ \/ Return
     \/ /\ Match(first, latest') /\ Remaining > 0 /\ calls < MaxRpc
        /\ Send("reranking", Remaining)
  /\ UNCHANGED <<turn, host, clock, started, first, answerVars, outputVars>>

RerankEnd ==
  /\ pc = "reranking" /\ pc' = "done"
  /\ \/ UNCHANGED <<rerank, context>>
     \/ \E a \in RerankAnswers :
          /\ rerank' = a
          /\ context' = RerankContext(Shortlist(first.skills, rank), a)
  /\ UNCHANGED <<turn, host, clock, started, calls, timeout, due, first, latest,
                 route, rank, switch>>

-----------------------------------------------------------------------------
Handler == \/ Enter \/ RouteBegin \/ RouteEnd \/ SuggestBegin
           \/ Rank \/ RankEnd \/ Rerank \/ RerankEnd

Next == Handler \/ Tick \/ Republish

Spec == Init /\ [][Next]_vars

\* The host's snapshot call returns and a request ends by its deadline.
FairSpec == Spec /\ WF_vars(Handler)

-----------------------------------------------------------------------------
(* Properties.                                                             *)

TypeOK ==
  /\ turn \in Turns /\ host \in Hosts /\ clock \in 0..MaxClock
  /\ pc \in {"enter", "route", "routing", "suggest", "snapshot", "ranking",
            "reread", "reranking", "done"}
  /\ started \in 0..MaxClock /\ calls \in 0..MaxRpc
  /\ timeout \in Int /\ due \in Nat
  /\ first \in Snapshots \cup {None} /\ latest \in Snapshots \cup {None}
  /\ route \in Answers \cup {None}
  /\ rank \in RankAnswers \cup {None} /\ rerank \in RerankAnswers \cup {None}
  /\ switch \in Directives \cup {None}
  /\ context \in {NoContext, Miss} \cup {Hit(s) : s \in Skills}

\* Skills ranked strictly better than s.
Better(s) == {t \in first.skills : rank.scores[t] > rank.scores[s]}

\* A skill is only suggested when the roster read before the first request is
\* the one read after it, the skill is in it, among the best scored, chosen by
\* the second answer, and fit: the candidate's own fit, at whatever place the
\* shortlist put it (harness.py, suggest.py).
HitRestsOnOneRoster ==
  context.kind = "hit" =>
    LET s == context.skill
        place == 1 + Cardinality({t \in first.skills :
                   \/ rank.scores[t] > rank.scores[s]
                   \/ rank.scores[t] = rank.scores[s] /\ t < s})
    IN /\ first # None /\ latest = first /\ s \in first.skills
       /\ ~rank.gateLow /\ Cardinality(Better(s)) < ShortlistSize
       /\ rerank.choice = s /\ rerank.fits[place]

\* "No skill applies" is only said after an answer that says so: no exception,
\* no malformed answer and no missing roster ends in it.
MissIsEvaluated ==
  context.kind = "miss" =>
    /\ first # None /\ rank # None /\ DOMAIN rank.scores = first.skills
    /\ rank.gateLow \/ (rerank # None /\ latest = first /\ FALSE \in Range(rerank.fits))

\* A directive breaks the host's cache only on a later turn, in the mode that
\* allows it, after mismatch, worth and confidence; and the effort it carries
\* is in the list its target is configured with, which is well formed.
CacheBreakIsEarned ==
  switch # None /\ pc = "suggest" =>
    /\ route.mismatch /\ route.confident
    /\ switch.allowCacheBreak =>
         turn.mode = "cache_break_if_worth_it" /\ ~turn.isFirst /\ route.worth
    /\ switch.effort # None =>
         LET allowed == Models[switch.target].allowed IN
         switch.effort \in Range(allowed) /\ Cardinality(Range(allowed)) = Len(allowed)
    /\ switch.target = turn.current => switch.effort # None

\* The first and the last request end within the useful budget, whatever time
\* the host's snapshot calls between them take.
RequestsEndInTime ==
  pc \in {"routing", "reranking"} => clock - started <= Useful

\* The hook returns to the host, however often the host republishes.
HookReturns == <>(pc = "done")

\* "Every hook has a two-second absolute budget" (README.md), said of the
\* requests: none is given a deadline past it.
AbsoluteBudget == InFlight => due - started <= Timeout
=============================================================================
