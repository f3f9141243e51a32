-------------------------------- MODULE Guard --------------------------------
(***************************************************************************)
(* The pure helpers of guard.py: what a set of scores decides about a tool *)
(* call or a final text, and the rule key that names an approval.          *)
(*                                                                         *)
(* Scores are numbers that keep their order and their place against the    *)
(* two thresholds.  A digest is the tuple it digests.  A service answer is *)
(* a function from the checks it answers properly to their scores, empty   *)
(* when the whole of it is malformed.                                      *)
(***************************************************************************)
EXTENDS Integers, FiniteSets, SequencesExt

CONSTANTS
  Checks,          \* GUARD_CHECKS: a sequence, whose order breaks ties
  MaxScore,
  Medium, High,    \* GUARD_MEDIUM, GUARD_HIGH
  ToolCalls,       \* the tool calls a host makes
  Sensitive,       \* arguments with a sensitive key somewhere inside
  Unencodable      \* arguments too large, too deep or not JSON

NoCheck == "none"
CheckSet == ToSet(Checks)

\* A tool call: of the plugin's own tool or not, its arguments and id, and
\* whether it is identified well enough for a rule key.
ASSUME GuardAssumption ==
  /\ Checks \in Seq(CheckSet) /\ Checks # <<>> /\ IsInjective(Checks)
  /\ CheckSet \cap {NoCheck, "nothing", "low", "high"} = {}
  /\ MaxScore \in Nat /\ Medium \in 1..MaxScore /\ High \in (Medium + 1)..MaxScore
  /\ \A call \in ToolCalls :
       /\ call.own \in BOOLEAN /\ call.identified \in BOOLEAN
       /\ call = [own |-> call.own, args |-> call.args, id |-> call.id,
                  identified |-> call.identified]

Results == UNION {[S -> 0..MaxScore] : S \in SUBSET CheckSet}

-----------------------------------------------------------------------------
\* build_tool_guard_request yields something to send.
Screenable(call) == /\ ~call.own
                    /\ call.args \notin Sensitive \cup Unencodable

\* (mutant) judges by the checks that were answered.
CompletePartly(results) == DOMAIN results # {}

\* _normalise_results: every check answered, nothing less.
Complete(results) == DOMAIN results = CheckSet

\* The highest score from the threshold on, the first check among equals.
Selected(results, minimum) ==
  LET over == {i \in DOMAIN Checks : /\ Checks[i] \in DOMAIN results
                                     /\ results[Checks[i]] >= minimum}
      best == {i \in over : \A j \in over : results[Checks[j]] <= results[Checks[i]]}
  IN IF over = {} THEN NoCheck ELSE Checks[Min(best)]

Classify(results) ==
  LET say(action, check) == [action |-> action, check |-> check]
      high   == Selected(results, High)
      medium == Selected(results, Medium)
  IN CASE ~Complete(results) -> say("unavailable", NoCheck)
       [] Complete(results) /\ high # NoCheck -> say("block", high)
       [] Complete(results) /\ high = NoCheck /\ medium # NoCheck ->
            say("approve", medium)
       [] OTHER -> say("pass", NoCheck)

\* (mutant) the key leaves out the plugin instance.
RuleKeyUnscoped(scope, check, call) == <<0, check, call.id, call.args>>

RuleKey(scope, check, call) == <<scope, check, call.id, call.args>>
NoKey == <<>>

\* (mutant) approves without a key what cannot be identified.
EvaluateUnidentified(call, results, scope) ==
  LET a == Classify(results) IN
  CASE a.action = "pass" -> [action |-> "pass", key |-> NoKey]
    [] a.action = "approve" ->
         [action |-> "approve",
          key |-> IF call.identified THEN RuleKey(scope, a.check, call) ELSE NoKey]
    [] OTHER -> [action |-> "block", key |-> NoKey]

\* evaluate_tool_arguments, and what the handler makes of it: only "approve"
\* and "pass" let the call go on.
EvaluateToolArguments(call, results, scope) ==
  LET a == Classify(results) IN
  CASE a.action = "pass" -> [action |-> "pass", key |-> NoKey]
    [] a.action = "approve" /\ call.identified ->
         [action |-> "approve", key |-> RuleKey(scope, a.check, call)]
    [] OTHER -> [action |-> "block", key |-> NoKey]

\* represent_final_text
FinalText(results) ==
  CASE Classify(results).action = "block" -> "replaced"
    [] Classify(results).action = "approve" -> "warned"
    [] Classify(results).action = "pass" -> "unchanged"
    [] OTHER -> "marked"
=============================================================================
