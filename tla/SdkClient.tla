------------------------------ MODULE SdkClient ------------------------------
(***************************************************************************)
(* AsyncTypeSafeClient of client.py: the work of one operation, and what   *)
(* it does to the logging of the process while it runs.                    *)
(*                                                                         *)
(* A request silences the SDK's loggers, loads the SDK, waits for the      *)
(* provider, and gives the loggers back; closing its SDK client does the   *)
(* same once more.  The depth counter and the saved settings are globals   *)
(* of the module, of which every profile has loaded its own copy (they are *)
(* plugins of different homes); the loggers belong to the process, whose   *)
(* host may configure them at any time.                                    *)
(***************************************************************************)
EXTENDS Integers, FiniteSets

CONSTANTS
  Copies,          \* the loaded copies of client.py
  Requests,        \* every system_one call
  CopyOf,          \* the copy a request runs in
  Loggers,         \* the names from "typesafe_sdk" on
  Root,            \* "typesafe_sdk"
  MadeByImport,    \* loggers that importing the SDK creates
  Settings,        \* what a host may set: level, handlers, propagate, disabled
  Default,         \* what a new logger has
  Questions,       \* the names a request asks
  Optional         \* optional_choice_questions

Off == "off"
Absent == "absent"   \* in place of a setting: there is no such logger

ASSUME SdkAssumption ==
  /\ CopyOf \in [Requests -> Copies] /\ IsFiniteSet(Requests)
  /\ Root \in Loggers /\ MadeByImport \subseteq Loggers
  /\ Default \in Settings /\ Absent \notin Settings /\ Optional \subseteq Questions

VARIABLES
  setting,         \* the loggers of the process
  imported,        \* sys.modules has the SDK
  depth, saved,    \* _SDK_LOGGING_DEPTH, _SDK_LOGGING_STATES, of each copy
  pc, client,      \* a request, and its SDK client
  outcome,
  wish,            \* ghost: what the host last set, or a logger was made with
  bare,            \* ghost: loggers set or made since they were last silenced
  seen             \* ghost: loggers a request found when it began to silence

logVars   == <<setting, depth, saved>>
ghostVars == <<wish, bare, seen>>
vars == <<logVars, imported, pc, client, outcome, ghostVars>>

None     == [kind |-> "none", names |-> {}]
Failed   == [kind |-> "failed", names |-> {}]
Answered(names) == [kind |-> "answered", names |-> names]

Nothing == [l \in {} |-> Default]

Init ==
  /\ setting \in [Loggers -> {Absent, Default}]
  /\ imported = FALSE
  /\ depth = [m \in Copies |-> 0] /\ saved = [m \in Copies |-> Nothing]
  /\ pc = [r \in Requests |-> "idle"] /\ client = [r \in Requests |-> "none"]
  /\ outcome = [r \in Requests |-> None]
  /\ wish = setting /\ bare = {} /\ seen = [r \in Requests |-> {}]

Present == {l \in Loggers : setting[l] # Absent}

-----------------------------------------------------------------------------
(* The answer.                                                             *)

\* A payload: whether model, usage and shape are as they must be, and for each
\* name it answers, whether the answer is one to that question.
Payloads ==
  [envelope : BOOLEAN,
   answers : UNION {[N -> BOOLEAN] : N \in SUBSET (Questions \cup {"extra"})}]

\* (mutant) drops an answer that is no answer, whatever the question.
NormalizeLenient(raw) ==
  LET names == DOMAIN raw.answers
      good  == {q \in names : raw.answers[q]}
  IN IF /\ raw.envelope /\ names \subseteq Questions
        /\ Questions \ Optional \subseteq names
     THEN Answered(good) ELSE Failed

\* _normalize_response: every core question answered, and properly; an optional
\* answer that is missing or improper is left out.
Normalize(raw) ==
  LET names == DOMAIN raw.answers
      good  == {q \in names : raw.answers[q]}
  IN IF /\ raw.envelope /\ names \subseteq Questions
        /\ Questions \ Optional \subseteq good
     THEN Answered(good) ELSE Failed

-----------------------------------------------------------------------------
(* _suppress_sdk_logging.                                                  *)

\* (mutant) saves what it finds, each time.
SuppressResaves(r) ==
  LET m == CopyOf[r]
      found == Present \cup {Root}
      now(l) == IF setting[l] = Absent THEN Default ELSE setting[l]
  IN
  /\ saved' = [saved EXCEPT ![m] =
       [l \in DOMAIN @ \cup found |-> IF l \in found THEN now(l) ELSE @[l]]]
  /\ setting' = [l \in Loggers |-> IF l \in found THEN Off ELSE setting[l]]
  /\ depth' = [depth EXCEPT ![m] = @ + 1]
  /\ wish' = [wish EXCEPT ![Root] = IF @ = Absent THEN Default ELSE @]
  /\ bare' = bare \ found /\ seen' = [seen EXCEPT ![r] = found]

\* Every logger there is, saved unless it is already, and silenced.
Suppress(r) ==
  LET m == CopyOf[r]
      found == Present \cup {Root}
      now(l) == IF setting[l] = Absent THEN Default ELSE setting[l]
  IN
  /\ saved' = [saved EXCEPT ![m] =
       [l \in DOMAIN @ \cup found |-> IF l \in DOMAIN @ THEN @[l] ELSE now(l)]]
  /\ setting' = [l \in Loggers |-> IF l \in found THEN Off ELSE setting[l]]
  /\ depth' = [depth EXCEPT ![m] = @ + 1]
  /\ wish' = [wish EXCEPT ![Root] = IF @ = Absent THEN Default ELSE @]
  /\ bare' = bare \ found /\ seen' = [seen EXCEPT ![r] = found]

\* (mutant) gives the loggers back when any request leaves.
RestoreEach(r) ==
  LET m == CopyOf[r] IN
  /\ depth' = [depth EXCEPT ![m] = @ - 1]
  /\ setting' = [l \in Loggers |->
                   IF l \in DOMAIN saved[m] THEN saved[m][l] ELSE setting[l]]
  /\ UNCHANGED saved
  /\ UNCHANGED ghostVars

\* The last one to leave gives back what was saved, whatever was set meanwhile.
Restore(r) ==
  LET m == CopyOf[r] IN
  /\ depth' = [depth EXCEPT ![m] = @ - 1]
  /\ IF depth[m] = 1
     THEN /\ setting' = [l \in Loggers |->
                           IF l \in DOMAIN saved[m] THEN saved[m][l] ELSE setting[l]]
          /\ saved' = [saved EXCEPT ![m] = Nothing]
     ELSE UNCHANGED <<setting, saved>>
  /\ UNCHANGED ghostVars

-----------------------------------------------------------------------------
(* system_one.                                                             *)

Goto(r, at) == pc' = [pc EXCEPT ![r] = at]
Say(r, o) == outcome' = [outcome EXCEPT ![r] = o]

\* An invalid request or key is refused before logging is touched.
Begin(r) ==
  /\ pc[r] = "idle"
  /\ \/ Goto(r, "done") /\ Say(r, Failed) /\ UNCHANGED <<logVars, ghostVars>>
     \/ Goto(r, "load") /\ Suppress(r) /\ UNCHANGED outcome
  /\ UNCHANGED <<imported, client>>

\* _load_sdk, the first time an import that makes loggers, and the SDK client;
\* either may fail.
Load(r) ==
  /\ pc[r] = "load"
  /\ \/ UNCHANGED <<setting, imported, wish, bare>>
     \/ /\ ~imported /\ imported' = TRUE
        /\ LET new == MadeByImport \ Present IN
           /\ setting' = [l \in Loggers |-> IF l \in new THEN Default ELSE setting[l]]
           /\ wish' = [l \in Loggers |-> IF l \in new THEN Default ELSE wish[l]]
           /\ bare' = bare \cup new
  /\ \/ /\ imported' /\ client' = [client EXCEPT ![r] = "open"]
        /\ Goto(r, "sending") /\ UNCHANGED outcome
     \/ Goto(r, "leave") /\ Say(r, Failed) /\ UNCHANGED client
  /\ UNCHANGED <<depth, saved, seen>>

\* The provider answers, the request fails, or its task is cancelled.
SendEnds(r) ==
  /\ pc[r] = "sending" /\ Goto(r, "leave")
  /\ \/ \E raw \in Payloads : Say(r, Normalize(raw))
     \/ Say(r, Failed)
  /\ UNCHANGED <<logVars, imported, client, ghostVars>>

\* (mutant) what has failed is left at once.
LeaveOnSuccess(r) ==
  /\ pc[r] = "leave"
  /\ IF outcome[r] = Failed THEN UNCHANGED <<logVars, ghostVars>> ELSE Restore(r)
  /\ Goto(r, IF client[r] = "open" THEN "close" ELSE "done")
  /\ UNCHANGED <<imported, client, outcome>>

\* The end of the with block, by whatever way; the answer is looked at after it.
Leave(r) ==
  /\ pc[r] = "leave" /\ Restore(r)
  /\ Goto(r, IF client[r] = "open" THEN "close" ELSE "done")
  /\ UNCHANGED <<imported, client, outcome>>

\* finally: the SDK client is closed, silently.
Close(r) ==
  /\ pc[r] = "close" /\ Suppress(r) /\ Goto(r, "closing")
  /\ UNCHANGED <<imported, client, outcome>>

\* It is closed, or it raises, or its task is cancelled again.
CloseEnds(r) ==
  /\ pc[r] = "closing" /\ Goto(r, "closed")
  /\ \E c \in {"closed", "lost"} : client' = [client EXCEPT ![r] = c]
  /\ UNCHANGED <<logVars, imported, outcome, ghostVars>>

CloseLeave(r) ==
  /\ pc[r] = "closed" /\ Restore(r) /\ Goto(r, "done")
  /\ UNCHANGED <<imported, client, outcome>>

-----------------------------------------------------------------------------
(* The host configures a logger, or makes one.  What it sets while a copy   *)
(* holds that logger's saved setting does not last, and is no wish.         *)

Held(l) == \E m \in Copies : l \in DOMAIN saved[m]

Configure(l) ==
  \E s \in Settings :
    /\ setting' = [setting EXCEPT ![l] = s]
    /\ wish' = IF Held(l) THEN wish ELSE [wish EXCEPT ![l] = s]
    /\ bare' = bare \cup {l}
    /\ UNCHANGED <<depth, saved, imported, pc, client, outcome, seen>>

-----------------------------------------------------------------------------
Request(r) == \/ Begin(r) \/ Load(r) \/ SendEnds(r) \/ Leave(r)
              \/ Close(r) \/ CloseEnds(r) \/ CloseLeave(r)

\* Requests are coroutines of the broker's one loop: they take turns where they
\* wait, and only there.
Turn(r) == \A q \in Requests \ {r} : pc[q] \in {"idle", "sending", "closing", "done"}

Next == (\E r \in Requests : Turn(r) /\ Request(r)) \/ (\E l \in Loggers : Configure(l))

Spec == Init /\ [][Next]_vars

-----------------------------------------------------------------------------
(* Properties.                                                             *)

InFlight(r) == pc[r] \in {"load", "sending", "leave", "closing", "closed"}

TypeOK ==
  /\ setting \in [Loggers -> Settings \cup {Absent, Off}]
  /\ wish \in [Loggers -> Settings \cup {Absent}]
  /\ imported \in BOOLEAN /\ depth \in [Copies -> 0..Cardinality(Requests)]
  /\ \A m \in Copies : /\ DOMAIN saved[m] \subseteq Loggers
                       /\ \A l \in DOMAIN saved[m] : saved[m][l] \in Settings \cup {Off}
  /\ pc \in [Requests -> {"idle", "load", "sending", "leave", "close", "closing",
                         "closed", "done"}]
  /\ client \in [Requests -> {"none", "open", "closed", "lost"}]
  /\ outcome \in [Requests -> [kind : {"none", "failed", "answered"},
                              names : SUBSET Questions]]
  /\ bare \subseteq Loggers /\ seen \in [Requests -> SUBSET Loggers]

\* However requests overlap, fail and are cancelled, as soon as none is in
\* flight every logger is as the host last set it (client.py:148).
HostSettingsReturn ==
  (\A r \in Requests : ~InFlight(r)) => setting = wish

\* "SDK debug body logging is suppressed" (README.md:154): while a request is
\* in flight, every logger it found is silent, unless the host has set that
\* logger since.
SilentInFlight ==
  \A r \in Requests : InFlight(r) => \A l \in seen[r] \ bare : setting[l] = Off

\* An answer that reaches the runtime answers every core question, and nothing
\* that was not asked (client.py, _normalize_response).
AnswersAreWhole ==
  \A r \in Requests :
    outcome[r].kind = "answered" =>
      Questions \ Optional \subseteq outcome[r].names /\ outcome[r].names \subseteq Questions
=============================================================================
