------------------------------ MODULE Routing ------------------------------
(***************************************************************************)
(* The routing decision of route.py and the pool it is about (pool.py):    *)
(* which configured models make a pool, when a turn may be routed, which   *)
(* answers are refused, which reasoning effort goes with the target, and   *)
(* when a switch is worth a directive.                                     *)
(*                                                                         *)
(* A label stands for its (model, provider) identity, which no two labels  *)
(* of a pool share.  A probability is TRUE when it reaches ROUTING_HIGH.   *)
(***************************************************************************)
EXTENDS FiniteSets, SequencesExt

CONSTANTS
  PoolNames,       \* ROUTING_POOL_NAMES
  Efforts,         \* ROUTING_EFFORT_LEVELS
  Models,          \* the setting routing.models: entries by label
  None

ASSUME RoutingAssumption == None \notin PoolNames \cup Efforts

\* An entry as configured: its identity, None when the model or the provider is
\* not usable; reasoning_allowed, <<>> when it is not a list, with a None where
\* a token is no level; and reasoning_default.
NormalizedEffort(entry) ==
  LET allowed == Range(entry.allowed) IN
  IF /\ allowed \subseteq Efforts /\ entry.default \in allowed
     /\ Cardinality(allowed) = Len(entry.allowed)
  THEN [allowed |-> allowed, default |-> entry.default]
  ELSE [allowed |-> {}, default |-> None]

\* normalize_routing_pool: effort settings that are not well formed are
\* dropped; anything else that is not drops the whole pool.
Pool ==
  LET labels == DOMAIN Models
      sound == /\ labels \subseteq PoolNames
               /\ \A l, m \in labels : /\ Models[l].identity # None
                                       /\ l # m => Models[l].identity # Models[m].identity
  IN [l \in IF sound THEN labels ELSE {} |-> NormalizedEffort(Models[l])]

Labels           == DOMAIN Pool
Allowed          == [l \in Labels |-> Pool[l].allowed]
DefaultEffort(l) == Pool[l].default

Modes == {"first_turn", "cache_break_if_worth_it"}

EffortUnion == UNION {Allowed[l] : l \in Labels}

\* What the provider answers: a target in or out of the pool, and an effort
\* that may be absent (None).
Answers == [target : Labels \cup {None}, mismatch : BOOLEAN, worth : BOOLEAN,
            confident : BOOLEAN, effort : Efforts \cup {None}]

\* (mutant) does not look at the mode.
EligibleAnyMode(mode, first) == TRUE

\* first_turn mode routes the first turn alone.
Eligible(mode, first) == first \/ mode = "cache_break_if_worth_it"

\* An unknown target, or an effort nobody asked for, voids the response.
Valid(a) == a.target \in Labels /\ (a.effort # None => EffortUnion # {})

\* (mutant) passes any effort on.
EffortUnfiltered(a) == IF a.effort # None THEN a.effort
                                          ELSE DefaultEffort(a.target)

\* An effort the target does not allow falls back to the target's default.
Effort(a) == IF a.effort \in Allowed[a.target] THEN a.effort
                                               ELSE DefaultEffort(a.target)

SwitchWorthy(a, current, mode, first) ==
  /\ Valid(a) /\ Eligible(mode, first)
  /\ a.mismatch /\ a.confident
  /\ first \/ a.worth
  /\ a.target # current \/ Effort(a) # None

Directive(a, first) ==
  [target |-> a.target, allowCacheBreak |-> ~first, effort |-> Effort(a)]

Directives == [target : Labels, allowCacheBreak : BOOLEAN,
               effort : Efforts \cup {None}]

=============================================================================
