-------------------------- MODULE PreLlmHookProofs --------------------------
(***************************************************************************)
(* What the combined pre-LLM callback says, and how long its requests take, *)
(* for every pool, roster, budget and clock.                                *)
(***************************************************************************)
EXTENDS PreLlmHook, FiniteSetTheorems, SequenceTheorems, TLAPS

-----------------------------------------------------------------------------
(* What the pure decisions give.                                           *)

LEMMA MinOfTwo ==
  ASSUME NEW a \in Int, NEW b \in Int
  PROVE  Min({a, b}) \in Int /\ Min({a, b}) <= a /\ Min({a, b}) <= b
<1>1. \E x \in {a, b} : \A y \in {a, b} : x <= y
  OBVIOUS
<1>2. Min({a, b}) \in {a, b} /\ \A y \in {a, b} : Min({a, b}) <= y
  BY <1>1 DEF Min
<1> QED BY <1>2

LEMMA PoolIs ==
  ASSUME NEW l \in Labels
  PROVE  Pool[l] = NormalizedEffort(Models[l]) /\ Allowed[l] = Pool[l].allowed
BY DEF Labels, Allowed, Pool

\* An effort that is passed on is one the target is properly configured with.
LEMMA EffortIsAllowed ==
  ASSUME NEW a \in Answers, a.target \in Labels
  PROVE  LET allowed == Models[a.target].allowed IN
         /\ Effort(a) \in Efforts \cup {None}
         /\ Effort(a) # None =>
              /\ Effort(a) \in Range(allowed)
              /\ Cardinality(Range(allowed)) = Len(allowed)
<1> DEFINE e == Models[a.target]
<1>1. Pool[a.target] = NormalizedEffort(e) /\ Allowed[a.target] = Pool[a.target].allowed
  BY PoolIs
<1>2. \/ /\ Range(e.allowed) \subseteq Efforts /\ e.default \in Range(e.allowed)
         /\ Cardinality(Range(e.allowed)) = Len(e.allowed)
         /\ NormalizedEffort(e) = [allowed |-> Range(e.allowed), default |-> e.default]
      \/ NormalizedEffort(e) = [allowed |-> {}, default |-> None]
  BY DEF NormalizedEffort
<1>3. Effort(a) = IF a.effort \in Pool[a.target].allowed THEN a.effort
                                                         ELSE Pool[a.target].default
  BY <1>1 DEF Effort, DefaultEffort
<1> HIDE DEF e
<1>4. /\ Effort(a) \in Efforts \cup {None}
      /\ Effort(a) # None => /\ Effort(a) \in Range(e.allowed)
                             /\ Cardinality(Range(e.allowed)) = Len(e.allowed)
  BY <1>1, <1>2, <1>3
<1> QED BY <1>4 DEF e

\* What a directive rests on.
Earned(d, a) ==
  /\ a.mismatch /\ a.confident
  /\ d.allowCacheBreak =>
       turn.mode = "cache_break_if_worth_it" /\ ~turn.isFirst /\ a.worth
  /\ d.effort # None =>
       LET allowed == Models[d.target].allowed IN
       d.effort \in Range(allowed) /\ Cardinality(Range(allowed)) = Len(allowed)
  /\ d.target = turn.current => d.effort # None

LEMMA DirectiveIsEarned ==
  ASSUME turn \in Turns, NEW a \in Answers,
         SwitchWorthy(a, turn.current, turn.mode, turn.isFirst)
  PROVE  /\ Directive(a, turn.isFirst) \in Directives
         /\ Earned(Directive(a, turn.isFirst), a)
<1> DEFINE d == Directive(a, turn.isFirst)
<1>1. /\ a.target \in Labels /\ a.mismatch /\ a.confident
      /\ turn.isFirst \/ (a.worth /\ turn.mode = "cache_break_if_worth_it")
      /\ a.target = turn.current => Effort(a) # None
  BY DEF SwitchWorthy, Valid, Eligible
<1>2. d = [target |-> a.target, allowCacheBreak |-> ~turn.isFirst, effort |-> Effort(a)]
  BY DEF Directive
<1>3. turn.isFirst \in BOOLEAN
  BY DEF Turns
<1>4. /\ d.target = a.target /\ d.effort = Effort(a)
      /\ d.allowCacheBreak = ~turn.isFirst
  BY <1>2
<1>5. d \in Directives
  BY <1>1, <1>2, <1>3, EffortIsAllowed DEF Directives
<1> HIDE DEF d
<1>6. Earned(d, a)
  BY <1>1, <1>3, <1>4, EffortIsAllowed DEF Earned
<1> QED BY <1>5, <1>6 DEF d

\* The two answers: what is said, and on what.
LEMMA RankSays ==
  ASSUME NEW roster, NEW a \in RankAnswers
  PROVE  /\ RankContext(roster, a) \in {NoContext, Miss}
         /\ RankContext(roster, a) = Miss => RankValid(roster, a) /\ a.gateLow
         /\ RankValid(roster, a) /\ ~a.gateLow => RankContext(roster, a) = NoContext
BY DEF RankContext, NoContext, Miss

LEMMA RerankSays ==
  ASSUME NEW shortlist, NEW a \in RerankAnswers
  PROVE  /\ RerankContext(shortlist, a) \in {NoContext, Miss} \cup {Hit(s) : s \in Skills}
         /\ RerankContext(shortlist, a).kind = "miss" => FALSE \in Range(a.fits)
<1>1. a.choice \in Skills /\ \A i \in DOMAIN a.fits : a.fits[i] \in BOOLEAN
  BY DEF RerankAnswers
<1>2. RerankValid(shortlist, a) /\ ~Fits(shortlist, a) => FALSE \in Range(a.fits)
  <2> SUFFICES ASSUME RerankValid(shortlist, a), ~Fits(shortlist, a)
               PROVE  FALSE \in Range(a.fits)
    OBVIOUS
  <2>1. PICK i \in DOMAIN shortlist : shortlist[i] = a.choice
    BY DEF RerankValid, ToSet
  <2>2. i \in DOMAIN a.fits /\ a.fits[i] = FALSE
    BY <1>1, <2>1 DEF RerankValid, Fits
  <2> QED BY <2>2 DEF Range
<1>3. NoContext.kind = "none" /\ Hit(a.choice).kind = "hit"
  BY DEF NoContext, Hit
<1>4. \/ ~RerankValid(shortlist, a) /\ RerankContext(shortlist, a) = NoContext
      \/ /\ RerankValid(shortlist, a) /\ ~Fits(shortlist, a)
         /\ RerankContext(shortlist, a) = Miss
      \/ RerankContext(shortlist, a) = Hit(a.choice)
  BY DEF RerankContext
<1>5. RerankContext(shortlist, a) \in {NoContext, Miss} \cup {Hit(s) : s \in Skills}
  <2>1. Hit(a.choice) \in {Hit(s) : s \in Skills}
    BY <1>1
  <2> QED BY <1>4, <2>1
<1>6. RerankContext(shortlist, a).kind = "miss" => FALSE \in Range(a.fits)
  <2> HIDE DEF Miss
  <2> QED BY <1>2, <1>3, <1>4
<1> QED BY <1>5, <1>6

-----------------------------------------------------------------------------
(* The place of a skill in the shortlist.                                  *)

Scored(roster, ranking) ==
  /\ roster \subseteq Nat /\ IsFiniteSet(roster)
  /\ \A s \in roster : ranking.scores[s] \in Int

Ahead(roster, ranking, s) == {t \in roster : Before(ranking, t, s)}

PlaceOf(roster, ranking, s) == 1 + Cardinality(Ahead(roster, ranking, s))

LEMMA BeforeIsOrder ==
  ASSUME NEW roster, NEW ranking, Scored(roster, ranking),
         NEW s \in roster, NEW t \in roster, NEW u \in roster
  PROVE  /\ ~Before(ranking, s, s)
         /\ Before(ranking, s, t) => ~Before(ranking, t, s)
         /\ Before(ranking, s, t) /\ Before(ranking, t, u) => Before(ranking, s, u)
         /\ s # t => Before(ranking, s, t) \/ Before(ranking, t, s)
<1> DEFINE a == ranking.scores[s]
           b == ranking.scores[t]
           c == ranking.scores[u]
<1>1. /\ a \in Int /\ b \in Int /\ c \in Int
      /\ s \in Nat /\ t \in Nat /\ u \in Nat
  BY DEF Scored
<1>2. /\ Before(ranking, s, s) <=> (a > a \/ (a = a /\ s < s))
      /\ Before(ranking, s, t) <=> (a > b \/ (a = b /\ s < t))
      /\ Before(ranking, t, s) <=> (b > a \/ (b = a /\ t < s))
      /\ Before(ranking, t, u) <=> (b > c \/ (b = c /\ t < u))
      /\ Before(ranking, s, u) <=> (a > c \/ (a = c /\ s < u))
  BY DEF Before
<1> HIDE DEF a, b, c
<1> QED BY <1>1, <1>2

LEMMA AheadIsFinite ==
  ASSUME NEW roster, NEW ranking, Scored(roster, ranking), NEW s \in roster
  PROVE  /\ IsFiniteSet(Ahead(roster, ranking, s)) /\ Cardinality(Ahead(roster, ranking, s)) \in Nat
         /\ PlaceOf(roster, ranking, s) \in 1..Cardinality(roster)
<1> DEFINE A == Ahead(roster, ranking, s)
<1>1. IsFiniteSet(roster \ {s}) /\ Cardinality(roster \ {s}) = Cardinality(roster) - 1
      /\ Cardinality(roster) \in Nat
  BY FS_RemoveElement, FS_CardinalityType DEF Scored
<1>2. A \in SUBSET (roster \ {s})
  BY BeforeIsOrder DEF Ahead
<1> HIDE DEF A
<1>3. IsFiniteSet(A) /\ Cardinality(A) <= Cardinality(roster \ {s}) /\ Cardinality(A) \in Nat
  BY <1>1, <1>2, FS_Subset, FS_CardinalityType
<1> QED BY <1>1, <1>3 DEF PlaceOf, A

LEMMA PlacesDiffer ==
  ASSUME NEW roster, NEW ranking, Scored(roster, ranking), NEW s \in roster, NEW t \in roster
  PROVE  Before(ranking, s, t) => PlaceOf(roster, ranking, s) < PlaceOf(roster, ranking, t)
<1> SUFFICES ASSUME Before(ranking, s, t)
             PROVE  PlaceOf(roster, ranking, s) < PlaceOf(roster, ranking, t)
  OBVIOUS
<1> DEFINE A == Ahead(roster, ranking, s)
           B == Ahead(roster, ranking, t)
<1>1. A \in SUBSET B /\ s \in B /\ s \notin A
  BY BeforeIsOrder DEF Ahead
<1>2. IsFiniteSet(B) /\ Cardinality(A) \in Nat /\ Cardinality(B) \in Nat
  BY AheadIsFinite
<1> HIDE DEF A, B
<1>3. Cardinality(A) <= Cardinality(B) /\ Cardinality(A) # Cardinality(B)
  BY <1>1, <1>2, FS_Subset
<1>4. PlaceOf(roster, ranking, s) = 1 + Cardinality(A) /\ PlaceOf(roster, ranking, t) = 1 + Cardinality(B)
  BY DEF PlaceOf, A, B
<1> QED BY <1>2, <1>3, <1>4

\* The places of a roster's skills are 1 to its size, so it can be put in order.
LEMMA OrderExists ==
  ASSUME NEW roster, NEW ranking, Scored(roster, ranking)
  PROVE  \E order \in [1..Cardinality(roster) -> roster] : IsOrdered(order, ranking)
<1> DEFINE n == Cardinality(roster)
           f == [s \in roster |-> PlaceOf(roster, ranking, s)]
<1>1. n \in Nat /\ IsFiniteSet(1..n) /\ Cardinality(1..n) = n
  <2>1. n \in Nat
    BY FS_CardinalityType DEF Scored
  <2> HIDE DEF n
  <2> QED BY <2>1, FS_Interval
<1>2. f \in [roster -> 1..n]
  BY AheadIsFinite
<1>3. \A s, t \in roster : f[s] = f[t] => s = t
  <2> SUFFICES ASSUME NEW s \in roster, NEW t \in roster, s # t PROVE f[s] # f[t]
    OBVIOUS
  <2>1. Before(ranking, s, t) \/ Before(ranking, t, s)
    BY BeforeIsOrder
  <2>2. f[s] < f[t] \/ f[t] < f[s]
    BY <2>1, PlacesDiffer
  <2>3. f[s] \in Nat /\ f[t] \in Nat
    BY <1>1, <1>2
  <2> HIDE DEF f
  <2> QED BY <2>2, <2>3
<1>4. \A i \in 1..n : \E s \in roster : f[s] = i
  <2>1. f \in Injection(roster, 1..n)
    <3> HIDE DEF f, n
    <3> QED BY <1>2, <1>3 DEF Injection, IsInjective
  <2>2. f \in Surjection(roster, 1..n)
    <3> HIDE DEF f
    <3> QED BY <1>1, <2>1, FS_Injection DEF n
  <2> HIDE DEF f, n
  <2> QED BY <2>2 DEF Surjection
<1> DEFINE order == [i \in 1..n |-> CHOOSE s \in roster : f[s] = i]
<1>5. \A i \in 1..n : order[i] \in roster /\ f[order[i]] = i
  BY <1>4
<1>6. order \in [1..n -> roster] /\ DOMAIN order = 1..n
  BY <1>5
<1>7. ASSUME NEW i \in 1..n, NEW j \in 1..n, i < j
      PROVE  Before(ranking, order[i], order[j])
  <2> DEFINE s == order[i]
             t == order[j]
  <2>1. s \in roster /\ t \in roster /\ f[s] = i /\ f[t] = j
    BY <1>5
  <2> HIDE DEF order, s, t
  <2>2. s # t /\ ~(f[t] < f[s])
    BY <1>1, <1>7, <2>1
  <2>3. ~Before(ranking, t, s)
    BY <2>1, <2>2, PlacesDiffer
  <2>4. Before(ranking, s, t)
    BY <2>1, <2>2, <2>3, BeforeIsOrder
  <2> QED BY <2>4 DEF s, t
<1> HIDE DEF order
<1> QED BY <1>6, <1>7 DEF IsOrdered

\* Whatever order of the roster is taken, a skill stands at its place.
LEMMA OrderedByPlace ==
  ASSUME NEW roster, NEW ranking, Scored(roster, ranking),
         NEW order \in [1..Cardinality(roster) -> roster], IsOrdered(order, ranking),
         NEW i \in 1..Cardinality(roster)
  PROVE  PlaceOf(roster, ranking, order[i]) = i
<1> DEFINE n == Cardinality(roster)
           A == Ahead(roster, ranking, order[i])
           f == [k \in 1..(i - 1) |-> order[k]]
<1>1. n \in Nat /\ IsFiniteSet(1..n) /\ Cardinality(1..n) = n
  <2>1. n \in Nat
    BY FS_CardinalityType DEF Scored
  <2> HIDE DEF n
  <2> QED BY <2>1, FS_Interval
<1>2. \A j, k \in 1..n : j < k => Before(ranking, order[j], order[k])
  BY DEF IsOrdered
<1>3. \A j \in 1..n : order[j] \in roster
  OBVIOUS
<1>4. \A j, k \in 1..n : order[j] = order[k] => j = k
  <2> SUFFICES ASSUME NEW j \in 1..n, NEW k \in 1..n, j < k, order[j] = order[k] PROVE FALSE
    BY <1>1
  <2> QED BY <1>2, <1>3, BeforeIsOrder
<1>5. order \in Surjection(1..n, roster)
  <2>1. order \in Injection(1..n, roster)
    BY <1>4 DEF Injection, IsInjective
  <2> QED BY <1>1, <2>1, FS_Injection DEF Scored
<1>6. \A t \in roster : \E j \in 1..n : order[j] = t
  BY <1>5 DEF Surjection
<1>7. ASSUME NEW t \in A PROVE \E k \in 1..(i - 1) : order[k] = t
  <2>1. t \in roster /\ Before(ranking, t, order[i])
    BY <1>7 DEF Ahead
  <2>2. PICK j \in 1..n : order[j] = t
    BY <1>6, <2>1
  <2>3. j # i /\ ~(i < j)
    BY <1>2, <1>3, <2>1, <2>2, BeforeIsOrder
  <2>4. j \in 1..(i - 1)
    BY <1>1, <2>2, <2>3
  <2> QED BY <2>2, <2>4
<1>8. \A k \in 1..(i - 1) : k \in 1..n /\ k < i /\ order[k] \in A
  BY <1>1, <1>2, <1>3 DEF Ahead
<1>9. f \in Bijection(1..(i - 1), A)
  <2>1. f \in [1..(i - 1) -> A]
    BY <1>8
  <2>2. \A j, k \in 1..(i - 1) : f[j] = f[k] => j = k
    BY <1>4, <1>8
  <2>3. \A t \in A : \E k \in 1..(i - 1) : f[k] = t
    BY <1>7
  <2> HIDE DEF f, A
  <2> QED BY <2>1, <2>2, <2>3 DEF Bijection, Injection, Surjection, IsInjective
<1>10. Cardinality(A) = i - 1
  <2>1. IsFiniteSet(1..(i - 1)) /\ Cardinality(1..(i - 1)) = i - 1
    <3>1. i - 1 \in Nat /\ 1 \in Int /\ i - 1 \in Int
      BY <1>1
    <3> DEFINE k == i - 1
    <3>2. IsFiniteSet(1..k) /\ Cardinality(1..k) = IF 1 > k THEN 0 ELSE k - 1 + 1
      BY <3>1, FS_Interval
    <3> HIDE DEF k
    <3>3. Cardinality(1..k) = k
      BY <3>1, <3>2 DEF k
    <3> QED BY <3>2, <3>3 DEF k
  <2>2. ExistsBijection(1..(i - 1), A)
    BY <1>9 DEF ExistsBijection
  <2> HIDE DEF A
  <2> QED BY <2>1, <2>2, FS_Bijection
<1> HIDE DEF A
<1> QED BY <1>1, <1>10 DEF PlaceOf, A

LEMMA ShortlistPlaces ==
  ASSUME NEW roster, NEW ranking, Scored(roster, ranking), ShortlistSize \in Nat
  PROVE  \A i \in DOMAIN Shortlist(roster, ranking) :
           /\ i <= ShortlistSize
           /\ Shortlist(roster, ranking)[i] \in roster
           /\ PlaceOf(roster, ranking, Shortlist(roster, ranking)[i]) = i
<1> DEFINE n == Cardinality(roster)
           order == CHOOSE o \in [1..n -> roster] : IsOrdered(o, ranking)
           m == Min({ShortlistSize, n})
<1>1. n \in Nat
  BY FS_CardinalityType DEF Scored
<1>2. order \in [1..n -> roster] /\ IsOrdered(order, ranking)
  BY OrderExists
<1>3. Shortlist(roster, ranking) = SubSeq(order, 1, m)
  BY DEF Shortlist
<1>4. m \in Nat /\ m <= ShortlistSize /\ m <= n
  <2>1. \A k \in {ShortlistSize, n} : k \in Nat
    BY <1>1
  <2>2. m \in {ShortlistSize, n}
    <3>1. \E x \in {ShortlistSize, n} : \A y \in {ShortlistSize, n} : x <= y
      BY <1>1
    <3> QED BY <3>1 DEF Min
  <2> QED BY <1>1, <2>1, <2>2, MinOfTwo
<1> HIDE DEF order, m
<1>5. order \in Seq(roster) /\ Len(order) = n
  <2>1. order \in Seq(roster)
    BY <1>1, <1>2, SeqDef
  <2> QED BY <1>1, <1>2, <2>1
<1>6. DOMAIN SubSeq(order, 1, m) = 1..m
      /\ \A i \in 1..m : SubSeq(order, 1, m)[i] = order[i]
  BY <1>1, <1>4, <1>5
<1>7. \A i \in 1..m : i \in 1..n /\ i <= ShortlistSize
  BY <1>1, <1>4
<1>8. ASSUME NEW i \in 1..m
      PROVE  /\ i <= ShortlistSize /\ SubSeq(order, 1, m)[i] \in roster
             /\ PlaceOf(roster, ranking, SubSeq(order, 1, m)[i]) = i
  <2>1. i \in 1..n /\ i <= ShortlistSize /\ SubSeq(order, 1, m)[i] = order[i]
    BY <1>6, <1>7
  <2>2. order[i] \in roster
    BY <1>2, <2>1
  <2> QED BY <1>2, <2>1, <2>2, OrderedByPlace
<1> QED BY <1>3, <1>6, <1>8

-----------------------------------------------------------------------------
(* The inductive invariant.                                                *)

\* The clock, and the requests whose timeout is what remains.
Timed ==
  /\ started <= clock
  /\ pc \in {"routing", "reranking"} => clock <= due /\ due - started <= Useful
  /\ pc = "snapshot" => timeout > 0 /\ calls < MaxRpc

\* Nothing is said before the answer it needs.
Silent ==
  /\ pc \in {"enter", "route", "routing"} => switch = None
  /\ pc # "done" => context = NoContext

\* What the second request is about.
OneRoster ==
  /\ pc \in {"ranking", "reread", "reranking"} => first # None
  /\ pc \in {"reread", "reranking"} =>
       rank # None /\ RankValid(first.skills, rank) /\ ~rank.gateLow
  /\ pc = "reranking" => latest = first

Says == switch # None /\ pc = "suggest" => Earned(switch, route)

IInv == TypeOK /\ Timed /\ Silent /\ OneRoster /\ Says /\ MissIsEvaluated

LEMMA InitIInv == Init => IInv
<1> SUFFICES ASSUME Init PROVE IInv
  OBVIOUS
<1>1. TypeOK
  BY HookAssumption DEF Init, TypeOK
<1> QED BY <1>1 DEF Init, IInv, Timed, Silent, OneRoster, Says, MissIsEvaluated, NoContext

LEMMA RemainingIs ==
  ASSUME TypeOK
  PROVE  Remaining \in Int /\ Remaining <= Useful - (clock - started)
<1> DEFINE a == Timeout - (clock - started)
           b == Useful - (clock - started)
<1>1. a \in Int /\ b \in Int
  BY HookAssumption DEF TypeOK
<1>2. Remaining = Min({a, b})
  BY DEF Remaining
<1> HIDE DEF a, b
<1>3. Remaining \in Int /\ Remaining <= b
  BY <1>1, <1>2, MinOfTwo
<1> QED BY <1>3 DEF b

LEMMA VerifiedIs ==
  ASSUME TypeOK PROVE Verified \in Snapshots \cup {None}
BY DEF TypeOK, Verified, Hosts, Snapshots

\* The environment's steps: time and the host's roster.
LEMMA EnvironmentSteps ==
  ASSUME IInv, Tick \/ Republish PROVE IInv'
<1>1. CASE Tick
  <2>1. TypeOK'
    <3>1. clock' \in 0..MaxClock
      BY <1>1, HookAssumption DEF Tick, IInv, TypeOK
    <3> QED BY <1>1, <3>1 DEF Tick, IInv, TypeOK, answerVars, outputVars
  <2>2. Timed'
    BY <1>1 DEF Tick, IInv, TypeOK, Timed, InFlight
  <2> QED BY <1>1, <2>1, <2>2
      DEF Tick, IInv, Silent, OneRoster, Says, Earned, MissIsEvaluated, answerVars, outputVars
<1>2. CASE Republish
  <2>1. TypeOK'
    BY <1>2 DEF Republish, IInv, TypeOK, answerVars, outputVars
  <2> QED BY <1>2, <2>1
      DEF Republish, IInv, Timed, Silent, OneRoster, Says, Earned, MissIsEvaluated,
          answerVars, outputVars
<1> QED BY <1>1, <1>2

\* Up to the suggestion.
LEMMA RouteSteps ==
  ASSUME IInv, Enter \/ RouteBegin \/ RouteEnd \/ SuggestBegin PROVE IInv'
<1> USE DEF answerVars, outputVars
<1>0. Remaining \in Int /\ Remaining <= Useful - (clock - started)
  BY RemainingIs DEF IInv
<1>1. CASE Enter
  <2>1. TypeOK' /\ Timed'
    BY <1>1 DEF Enter, IInv, TypeOK, Timed
  <2> QED BY <1>1, <2>1 DEF Enter, IInv, Silent, OneRoster, Says, MissIsEvaluated, NoContext
<1>2. CASE RouteBegin
  <2>1. TypeOK' /\ Timed'
    BY <1>0, <1>2, HookAssumption DEF RouteBegin, Send, IInv, TypeOK, Timed
  <2> QED BY <1>2, <2>1
      DEF RouteBegin, Send, IInv, Silent, OneRoster, Says, MissIsEvaluated, NoContext
<1>3. CASE RouteEnd
  <2>0. \/ UNCHANGED <<route, switch>>
        \/ \E a \in Answers :
             /\ route' = a
             /\ \/ UNCHANGED switch
                \/ /\ SwitchWorthy(a, turn.current, turn.mode, turn.isFirst)
                   /\ switch' = Directive(a, turn.isFirst)
    BY <1>3 DEF RouteEnd
  <2>1. TypeOK'
    BY <1>3, <2>0, DirectiveIsEarned DEF RouteEnd, IInv, TypeOK
  <2>2. Says'
    <3>1. switch = None /\ turn \in Turns /\ UNCHANGED turn
      BY <1>3 DEF RouteEnd, IInv, Silent, TypeOK
    <3>2. ASSUME switch' # None PROVE Earned(switch', route')
      BY <2>0, <3>1, <3>2, DirectiveIsEarned
    <3> QED BY <3>1, <3>2 DEF Says, Earned
  <2> QED BY <1>3, <2>1, <2>2
      DEF RouteEnd, IInv, Timed, Silent, OneRoster, MissIsEvaluated, NoContext
<1>4. CASE SuggestBegin
  <2>1. TypeOK' /\ Timed'
    BY <1>0, <1>4 DEF SuggestBegin, IInv, TypeOK, Timed
  <2> QED BY <1>4, <2>1
      DEF SuggestBegin, IInv, Silent, OneRoster, Says, MissIsEvaluated, NoContext
<1> QED BY <1>1, <1>2, <1>3, <1>4

\* The suggestion.
LEMMA SuggestSteps ==
  ASSUME IInv, Rank \/ RankEnd \/ Rerank \/ RerankEnd PROVE IInv'
<1> USE DEF answerVars, outputVars
<1>0. /\ Remaining \in Int /\ Remaining <= Useful - (clock - started)
      /\ Verified \in Snapshots \cup {None}
  BY RemainingIs, VerifiedIs DEF IInv
<1>1. CASE Rank
  <2>1. TypeOK' /\ Timed'
    BY <1>0, <1>1, HookAssumption DEF Rank, Send, Return, IInv, TypeOK, Timed
  <2>2. Silent' /\ MissIsEvaluated'
    <3>1. /\ context = NoContext /\ UNCHANGED <<context, switch>>
          /\ pc' \in {"ranking", "reranking", "done"}
      BY <1>1 DEF Rank, Send, Return, IInv, Silent
    <3>2. context'.kind # "miss"
      BY <3>1 DEF NoContext
    <3> QED BY <3>1, <3>2 DEF Silent, MissIsEvaluated
  <2>3. OneRoster' /\ Says'
    BY <1>1 DEF Rank, Send, Return, IInv, OneRoster, Says
  <2> QED BY <2>1, <2>2, <2>3 DEF IInv
<1>2. CASE RankEnd
  <2>0. \/ pc' = "done" /\ UNCHANGED <<rank, context>>
        \/ \E a \in RankAnswers :
             /\ rank' = a /\ context' = RankContext(first.skills, a)
             /\ pc' \in {"reread", "done"}
             /\ pc' = "reread" => RankValid(first.skills, a) /\ ~a.gateLow
    BY <1>2 DEF RankEnd
  <2>1. context = NoContext /\ first # None /\ pc = "ranking"
    BY <1>2 DEF RankEnd, IInv, Silent, OneRoster
  <2>2. CASE pc' = "done" /\ UNCHANGED <<rank, context>>
    BY <1>2, <2>1, <2>2
    DEF RankEnd, IInv, TypeOK, Timed, Silent, OneRoster, Says, MissIsEvaluated, NoContext
  <2>3. ASSUME NEW a \in RankAnswers,
               rank' = a, context' = RankContext(first.skills, a),
               pc' \in {"reread", "done"},
               pc' = "reread" => RankValid(first.skills, a) /\ ~a.gateLow
        PROVE  IInv'
    <3>1. TypeOK'
      BY <1>2, <2>3, RankSays DEF RankEnd, IInv, TypeOK
    <3>2. Silent' /\ OneRoster' /\ Timed' /\ Says'
      BY <1>2, <2>1, <2>3, RankSays, HookAssumption
      DEF RankEnd, IInv, Timed, Silent, OneRoster, Says
    <3>3. MissIsEvaluated'
      <4> SUFFICES ASSUME context'.kind = "miss"
                   PROVE  first # None /\ a # None /\ DOMAIN a.scores = first.skills
                          /\ a.gateLow
        BY <1>2, <2>3 DEF RankEnd, MissIsEvaluated
      <4>1. context' = Miss
        BY <2>3, RankSays DEF NoContext
      <4> QED BY <2>1, <2>3, <4>1, RankSays, HookAssumption DEF RankValid
    <3> QED BY <3>1, <3>2, <3>3 DEF IInv
  <2> QED BY <2>0, <2>2, <2>3
<1>3. CASE Rerank
  <2>1. TypeOK' /\ Timed'
    BY <1>0, <1>3, HookAssumption DEF Rerank, Send, Return, IInv, TypeOK, Timed
  <2>2. OneRoster'
    <3>1. Match(first, latest') => latest' = first
      BY <1>0, <1>3 DEF Match, Rerank, IInv, TypeOK, Snapshots
    <3> QED BY <1>3, <3>1 DEF Rerank, Send, Return, IInv, OneRoster
  <2>3. Silent' /\ MissIsEvaluated'
    <3>1. /\ context = NoContext /\ UNCHANGED <<context, switch>>
          /\ pc' \in {"ranking", "reranking", "done"}
      BY <1>3 DEF Rerank, Send, Return, IInv, Silent
    <3>2. context'.kind # "miss"
      BY <3>1 DEF NoContext
    <3> QED BY <3>1, <3>2 DEF Silent, MissIsEvaluated
  <2>4. Says'
    BY <1>3 DEF Rerank, Send, Return, Says
  <2> QED BY <2>1, <2>2, <2>3, <2>4 DEF IInv
<1>4. CASE RerankEnd
  <2>1. /\ context = NoContext /\ first # None /\ latest = first
        /\ rank # None /\ RankValid(first.skills, rank) /\ pc = "reranking" /\ pc' = "done"
    BY <1>4 DEF RerankEnd, IInv, Silent, OneRoster
  <2>2. CASE UNCHANGED <<rerank, context>>
    BY <1>4, <2>1, <2>2
    DEF RerankEnd, IInv, TypeOK, Timed, Silent, OneRoster, Says, MissIsEvaluated, NoContext
  <2>3. ASSUME NEW a \in RerankAnswers, rerank' = a,
               context' = RerankContext(Shortlist(first.skills, rank), a)
        PROVE  IInv'
    <3>1. TypeOK'
      BY <1>4, <2>3, RerankSays DEF RerankEnd, IInv, TypeOK
    <3>2. Silent' /\ OneRoster' /\ Timed' /\ Says'
      BY <1>4, <2>1 DEF RerankEnd, IInv, Timed, Silent, OneRoster, Says
    <3>3. MissIsEvaluated'
      <4> SUFFICES ASSUME context'.kind = "miss"
                   PROVE  FALSE \in Range(a.fits)
        BY <1>4, <2>1, <2>3, HookAssumption DEF RerankEnd, MissIsEvaluated, RankValid
      <4> QED BY <2>3, RerankSays
    <3> QED BY <3>1, <3>2, <3>3 DEF IInv
  <2> QED BY <1>4, <2>2, <2>3 DEF RerankEnd
<1> QED BY <1>1, <1>2, <1>3, <1>4

-----------------------------------------------------------------------------
(* The theorems.                                                           *)

\* The handler's steps, the clock and the host keep the invariant
\* (harness.py, the combined pre-LLM callback).
THEOREM Inductive == IInv /\ [Next]_vars => IInv'
<1> SUFFICES ASSUME IInv, [Next]_vars PROVE IInv'
  OBVIOUS
<1>1. CASE UNCHANGED vars
  <2> USE <1>1 DEF vars, answerVars, outputVars, IInv
  <2>1. TypeOK'
    BY DEF TypeOK
  <2>2. Timed' /\ Silent' /\ OneRoster' /\ MissIsEvaluated'
    BY DEF Timed, Silent, OneRoster, MissIsEvaluated
  <2>3. Says'
    BY DEF Says, Earned
  <2> QED BY <2>1, <2>2, <2>3
<1> QED BY <1>1, EnvironmentSteps, RouteSteps, SuggestSteps DEF Next, Handler

\* A skill is suggested by the second answer alone, from the shortlist of the
\* roster that was there before and after the first.
LEMMA HitSteps ==
  ASSUME IInv, RerankEnd PROVE HitRestsOnOneRoster'
<1> SUFFICES ASSUME context'.kind = "hit" PROVE HitRestsOnOneRoster'
  BY DEF HitRestsOnOneRoster
<1>1. /\ context = NoContext /\ first # None /\ latest = first /\ rank # None
      /\ RankValid(first.skills, rank) /\ ~rank.gateLow
      /\ UNCHANGED <<first, latest, rank>>
  BY DEF RerankEnd, IInv, Silent, OneRoster
<1> DEFINE roster == first.skills
           shortlist == Shortlist(roster, rank)
<1>2. PICK a \in RerankAnswers : rerank' = a /\ context' = RerankContext(shortlist, a)
  BY <1>1 DEF RerankEnd, NoContext
<1>3. Scored(roster, rank)
  <2>1. first \in Snapshots /\ rank \in RankAnswers
    BY <1>1 DEF IInv, TypeOK
  <2>2. roster \in SUBSET Skills /\ IsFiniteSet(roster)
    BY <2>1, SuggestionAssumption, FS_Subset DEF Snapshots
  <2>3. \A s \in DOMAIN rank.scores : rank.scores[s] \in Int
    <3>1. PICK T \in SUBSET Skills : rank.scores \in [T -> 0..MaxScore]
      BY <2>1 DEF RankAnswers
    <3>2. 0..MaxScore \subseteq Int
      BY SuggestionAssumption
    <3> QED BY <3>1, <3>2
  <2> QED BY <1>1, <2>2, <2>3, SuggestionAssumption DEF Scored, RankValid
<1>4. /\ RerankValid(shortlist, a) /\ Fits(shortlist, a)
      /\ context' = Hit(a.choice)
  BY <1>2 DEF RerankContext, NoContext, Miss
<1>5. PICK i \in DOMAIN shortlist : shortlist[i] = a.choice /\ a.fits[i]
  BY <1>4 DEF Fits
<1> DEFINE s == a.choice
<1>6. /\ i \in Nat /\ i <= ShortlistSize
      /\ s \in roster /\ PlaceOf(roster, rank, s) = i
  <2>1. i <= ShortlistSize /\ s \in roster /\ PlaceOf(roster, rank, s) = i
    BY <1>3, <1>5, ShortlistPlaces, SuggestionAssumption
  <2>2. PlaceOf(roster, rank, s) \in 1..Cardinality(roster)
    BY <1>3, <2>1, AheadIsFinite
  <2>3. Cardinality(roster) \in Nat
    BY <1>3, FS_CardinalityType DEF Scored
  <2> HIDE DEF s, roster, shortlist
  <2> QED BY <2>1, <2>2, <2>3
<1>7. Cardinality({t \in roster : rank.scores[t] > rank.scores[s]}) < ShortlistSize
  <2> DEFINE better == {t \in roster : rank.scores[t] > rank.scores[s]}
  <2>1. better \in SUBSET Ahead(roster, rank, s)
    BY DEF Ahead, Before
  <2>2. /\ IsFiniteSet(Ahead(roster, rank, s))
        /\ Cardinality(Ahead(roster, rank, s)) \in Nat
        /\ 1 + Cardinality(Ahead(roster, rank, s)) = i
    BY <1>3, <1>6, AheadIsFinite DEF PlaceOf
  <2> HIDE DEF better
  <2>3. /\ Cardinality(better) <= Cardinality(Ahead(roster, rank, s))
        /\ Cardinality(better) \in Nat
    BY <2>1, <2>2, FS_Subset, FS_CardinalityType
  <2>4. Cardinality(better) < ShortlistSize
    BY <1>6, <2>2, <2>3, SuggestionAssumption
  <2> QED BY <2>4 DEF better
<1>8. 1 + Cardinality({t \in roster : \/ rank.scores[t] > rank.scores[s]
                                      \/ rank.scores[t] = rank.scores[s] /\ t < s}) = i
  <2>1. Ahead(roster, rank, s) =
          {t \in roster : \/ rank.scores[t] > rank.scores[s]
                          \/ rank.scores[t] = rank.scores[s] /\ t < s}
    <3> HIDE DEF roster, s
    <3> QED BY Zenon DEF Ahead, Before
  <2>2. 1 + Cardinality(Ahead(roster, rank, s)) = i
    BY <1>6 DEF PlaceOf
  <2> QED BY <2>1, <2>2, Zenon
<1>9. context'.skill = s
  BY <1>4 DEF Hit
<1>10. /\ Cardinality(Better(s)') < ShortlistSize /\ rerank'.choice = s
       /\ rerank'.fits[1 + Cardinality({t \in first'.skills :
                   \/ rank'.scores[t] > rank'.scores[s]
                   \/ rank'.scores[t] = rank'.scores[s] /\ t < s})]
  <2>1. Better(s)' = {t \in roster : rank.scores[t] > rank.scores[s]}
    BY <1>1, Zenon DEF Better
  <2>2. {t \in first'.skills : \/ rank'.scores[t] > rank'.scores[s]
                               \/ rank'.scores[t] = rank'.scores[s] /\ t < s}
        = {t \in roster : \/ rank.scores[t] > rank.scores[s]
                          \/ rank.scores[t] = rank.scores[s] /\ t < s}
    BY <1>1, Zenon
  <2>3. rerank'.choice = s /\ rerank'.fits[i]
    BY <1>2, <1>5
  <2> HIDE DEF s, roster
  <2> QED BY <1>7, <1>8, <2>1, <2>2, <2>3, Zenon
<1> QED BY <1>1, <1>6, <1>9, <1>10 DEF HitRestsOnOneRoster

LEMMA Invariant == Spec => []IInv
BY InitIInv, Inductive, PTL DEF Spec

\* Every variable keeps its type; the callback never makes more requests than
\* MAX_PRE_LLM_RPC, and sends none with a deadline that has passed.
THEOREM TypeCorrect == Spec => []TypeOK
<1>1. IInv => TypeOK
  BY DEF IInv
<1> QED BY <1>1, Invariant, PTL

\* "No skill applies" rests on an answer that says so (suggest.py,
\* evaluate_suggestion).
THEOREM MissesAreEvaluated == Spec => []MissIsEvaluated
<1>1. IInv => MissIsEvaluated
  BY DEF IInv
<1> QED BY <1>1, Invariant, PTL

\* A skill is suggested only from one unchanged roster, at a place of the
\* shortlist, chosen and found fit by the second answer, for every roster and
\* every score (suggest.py, evaluate_suggestion; harness.py).
THEOREM HitsRestOnOneRoster == Spec => []HitRestsOnOneRoster
<1>1. Init => HitRestsOnOneRoster
  BY DEF Init, HitRestsOnOneRoster, NoContext
<1>2. IInv /\ HitRestsOnOneRoster /\ [Next]_vars => HitRestsOnOneRoster'
  <2> SUFFICES ASSUME IInv, HitRestsOnOneRoster, [Next]_vars PROVE HitRestsOnOneRoster'
    OBVIOUS
  <2>1. CASE UNCHANGED vars
    BY <2>1 DEF vars, answerVars, outputVars, HitRestsOnOneRoster, Better
  <2>2. CASE Tick \/ Republish \/ Enter \/ RouteBegin \/ RouteEnd \/ SuggestBegin
             \/ Rank \/ Rerank
    <3>1. pc # "done" /\ UNCHANGED context
      BY <2>2 DEF Tick, Republish, Enter, RouteBegin, RouteEnd, SuggestBegin, Rank, Rerank,
                  outputVars
    <3>2. context'.kind = "none"
      BY <3>1 DEF IInv, Silent, NoContext
    <3> QED BY <3>2 DEF HitRestsOnOneRoster
  <2>3. CASE RankEnd
    <3>1. context = NoContext
      BY <2>3 DEF RankEnd, IInv, Silent
    <3>2. context' \in {NoContext, Miss}
      BY <2>3, <3>1, RankSays DEF RankEnd
    <3> QED BY <3>2 DEF HitRestsOnOneRoster, NoContext, Miss
  <2>4. CASE RerankEnd
    BY <2>4, HitSteps
  <2> QED BY <2>1, <2>2, <2>3, <2>4 DEF Next, Handler
<1> QED BY <1>1, <1>2, Invariant, PTL DEF Spec

\* A directive that breaks the cache was worth it, and the effort it carries is
\* one its target is configured with (route.py, evaluate_routing).
THEOREM CacheBreaksAreEarned == Spec => []CacheBreakIsEarned
<1>1. IInv => CacheBreakIsEarned
  BY DEF IInv, Says, Earned, CacheBreakIsEarned
<1> QED BY <1>1, Invariant, PTL

\* The first and the last request end within the useful budget, whatever the
\* budgets and however long the host's snapshot calls take (harness.py,
\* _deadline_remaining).
THEOREM RequestsAreTimely == Spec => []RequestsEndInTime
<1>1. IInv => RequestsEndInTime
  <2> SUFFICES ASSUME IInv, pc \in {"routing", "reranking"}
               PROVE  clock - started <= Useful
    BY DEF RequestsEndInTime
  <2>1. /\ clock \in Int /\ started \in Int /\ due \in Int
        /\ clock <= due /\ due - started <= Useful
    BY DEF IInv, Timed, TypeOK
  <2> QED BY <2>1, HookAssumption
<1> QED BY <1>1, Invariant, PTL
=============================================================================
