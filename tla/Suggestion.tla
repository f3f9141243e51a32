----------------------------- MODULE Suggestion -----------------------------
(***************************************************************************)
(* Skill suggestion of suggest.py: the shortlist a rank answer gives and   *)
(* the context two answers give, each over the roster of one verified      *)
(* snapshot.                                                               *)
(*                                                                         *)
(* A skill is a number, its order that of the names.  Scores keep their    *)
(* order only; the gate's mean and each fit keep whether they are below    *)
(* SUGGESTION_GATE and SUGGESTION_FITS.                                    *)
(***************************************************************************)
EXTENDS Integers, FiniteSets, SequencesExt

CONSTANTS
  Skills,          \* every skill the host may publish
  ShortlistSize,   \* SUGGESTION_SHORTLIST
  MaxScore         \* the largest score, scores are 0..MaxScore

ASSUME SuggestionAssumption ==
  /\ Skills \subseteq Nat /\ IsFiniteSet(Skills)
  /\ ShortlistSize \in Nat \ {0} /\ MaxScore \in Nat

NoContext == [kind |-> "none"]
Miss      == [kind |-> "miss"]
Hit(s)    == [kind |-> "hit", skill |-> s]

\* A provider may score, and choose from, any set of skills.
RankAnswers == UNION {[choice : Skills, scores : [T -> 0..MaxScore],
                       gateLow : BOOLEAN] : T \in SUBSET Skills}

RerankAnswers == UNION {[choice : Skills, fits : [1..n -> BOOLEAN]] :
                        n \in 0..ShortlistSize}

-----------------------------------------------------------------------------
\* _rank_outcome: every skill of the roster is scored and nothing else.
RankValid(roster, rank) ==
  rank.choice \in roster /\ DOMAIN rank.scores = roster

\* Best score first, the name decides between equal scores.
Before(rank, s, t) == \/ rank.scores[s] > rank.scores[t]
                      \/ rank.scores[s] = rank.scores[t] /\ s < t

IsOrdered(order, rank) ==
  \A i, j \in DOMAIN order : i < j => Before(rank, order[i], order[j])

Shortlist(roster, rank) ==
  LET size == Cardinality(roster)
      ordered == CHOOSE order \in [1..size -> roster] : IsOrdered(order, rank)
  IN SubSeq(ordered, 1, Min({ShortlistSize, size}))

\* _rerank_outcome: a winner of the shortlist and one fit per candidate.
RerankValid(shortlist, rerank) ==
  rerank.choice \in ToSet(shortlist) /\ DOMAIN rerank.fits = DOMAIN shortlist

\* (mutant) reads the fits in name order.
FitsByName(shortlist, rerank) ==
  LET byName == SortSeq(shortlist, <)
  IN \E i \in DOMAIN byName : byName[i] = rerank.choice /\ rerank.fits[i]

Fits(shortlist, rerank) ==
  \E i \in DOMAIN shortlist : shortlist[i] = rerank.choice /\ rerank.fits[i]

\* evaluate_suggestion with the rank answer alone.
RankContext(roster, rank) ==
  IF RankValid(roster, rank) /\ rank.gateLow THEN Miss ELSE NoContext

\* evaluate_suggestion with both: the winner, never the best fit.
RerankContext(shortlist, rerank) ==
  CASE ~RerankValid(shortlist, rerank) -> NoContext
    [] RerankValid(shortlist, rerank) /\ ~Fits(shortlist, rerank) -> Miss
    [] OTHER -> Hit(rerank.choice)

=============================================================================
