--------------------------- MODULE Ranking_proofs ---------------------------
(***************************************************************************)
(* Proofs about Ranking: the bounds of the scores, the order of a list,    *)
(* the tellings of a story, and what the agent can and cannot change.      *)
(***************************************************************************)
EXTENDS Ranking, FiniteSetTheorems, TLAPS

-----------------------------------------------------------------------------
(* The scores *)

LEMMA ClampTyped ==
    ASSUME NEW v \in Int
    PROVE  ClampScore(v) \in 1..5
  BY DEF ClampScore, AtMost

LEMMA AtMostTyped ==
    ASSUME NEW x \in Int, NEW bound \in Int
    PROVE  AtMost(x, bound) \in Int
  BY DEF AtMost

\* What is counted is finite.
LEMMA MatchesTyped ==
    ASSUME NEW i \in Items
    PROVE  /\ Cardinality(KeywordMatches(i)) \in Nat
           /\ Cardinality(MatchedProfileTerms(i)) \in Nat
           /\ Cardinality(SourceTagMatches(i)) \in Nat
           /\ Cardinality(NegativeMatches(i)) \in Nat
  <1>1. KeywordMatches(i) \in SUBSET DOMAIN RuleTerms
    BY DEF KeywordMatches
  <1>2. MatchedProfileTerms(i) \in SUBSET ProfileTerms
    BY DEF MatchedProfileTerms
  <1>3. /\ SourceTagMatches(i) \in SUBSET (About[i].tags \cup {About[i].category})
        /\ IsFiniteSet(About[i].tags \cup {About[i].category})
    BY RankingAssumption, FS_AddElement DEF SourceTagMatches
  <1>4. NegativeMatches(i) \in SUBSET Dislikes
    BY DEF NegativeMatches
  <1> QED
    BY <1>1, <1>2, <1>3, <1>4, FS_Subset, FS_CardinalityType, RankingAssumption

LEMMA RecencyTyped ==
    ASSUME NEW i \in Items, NEW day \in Days
    PROVE  RecencyWeight(i, day) \in Int
  BY DEF RecencyWeight

LEMMA ImportanceTyped ==
    ASSUME NEW i \in Items, NEW day \in Days
    PROVE  Importance[day][i] \in 1..5
  <1> DEFINE tags == IF About[i].tags # {} THEN 30 ELSE 0
             rules == AtMost(45 * Cardinality(KeywordMatches(i)), 180)
             rich == IF About[i].rich THEN 40 ELSE 0
             sum == 100 + About[i].priority + About[i].kind + RecencyWeight(i, day)
                      + tags + rules + rich
  <1>1. About[i].priority \in Nat /\ About[i].kind \in Nat
    BY RankingAssumption
  <1>2. tags \in Int /\ rich \in Int
    OBVIOUS
  <1>3. rules \in Int
    BY MatchesTyped, AtMostTyped
  <1>4. sum \in Int
    <2> HIDE DEF tags, rules, rich
    <2> QED
      BY <1>1, <1>2, <1>3, RecencyTyped
  <1>5. Importance[day][i] = ClampScore(sum)
    BY DEF Importance
  <1> HIDE DEF sum
  <1> QED
    BY <1>4, <1>5, ClampTyped

LEMMA RelevanceTyped ==
    ASSUME NEW i \in Items
    PROVE  Relevance[i] \in 1..5
  <1> DEFINE rules == AtMost(35 * Cardinality(KeywordMatches(i)), 140)
             terms == AtMost(55 * Cardinality(MatchedProfileTerms(i)), 220)
             tags == AtMost(25 * Cardinality(SourceTagMatches(i)), 80)
             dislikes == AtMost(80 * Cardinality(NegativeMatches(i)), 160)
             sum == 100 + rules + terms + tags - dislikes
  <1>1. rules \in Int /\ terms \in Int /\ tags \in Int /\ dislikes \in Int
    <2>1. rules \in Int
      BY MatchesTyped, AtMostTyped
    <2>2. terms \in Int
      BY MatchesTyped, AtMostTyped
    <2>3. tags \in Int
      BY MatchesTyped, AtMostTyped
    <2>4. dislikes \in Int
      BY MatchesTyped, AtMostTyped
    <2> QED
      BY <2>1, <2>2, <2>3, <2>4
  <1>2. sum \in Int
    <2> HIDE DEF rules, terms, tags, dislikes
    <2> QED
      BY <1>1
  <1>3. Relevance[i] = ClampScore(sum)
    BY DEF Relevance
  <1> HIDE DEF sum
  <1> QED
    BY <1>2, <1>3, ClampTyped

LEMMA BaselineTyped ==
    ASSUME NEW day \in Days
    PROVE  Baseline[day] \in [Items -> 0..500]
  <1>1. ASSUME NEW i \in Items
        PROVE  45 * Importance[day][i] + 55 * Relevance[i] \in 0..500
    BY ImportanceTyped, RelevanceTyped
  <1> QED
    BY <1>1 DEF Baseline

LEMMA AgentComponentTyped ==
    ASSUME NEW a \in Assessments
    PROVE  AgentComponent(a) \in Nat /\ AgentComponent(a) <= 45000
  <1> DEFINE r == a.relevance
             n == a.novelty
             c == a.credibility
             u == a.urgency
             k == a.counter
             adjusted == 35 * r + 20 * n + 20 * c + 15 * u - 10 * k
  <1>1. r \in 0..100 /\ n \in 0..100 /\ c \in 0..100 /\ u \in 0..100 /\ k \in 0..100
    BY DEF Assessments
  <1>2. AgentComponent(a) = IF adjusted < 0 THEN 0 ELSE 5 * adjusted
    BY DEF AgentComponent
  <1> HIDE DEF r, n, c, u, k
  <1>3. adjusted \in Int /\ adjusted <= 9000
    BY <1>1
  <1> HIDE DEF adjusted
  <1> QED
    BY <1>2, <1>3

LEMMA MaxScoreIs == MaxScore \in Nat /\ 50000 <= MaxScore
  BY DEF MaxScore

LEMMA OpinionsAre == Opinions \subseteq Assessments /\ None \notin Opinions
  BY RankingAssumption

\* The final score: between 65 hundredths of the baseline's and that plus the
\* agent's share, up to rounding.
LEMMA ComposedIsBounded ==
    ASSUME NEW i \in Items, NEW day \in Days, NEW a \in Opinions
    PROVE  /\ ComposeFinalScore(i, day, a) \in 0..MaxScore
           /\ 65 * Baseline[day][i] <= ComposeFinalScore(i, day, a)
           /\ ComposeFinalScore(i, day, a) <= 65 * Baseline[day][i] + 15750
  <1> DEFINE b == Baseline[day][i]
             c == AgentComponent(a)
             s == ComposeFinalScore(i, day, a)
  <1>1. b \in 0..500
    BY BaselineTyped
  <1>2. c \in Nat /\ c <= 45000
    <2>1. a \in Assessments
      BY OpinionsAre
    <2> QED
      BY <2>1, AgentComponentTyped
  <1>3. s = (6500 * b + 35 * c + 50) \div 100
    BY OpinionsAre DEF ComposeFinalScore
  <1> HIDE DEF b, c, s
  <1>4. s \in Int /\ 100 * s <= 6500 * b + 35 * c + 50 /\ 6500 * b + 35 * c + 50 < 100 * s + 100
    BY <1>1, <1>2, <1>3
  <1>5. /\ s \in Nat /\ s <= 50000
        /\ 65 * b <= s /\ s <= 65 * b + 15750
    BY <1>1, <1>2, <1>4
  <1>6. s \in 0..MaxScore
    BY <1>5, MaxScoreIs
  <1> QED
    BY <1>5, <1>6 DEF b, s

LEMMA UnassessedIsBaseline ==
    ASSUME NEW i \in Items, NEW day \in Days
    PROVE  ComposeFinalScore(i, day, None) = 100 * Baseline[day][i]
  BY DEF ComposeFinalScore

\* What is said of a candidate is an opinion or none.
Answers == UNION {[P -> Opinions \cup {None}] : P \in SUBSET Items}

LEMMA CountedTyped ==
    ASSUME NEW opinion \in Answers
    PROVE  Counted(opinion) \in [Items -> Opinions \cup {None}]
  <1>1. \A i \in DOMAIN opinion : opinion[i] \in Opinions \cup {None}
    BY DEF Answers
  <1>2. \A i \in Items : (IF i \in (IF Suspicious(opinion) THEN {} ELSE DOMAIN opinion)
                          THEN opinion[i] ELSE None) \in Opinions \cup {None}
    BY <1>1
  <1> QED
    BY <1>2 DEF Counted

LEMMA HundredTyped ==
    ASSUME NEW day \in Days, NEW i \in Items
    PROVE  100 * Baseline[day][i] \in 0..MaxScore
  <1> DEFINE b == Baseline[day][i]
  <1>1. b \in 0..500
    BY BaselineTyped
  <1> HIDE DEF b
  <1>2. 100 * b \in Nat /\ 100 * b <= 50000
    BY <1>1
  <1>3. 100 * b <= MaxScore
    BY <1>2, MaxScoreIs
  <1>4. 100 * b \in 0..MaxScore
    BY <1>2, <1>3, MaxScoreIs
  <1> QED
    BY <1>4 DEF b

\* Every score that a list is ordered by is in range.
LEMMA ScoresAreInRange ==
    ASSUME NEW day \in Days, NEW opinion \in Answers
    PROVE  FinalScore(opinion, day) \in [Items -> 0..MaxScore]
  <1>1. ASSUME NEW i \in Items
        PROVE  ComposeFinalScore(i, day, Counted(opinion)[i]) \in 0..MaxScore
    <2> DEFINE a == Counted(opinion)[i]
    <2>1. a \in Opinions \cup {None}
      BY CountedTyped
    <2> HIDE DEF a
    <2>2. CASE a = None
      <3>1. 100 * Baseline[day][i] \in 0..MaxScore
        BY HundredTyped
      <3>2. ComposeFinalScore(i, day, a) = 100 * Baseline[day][i]
        BY <2>2, UnassessedIsBaseline
      <3> QED
        BY <3>1, <3>2 DEF a
    <2>3. CASE a \in Opinions
      <3>1. ComposeFinalScore(i, day, a) \in 0..MaxScore
        BY <2>3, ComposedIsBounded
      <3> QED
        BY <3>1 DEF a
    <2> QED
      BY <2>1, <2>2, <2>3
  <1> QED
    BY <1>1 DEF FinalScore

-----------------------------------------------------------------------------
(* The order of a list *)

Scores == [Items -> Nat]

LEMMA ItemsAre ==
    /\ \A i \in Items : About[i].title \in Int
    /\ \A i, j \in Items : About[i].title = About[j].title => i = j
    /\ IsFiniteSet(Items)
  BY RankingAssumption

LEMMA BaselineIsScore ==
    ASSUME NEW day \in Days
    PROVE  Baseline[day] \in Scores
  BY BaselineTyped DEF Scores

\* Ahead is a strict total order, whatever the scores: titles decide at last.
LEMMA AheadIsOrder ==
    ASSUME NEW score \in Scores, NEW day \in Days
    PROVE  /\ \A x \in Items : ~Ahead(score, day, x, x)
           /\ \A x, y, z \in Items :
                Ahead(score, day, x, y) /\ Ahead(score, day, y, z) => Ahead(score, day, x, z)
           /\ \A x, y \in Items : x # y => Ahead(score, day, x, y) \/ Ahead(score, day, y, x)
  <1>1. /\ \A x \in Items : score[x] \in Int
        /\ \A x \in Items : Importance[day][x] \in Int
        /\ \A x \in Items : Relevance[x] \in Int
    BY ImportanceTyped, RelevanceTyped DEF Scores
  <1>2. \A x \in Items : ~Ahead(score, day, x, x)
    BY <1>1, ItemsAre DEF Ahead
  <1>3. \A x, y, z \in Items :
          Ahead(score, day, x, y) /\ Ahead(score, day, y, z) => Ahead(score, day, x, z)
    BY <1>1, ItemsAre DEF Ahead
  <1>4. \A x, y \in Items : x # y => Ahead(score, day, x, y) \/ Ahead(score, day, y, x)
    BY <1>1, ItemsAre DEF Ahead
  <1> QED
    BY <1>2, <1>3, <1>4

\* The items of S that are ahead of x.
Before(S, score, day, x) == {y \in S : Ahead(score, day, y, x)}

LEMMA BeforeIsCounted ==
    ASSUME NEW S \in SUBSET Items, NEW score, NEW day, NEW x
    PROVE  /\ IsFiniteSet(Before(S, score, day, x))
           /\ Cardinality(Before(S, score, day, x)) \in Nat
  <1>1. Before(S, score, day, x) \in SUBSET Items
    BY DEF Before
  <1> QED
    BY <1>1, ItemsAre, FS_Subset, FS_CardinalityType

\* Who is ahead has fewer ahead of it.
LEMMA AheadCountsLess ==
    ASSUME NEW S \in SUBSET Items, NEW score \in Scores, NEW day \in Days,
           NEW x \in Items, NEW y \in S, Ahead(score, day, y, x)
    PROVE  Cardinality(Before(S, score, day, y)) < Cardinality(Before(S, score, day, x))
  <1> DEFINE less == Before(S, score, day, y)
             more == Before(S, score, day, x)
  <1>1. less \in SUBSET more
    BY AheadIsOrder DEF Before
  <1>2. y \in more /\ y \notin less
    BY AheadIsOrder DEF Before
  <1>3. IsFiniteSet(more) /\ Cardinality(more) \in Nat /\ Cardinality(less) \in Nat
    BY BeforeIsCounted
  <1> HIDE DEF less, more
  <1>4. Cardinality(less) <= Cardinality(more) /\ Cardinality(less) # Cardinality(more)
    BY <1>1, <1>2, <1>3, FS_Subset
  <1>5. Cardinality(less) < Cardinality(more)
    BY <1>3, <1>4
  <1> QED
    BY <1>5 DEF less, more

LEMMA FirstAre ==
    ASSUME NEW n, NEW S, NEW score, NEW day, NEW x
    PROVE  x \in First(n, S, score, day)
             <=> x \in S /\ Cardinality(Before(S, score, day, x)) < n
  BY DEF First, Before

\* What is ahead of a chosen one is chosen.
LEMMA FirstIsClosed ==
    ASSUME NEW S \in SUBSET Items, NEW score \in Scores, NEW day \in Days, NEW n \in Nat,
           NEW x \in First(n, S, score, day), NEW y \in S, Ahead(score, day, y, x)
    PROVE  y \in First(n, S, score, day)
  <1>1. x \in Items /\ Cardinality(Before(S, score, day, x)) < n
    BY FirstAre
  <1>2. Cardinality(Before(S, score, day, y)) < Cardinality(Before(S, score, day, x))
    BY <1>1, AheadCountsLess
  <1>3. /\ Cardinality(Before(S, score, day, x)) \in Nat
        /\ Cardinality(Before(S, score, day, y)) \in Nat
    BY BeforeIsCounted
  <1>4. Cardinality(Before(S, score, day, y)) < n
    BY <1>1, <1>2, <1>3
  <1> QED
    BY <1>4, FirstAre

-----------------------------------------------------------------------------
(* The tellings of a story *)

\* Which telling is kept: the higher score, then the one ahead in the baseline.
Better(score, base, day, x, y) ==
    \/ score[x] > score[y]
    \/ score[x] = score[y] /\ Ahead(base, day, x, y)

LEMMA BetterIsOrder ==
    ASSUME NEW score \in Scores, NEW base \in Scores, NEW day \in Days
    PROVE  /\ \A x \in Items : ~Better(score, base, day, x, x)
           /\ \A x, y, z \in Items :
                Better(score, base, day, x, y) /\ Better(score, base, day, y, z)
                  => Better(score, base, day, x, z)
           /\ \A x, y \in Items :
                x # y => Better(score, base, day, x, y) \/ Better(score, base, day, y, x)
  <1>1. \A x \in Items : score[x] \in Int
    BY DEF Scores
  <1>2. \A x \in Items : ~Better(score, base, day, x, x)
    BY <1>1, AheadIsOrder DEF Better
  <1>3. \A x, y, z \in Items :
          Better(score, base, day, x, y) /\ Better(score, base, day, y, z)
            => Better(score, base, day, x, z)
    BY <1>1, AheadIsOrder DEF Better
  <1>4. \A x, y \in Items :
          x # y => Better(score, base, day, x, y) \/ Better(score, base, day, y, x)
    BY <1>1, AheadIsOrder DEF Better
  <1> QED
    BY <1>2, <1>3, <1>4

LEMMA BestAre ==
    ASSUME NEW S, NEW score, NEW base, NEW day, NEW x
    PROVE  x \in BestTellings(S, score, base, day)
             <=> /\ x \in S
                 /\ \A y \in S \ {x} : Story(y) = Story(x) => Better(score, base, day, x, y)
  BY DEF BestTellings, Better

\* Two tellings that are both kept tell two stories (ranking.py:393-407).
THEOREM OneTellingIsKept ==
    ASSUME NEW S \in SUBSET Items, NEW score \in Scores, NEW day \in Days,
           NEW x \in BestTellings(S, score, Baseline[day], day),
           NEW y \in BestTellings(S, score, Baseline[day], day),
           Story(x) = Story(y)
    PROVE  x = y
  <1> DEFINE base == Baseline[day]
  <1>1. base \in Scores
    BY BaselineIsScore
  <1>2. x \in S /\ y \in S
    BY BestAre
  <1>3. SUFFICES ASSUME x # y PROVE FALSE
    OBVIOUS
  <1>4. Better(score, base, day, x, y) /\ Better(score, base, day, y, x)
    BY <1>2, <1>3, BestAre
  <1> HIDE DEF base
  <1>5. Better(score, base, day, x, x)
    BY <1>1, <1>2, <1>4, BetterIsOrder
  <1> QED
    BY <1>1, <1>2, <1>5, BetterIsOrder

\* And one of each story is: the item itself or a better telling of it.
THEOREM EveryStoryIsKept ==
    ASSUME NEW S \in SUBSET Items, NEW score \in Scores, NEW day \in Days, NEW x \in S
    PROVE  \E z \in BestTellings(S, score, Baseline[day], day) :
             Story(z) = Story(x) /\ (z = x \/ Better(score, Baseline[day], day, z, x))
  <1> DEFINE base == Baseline[day]
             T == {y \in S : Story(y) = Story(x)}
             R(v) == {w \in T : Better(score, base, day, w, v)}
             F == {R(v) : v \in T}
  <1>1. base \in Scores
    BY BaselineIsScore
  <1>2. IsFiniteSet(T)
    BY ItemsAre, FS_Subset
  <1>3. F \subseteq FiniteSubsetsOf(T) /\ F # {}
    <2>1. ASSUME NEW v \in T PROVE R(v) \in FiniteSubsetsOf(T)
      BY <1>2, FS_Subset DEF FiniteSubsetsOf
    <2> QED
      BY <2>1
  <1>4. PICK m \in F : \A n \in F : ~(<<n, m>> \in StrictSubsetOrdering(T))
    <2> HIDE DEF F, T
    <2> QED
      BY <1>3, WFMin, FS_StrictSubsetOrderingWellFounded
  <1>5. PICK z \in T : m = R(z)
    OBVIOUS
  <1>6. ASSUME NEW v \in T PROVE ~Better(score, base, day, v, z)
    <2>1. SUFFICES ASSUME Better(score, base, day, v, z) PROVE FALSE
      OBVIOUS
    <2>2. T \subseteq Items
      OBVIOUS
    <2>3. R(v) \subseteq R(z)
      <3> HIDE DEF base, T
      <3> QED
        BY <1>1, <2>1, <2>2, BetterIsOrder
    <2>4. v \in R(z) /\ v \notin R(v)
      <3> HIDE DEF base, T
      <3> QED
        BY <1>1, <2>1, <2>2, BetterIsOrder
    <2>5. <<R(v), R(z)>> \in StrictSubsetOrdering(T)
      <3>1. R(v) \in SUBSET T /\ R(z) \in SUBSET T
        OBVIOUS
      <3> HIDE DEF R, T
      <3> QED
        BY <3>1, <2>3, <2>4 DEF StrictSubsetOrdering
    <2>6. R(v) \in F
      OBVIOUS
    <2> HIDE DEF R, T, F
    <2> QED
      BY <1>4, <1>5, <2>5, <2>6
  <1>7. \A y \in T : y # z => Better(score, base, day, z, y)
    <2>1. T \subseteq Items
      OBVIOUS
    <2> HIDE DEF base, T
    <2> QED
      BY <1>1, <1>6, <2>1, BetterIsOrder
  <1>8. z \in BestTellings(S, score, base, day)
    <2>1. z \in S /\ \A y \in S \ {z} : Story(y) = Story(z) => Better(score, base, day, z, y)
      BY <1>7
    <2> HIDE DEF base
    <2> QED
      BY <2>1, BestAre
  <1> QED
    BY <1>7, <1>8

-----------------------------------------------------------------------------
(* What the agent can and cannot change *)

LEMMA TopNIs == TopN \in Nat
  BY RankingAssumption

LEMMA FinalIsScore ==
    ASSUME NEW day \in Days, NEW opinion \in Answers
    PROVE  FinalScore(opinion, day) \in Scores
  <1>1. 0..MaxScore \subseteq Nat
    BY MaxScoreIs
  <1> QED
    BY <1>1, ScoresAreInRange DEF Scores

\* The agent takes at most 35 hundredths of an item's baseline from it, and
\* brings it at most 1.575 points.
LEMMA AgentIsBounded ==
    ASSUME NEW day \in Days, NEW opinion \in Answers, NEW i \in Items
    PROVE  /\ 65 * Baseline[day][i] <= FinalScore(opinion, day)[i]
           /\ \/ FinalScore(opinion, day)[i] = 100 * Baseline[day][i]
              \/ FinalScore(opinion, day)[i] <= 65 * Baseline[day][i] + 15750
  <1> DEFINE a == Counted(opinion)[i]
             b == Baseline[day][i]
  <1>1. a \in Opinions \cup {None} /\ b \in 0..500
    BY CountedTyped, BaselineTyped
  <1>2. FinalScore(opinion, day)[i] = ComposeFinalScore(i, day, a)
    BY DEF FinalScore
  <1> HIDE DEF a
  <1>3. CASE a = None
    <2>1. FinalScore(opinion, day)[i] = 100 * b
      BY <1>2, <1>3, UnassessedIsBaseline
    <2>2. 65 * b <= 100 * b
      <3> HIDE DEF b
      <3> QED
        BY <1>1
    <2> QED
      BY <2>1, <2>2
  <1>4. CASE a \in Opinions
    <2>1. /\ 65 * b <= ComposeFinalScore(i, day, a)
          /\ ComposeFinalScore(i, day, a) <= 65 * b + 15750
      BY <1>4, ComposedIsBounded
    <2> QED
      BY <1>2, <2>1
  <1> QED
    BY <1>1, <1>3, <1>4

\* An item whose baseline leads by more than the agent's share keeps its place
\* before the other, itself or a better telling of its story, whatever the
\* assessments (ranking.py:157-202, 393-417).
THEOREM LeadSurvives ==
    ASSUME NEW S \in SUBSET Items, NEW day \in Days, NEW opinion \in Answers,
           NEW x \in S, NEW y \in Rank(S, FinalScore(opinion, day), day),
           65 * Baseline[day][x] > 100 * Baseline[day][y],
           65 * Baseline[day][x] > 65 * Baseline[day][y] + 15750
    PROVE  \E z \in Rank(S, FinalScore(opinion, day), day) :
             Story(z) = Story(x) /\ Ahead(FinalScore(opinion, day), day, z, y)
  <1> DEFINE score == FinalScore(opinion, day)
             best == BestTellings(S, score, Baseline[day], day)
  <1>1. score \in Scores
    BY FinalIsScore
  <1>2. Rank(S, score, day) = First(TopN, best, score, day)
    BY DEF Rank
  <1>3. best \subseteq S /\ y \in best
    BY <1>2, FirstAre, BestAre
  <1>4. /\ Baseline[day][x] \in Nat /\ Baseline[day][y] \in Nat
        /\ score[x] \in Nat /\ score[y] \in Nat
    BY <1>1, <1>3, BaselineIsScore DEF Scores
  <1>5. score[x] > score[y]
    <2>1. /\ 65 * Baseline[day][x] <= score[x]
          /\ \/ score[y] = 100 * Baseline[day][y]
             \/ score[y] <= 65 * Baseline[day][y] + 15750
      BY <1>3, AgentIsBounded
    <2> DEFINE p == Baseline[day][x]
               q == Baseline[day][y]
    <2>2. 65 * p > 100 * q /\ 65 * p > 65 * q + 15750
      OBVIOUS
    <2> HIDE DEF score, p, q
    <2>3. /\ 65 * p <= score[x]
          /\ score[y] = 100 * q \/ score[y] <= 65 * q + 15750
          /\ p \in Nat /\ q \in Nat
      BY <1>4, <2>1 DEF p, q
    <2> QED
      BY <1>4, <2>2, <2>3
  <1>6. PICK z \in best :
          Story(z) = Story(x) /\ (z = x \/ Better(score, Baseline[day], day, z, x))
    BY <1>1, EveryStoryIsKept
  <1>7. score[z] \in Nat /\ score[z] >= score[x]
    BY <1>1, <1>3, <1>4, <1>6 DEF Better, Scores
  <1>8. Ahead(score, day, z, y)
    <2>1. score[z] > score[y]
      BY <1>4, <1>5, <1>7
    <2> HIDE DEF score
    <2> QED
      BY <2>1 DEF Ahead
  <1>9. z \in First(TopN, best, score, day)
    <2>1. best \in SUBSET Items /\ y \in First(TopN, best, score, day)
      BY <1>2, <1>3
    <2> HIDE DEF best, score
    <2> QED
      BY <1>1, <1>6, <1>8, <2>1, TopNIs, FirstIsClosed
  <1> QED
    BY <1>2, <1>6, <1>8, <1>9

LEMMA HundredfoldKeepsOrder ==
    ASSUME NEW S \in SUBSET Items, NEW score \in Scores, NEW day \in Days,
           NEW other \in Scores, \A i \in Items : score[i] = 100 * other[i]
    PROVE  \A x, y \in Items : Ahead(score, day, x, y) <=> Ahead(other, day, x, y)
  <1>1. \A x, y \in Items :
          /\ score[x] > score[y] <=> other[x] > other[y]
          /\ score[x] = score[y] <=> other[x] = other[y]
    <2>1. ASSUME NEW x \in Items, NEW y \in Items
          PROVE  /\ score[x] > score[y] <=> other[x] > other[y]
                 /\ score[x] = score[y] <=> other[x] = other[y]
      <3>1. other[x] \in Nat /\ other[y] \in Nat
        BY DEF Scores
      <3>2. score[x] = 100 * other[x] /\ score[y] = 100 * other[y]
        OBVIOUS
      <3> QED
        BY <3>1, <3>2
    <2> QED
      BY <2>1
  <1> QED
    BY <1>1 DEF Ahead

\* When no assessment counts, the list is the baseline without the later
\* tellings of a story (ranking.py:376-420).
THEOREM FallbackKeepsBaseline ==
    ASSUME NEW S \in SUBSET Items, NEW day \in Days, NEW score \in Scores,
           \A i \in Items : score[i] = 100 * Baseline[day][i],
           NEW x \in First(TopN, S, Baseline[day], day)
    PROVE  x \in Rank(S, score, day)
             <=> \A y \in First(TopN, S, Baseline[day], day) :
                    Ahead(Baseline[day], day, y, x) => Story(y) # Story(x)
  <1> DEFINE base == Baseline[day]
             best == BestTellings(S, score, base, day)
             top == First(TopN, S, base, day)
  <1>1. base \in Scores
    BY BaselineIsScore
  <1>2. \A u, v \in Items : Ahead(score, day, u, v) <=> Ahead(base, day, u, v)
    <2> HIDE DEF base
    <2>1. \A i \in Items : score[i] = 100 * base[i]
      BY DEF base
    <2> QED
      BY <1>1, <2>1, HundredfoldKeepsOrder
  <1>3. x \in S /\ top \subseteq S
    BY FirstAre
  <1>4. Rank(S, score, day) = First(TopN, best, score, day)
    BY DEF Rank
  <1>5. \A u, v \in Items : Better(score, base, day, u, v) <=> Ahead(base, day, u, v)
    <2>1. \A i \in Items : score[i] \in Nat /\ base[i] \in Nat /\ score[i] = 100 * base[i]
      BY <1>1 DEF Scores
    <2> HIDE DEF base
    <2> QED
      BY <2>1 DEF Better, Ahead
  <1>6. ASSUME x \in best
        PROVE  x \in First(TopN, best, score, day)
    <2>1. Before(best, score, day, x) \in SUBSET Before(S, base, day, x)
      <3>1. best \subseteq S
        BY BestAre
      <3> HIDE DEF best, base
      <3> QED
        BY <1>2, <1>3, <3>1 DEF Before
    <2>2. /\ IsFiniteSet(Before(S, base, day, x))
          /\ Cardinality(Before(S, base, day, x)) \in Nat
          /\ Cardinality(Before(S, base, day, x)) < TopN
      BY BeforeIsCounted, FirstAre
    <2>3. /\ Cardinality(Before(best, score, day, x)) \in Nat
          /\ Cardinality(Before(best, score, day, x)) <= Cardinality(Before(S, base, day, x))
      <3> HIDE DEF best, base
      <3> QED
        BY <2>1, <2>2, FS_Subset, FS_CardinalityType
    <2>4. Cardinality(Before(best, score, day, x)) < TopN
      <3> HIDE DEF best, base
      <3> QED
        BY <2>2, <2>3, TopNIs
    <2> QED
      BY <1>6, <2>4, FirstAre
  <1>7. x \in Rank(S, score, day) <=> x \in best
    BY <1>4, <1>6, FirstAre
  <1>8. x \in best <=> \A y \in S \ {x} : Story(y) = Story(x) => Ahead(base, day, x, y)
    <2> HIDE DEF base
    <2> QED
      BY <1>3, <1>5, BestAre
  <1>9. \A y \in S : Ahead(base, day, y, x) => y \in top
    <2>1. x \in top
      OBVIOUS
    <2> HIDE DEF base
    <2> QED
      BY <1>1, <2>1, TopNIs, FirstIsClosed
  <1>10. \A y \in S \ {x} : Ahead(base, day, x, y) <=> ~Ahead(base, day, y, x)
    <2> HIDE DEF base
    <2> QED
      BY <1>1, <1>3, AheadIsOrder
  <1>11. \A y \in S : Ahead(base, day, y, x) => y # x
    <2> HIDE DEF base
    <2> QED
      BY <1>1, <1>3, AheadIsOrder
  <1> HIDE DEF best, base, top
  <1>12. x \in Rank(S, score, day)
           <=> \A y \in top : Ahead(base, day, y, x) => Story(y) # Story(x)
    BY <1>3, <1>7, <1>8, <1>9, <1>10, <1>11
  <1> QED
    BY <1>12 DEF base, top

-----------------------------------------------------------------------------
(* The candidates *)

LEMMA FirstIsBounded ==
    ASSUME NEW S \in SUBSET Items, NEW score \in Scores, NEW day \in Days, NEW n \in Nat
    PROVE  Cardinality(First(n, S, score, day)) <= n
  <1> DEFINE top == First(n, S, score, day)
             place(x) == Cardinality(Before(S, score, day, x))
             f == [x \in top |-> place(x)]
  <1>1. top \subseteq S
    BY FirstAre
  <1>2. \A x \in top : place(x) \in 0..(n - 1)
    <2>1. ASSUME NEW x \in top PROVE place(x) \in Nat /\ place(x) < n
      BY <1>1, BeforeIsCounted, FirstAre
    <2> HIDE DEF place
    <2> QED
      BY <2>1
  <1>3. ASSUME NEW x \in top, NEW y \in top, x # y PROVE place(x) # place(y)
    <2>1. x \in S /\ y \in S /\ x \in Items /\ y \in Items
      BY <1>1
    <2>2. Ahead(score, day, x, y) \/ Ahead(score, day, y, x)
      BY <1>3, <2>1, AheadIsOrder
    <2>3. place(x) < place(y) \/ place(y) < place(x)
      BY <2>1, <2>2, AheadCountsLess
    <2> HIDE DEF place
    <2> QED
      BY <1>2, <2>3
  <1>4. f \in Injection(top, 0..(n - 1))
    <2> HIDE DEF top, place
    <2>1. f \in [top -> 0..(n - 1)]
      BY <1>2
    <2>2. \A x, y \in top : f[x] = f[y] => x = y
      BY <1>3
    <2> HIDE DEF f
    <2> QED
      BY <2>1, <2>2 DEF Injection, IsInjective
  <1>5. IsFiniteSet(0..(n - 1)) /\ Cardinality(0..(n - 1)) = n
    BY FS_Interval
  <1> HIDE DEF f
  <1> QED
    BY <1>4, <1>5, FS_Injection

\* However the quotas overlap, the candidates are signals, at most as many as
\* the budget of calls allows, and tell different stories (ranking.py:47-130).
THEOREM PoolIsSound ==
    ASSUME NEW S \in SUBSET Items, NEW day \in Days
    PROVE  /\ CandidatePool(S, day) \subseteq S
           /\ Cardinality(CandidatePool(S, day)) <= MaxCandidates
           /\ \A x, y \in CandidatePool(S, day) : Story(x) = Story(y) => x = y
  <1> DEFINE base == Baseline[day]
             top == First(BaselineTop, S, base, day)
             chosen == top \cup DiverseSample(S, base, day) \cup NewTopics(S, top)
             reasoned == chosen \cup Explored(S \ chosen)
             firsts == FirstTellings(reasoned, base, day)
  <1>1. CandidatePool(S, day) = First(MaxCandidates, firsts, base, day)
    BY DEF CandidatePool
  <1>2. reasoned \subseteq S
    <2>1. top \subseteq S
      BY FirstAre
    <2>2. chosen \subseteq S
      <3> HIDE DEF top, base
      <3>1. DiverseSample(S, base, day) \subseteq S
        BY DEF DiverseSample
      <3>2. NewTopics(S, top) \subseteq S
        BY DEF NewTopics
      <3> QED
        BY <2>1, <3>1, <3>2
    <2> HIDE DEF chosen
    <2> QED
      BY <2>2 DEF Explored
  <1>3. firsts \subseteq reasoned
    <2> HIDE DEF reasoned, base
    <2> QED
      BY DEF FirstTellings
  <1>4. base \in Scores /\ MaxCandidates \in Nat
    BY BaselineIsScore, RankingAssumption
  <1>5. \A x, y \in firsts : Story(x) = Story(y) => x = y
    <2> HIDE DEF reasoned, base
    <2> QED
      BY <1>2, <1>4, AheadIsOrder DEF FirstTellings
  <1>6. CandidatePool(S, day) \subseteq firsts
    BY <1>1, FirstAre
  <1>7. Cardinality(CandidatePool(S, day)) <= MaxCandidates
    <2>1. firsts \in SUBSET Items
      BY <1>2, <1>3
    <2> HIDE DEF firsts, base
    <2> QED
      BY <1>1, <1>4, <2>1, FirstIsBounded
  <1> HIDE DEF firsts, reasoned
  <1> QED
    BY <1>2, <1>3, <1>5, <1>6, <1>7

=============================================================================
