------------------------------- MODULE Ranking -------------------------------
(***************************************************************************)
(* How canonical items are scored and ranked, as operators: the            *)
(* deterministic scorer, the pool of candidates an agent assesses, the     *)
(* score composed of both, the calibration gate and the merge of several   *)
(* tellings of one story.                                                  *)
(*                                                                         *)
(* Scores are integers.  Weights and importance or relevance before they   *)
(* are rounded are hundredths; a total is 45 times the importance plus 55  *)
(* times the relevance, in hundredths; a final score is in ten thousandths.*)
(* A text is the set of the terms it says.                                 *)
(***************************************************************************)
EXTENDS Integers, FiniteSets

CONSTANTS
    Entries,      \* entries that feeds may bring, as parsed
    Shares,       \* pages users may share: inbox items
    About,        \* what the scorer and the deduplication see of an item
    RuleTerms,    \* keyword_rules: the tag of a rule |-> its terms
    ProfileTerms, \* interests, entities and goals of the profile
    Dislikes,     \* negative_preferences
    Resembles,    \* tags, categories and profile terms one of which contains the other
    Excluded,     \* sources that filters exclude, by id or by category
    MaxDay,       \* bound on the days
    MinRelevance, \* recommendation.min_relevance_score
    TopN,         \* top_n
    BaselineTop, SourceDiverse, Exploration, MaxCandidates, \* CandidatePoolPolicy
    Opinions,     \* assessments an agent may return
    None          \* no link, no guid, no assessment

Items == Entries \cup Shares
Days == 1..MaxDay

\* What an agent says of an item, in hundredths; counter is the counter signal.
Dimensions == {"relevance", "novelty", "credibility", "urgency", "counter"}
Assessments ==
    [relevance : 0..100, novelty : 0..100, credibility : 0..100, urgency : 0..100,
     counter : 0..100]

ASSUME RankingAssumption ==
    /\ IsFiniteSet(Items) /\ Entries \cap Shares = {}
    /\ DOMAIN About = Items
    /\ \A i \in Items :
          /\ {About[i].priority, About[i].kind, About[i].published} \subseteq Nat
          /\ IsFiniteSet(About[i].tags)
          /\ About[i].rich \in BOOLEAN
          /\ {About[i].title, About[i].hash} \subseteq Int
    /\ \A i, j \in Items : About[i].title = About[j].title => i = j
    /\ IsFiniteSet(DOMAIN RuleTerms) /\ IsFiniteSet(ProfileTerms) /\ IsFiniteSet(Dislikes)
    /\ MaxDay \in Nat \ {0}
    /\ Opinions \subseteq Assessments /\ None \notin Opinions
    /\ {MinRelevance, TopN, BaselineTop, SourceDiverse, Exploration, MaxCandidates}
          \subseteq Nat

\* Five, the highest score there is.
MaxScore == 50000

AtMost(x, bound) == IF x <= bound THEN x ELSE bound

-----------------------------------------------------------------------------
(* The deterministic scorer *)

\* Mutant: without the upper bound.
ClampBelow(v) ==
    LET rounded == (v + 50) \div 100
    IN  IF rounded < 1 THEN 1 ELSE rounded

\* Rounded to a whole score, and kept between 1 and 5.
ClampScore(v) ==
    LET rounded == (v + 50) \div 100
    IN  IF rounded < 1 THEN 1 ELSE AtMost(rounded, 5)

\* The rules, profile terms, tags and dislikes that an item matches; a dislike
\* may be in what is said about the item.
KeywordMatches(i) == {r \in DOMAIN RuleTerms : RuleTerms[r] \cap About[i].says # {}}
MatchedProfileTerms(i) == ProfileTerms \cap About[i].says
SourceTagMatches(i) ==
    {t \in About[i].tags \cup {About[i].category} :
        \E p \in ProfileTerms : <<t, p>> \in Resembles}
NegativeMatches(i) == Dislikes \cap (About[i].says \cup About[i].meta)

\* By the days between the publication and the scoring, either way.  An entry
\* whose date cannot be read has 0 for it: then the time it was fetched at
\* counts, and every refresh fetches it anew.  Dates have a zone: one without
\* raises here.
RecencyWeight(i, day) ==
    LET p == About[i].published
        days == IF p = 0 THEN 0 ELSE IF day < p THEN p - day ELSE day - p
    IN  IF days = 0 THEN 80 ELSE IF days <= 3 THEN 50 ELSE 10

Importance == [day \in Days |-> [i \in Items |->
    ClampScore(100 + About[i].priority + About[i].kind + RecencyWeight(i, day)
                + (IF About[i].tags # {} THEN 30 ELSE 0)
                + AtMost(45 * Cardinality(KeywordMatches(i)), 180)
                + (IF About[i].rich THEN 40 ELSE 0))]]

Relevance == [i \in Items |->
    ClampScore(100 + AtMost(35 * Cardinality(KeywordMatches(i)), 140)
                + AtMost(55 * Cardinality(MatchedProfileTerms(i)), 220)
                + AtMost(25 * Cardinality(SourceTagMatches(i)), 80)
                - AtMost(80 * Cardinality(NegativeMatches(i)), 160))]

\* total_score, per day
Baseline ==
    [day \in Days |-> [i \in Items |-> 45 * Importance[day][i] + 55 * Relevance[i]]]

\* The order of a list of signals: score, importance, relevance, title.
Ahead(score, day, x, y) ==
    \/ score[x] > score[y]
    \/ /\ score[x] = score[y]
       /\ \/ Importance[day][x] > Importance[day][y]
          \/ /\ Importance[day][x] = Importance[day][y]
             /\ \/ Relevance[x] > Relevance[y]
                \/ Relevance[x] = Relevance[y] /\ About[x].title < About[y].title

\* The first n of a set of signals.
First(n, S, score, day) ==
    {x \in S : Cardinality({y \in S : Ahead(score, day, y, x)}) < n}

\* The signals build_signals makes of a batch, before they are cut to top_n.
Eligible(batch) ==
    {i \in batch : About[i].source \notin Excluded /\ Relevance[i] >= MinRelevance}

-----------------------------------------------------------------------------
(* The candidates *)

\* Two items tell the same story if they have the same link.
Story(i) == IF About[i].link # None THEN About[i].link ELSE i

\* The loop over the baseline stops after the item that completes the quota:
\* its first item is always taken.
DiverseSample(S, base, day) ==
    {x \in S : LET sources == {About[y].source : y \in {z \in S : Ahead(base, day, z, x)}}
               IN  /\ About[x].source \notin sources
                   /\ sources = {} \/ Cardinality(sources) < SourceDiverse}

\* The tags of a signal are those of its item and of the rules it matched.
NewTopics(S, top) ==
    LET topTags == UNION {About[x].tags \cup KeywordMatches(x) : x \in top}
    IN  {x \in S \ top : ~(About[x].tags \subseteq topTags) \/ x \in Shares}

\* In the order of the ids, which are hashes.
Explored(rest) ==
    {x \in rest : Cardinality({y \in rest : About[y].hash < About[x].hash}) < Exploration}

\* The first telling of each story, in a given order.
FirstTellings(S, score, day) ==
    {x \in S : \A y \in S : Story(y) = Story(x) => ~Ahead(score, day, y, x)}

CandidatePool(S, day) ==
    LET base == Baseline[day]
        top == First(BaselineTop, S, base, day)
        chosen == top \cup DiverseSample(S, base, day) \cup NewTopics(S, top)
        reasoned == chosen \cup Explored(S \ chosen)
    IN  First(MaxCandidates, FirstTellings(reasoned, base, day), base, day)

-----------------------------------------------------------------------------
(* The assessments *)

\* At most 4.5: the weights add up to one with the penalty among them.
AgentComponent(a) ==
    LET adjusted == 35 * a.relevance + 20 * a.novelty + 20 * a.credibility
                        + 15 * a.urgency - 10 * a.counter
    IN  IF adjusted < 0 THEN 0 ELSE 5 * adjusted

\* Mutant: the two weights are swapped.
ComposeSwapped(i, day, a) ==
    IF a = None THEN 100 * Baseline[day][i]
    ELSE (3500 * Baseline[day][i] + 65 * AgentComponent(a) + 50) \div 100

ComposeFinalScore(i, day, a) ==
    IF a = None THEN 100 * Baseline[day][i]
    ELSE (6500 * Baseline[day][i] + 35 * AgentComponent(a) + 50) \div 100

\* Three or more assessments that are all nearly perfect.
Suspicious(opinion) ==
    LET valid == {i \in DOMAIN opinion : opinion[i] # None}
    IN  /\ Cardinality(valid) >= 3
        /\ \A i \in valid : /\ \A d \in Dimensions \ {"counter"} : opinion[i][d] >= 95
                            /\ opinion[i].counter <= 5

\* The assessments that count: none outside the pool, none of a rejected batch.
Counted(opinion) ==
    LET usable == IF Suspicious(opinion) THEN {} ELSE DOMAIN opinion
    IN  [i \in Items |-> IF i \in usable THEN opinion[i] ELSE None]

FinalScore(opinion, day) ==
    LET counted == Counted(opinion)
    IN  [i \in Items |-> ComposeFinalScore(i, day, counted[i])]

\* Mutant: a later telling with the same score replaces an earlier one.
LaterTellings(S, score, base, day) ==
    {x \in S : \A y \in S \ {x} : Story(y) = Story(x) =>
        \/ score[x] > score[y]
        \/ score[x] = score[y] /\ Ahead(base, day, y, x)}

\* Mutant: as build_signals does, no story is merged.
AllTellings(S, score, base, day) == S

\* One telling of each story: the highest score, the first of the baseline
\* among equals.
BestTellings(S, score, base, day) ==
    {x \in S : \A y \in S \ {x} : Story(y) = Story(x) =>
        \/ score[x] > score[y]
        \/ score[x] = score[y] /\ Ahead(base, day, x, y)}

\* The items of a list that the final scores order.
Rank(S, score, day) ==
    First(TopN, BestTellings(S, score, Baseline[day], day), score, day)

=============================================================================
