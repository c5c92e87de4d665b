--------------------------- MODULE Pipeline_proofs ---------------------------
(***************************************************************************)
(* Proofs about Pipeline: for any items, feeds, pages, weights of a        *)
(* ranking, days and refreshes.                                            *)
(***************************************************************************)
EXTENDS Pipeline, Ranking_proofs

\* What a refresh holds between its steps.
USE DEF work, setup, files, store, results

-----------------------------------------------------------------------------
(* Types *)

LEMMA DaysAre == Days \subseteq Nat /\ 1 \in Days /\ MaxDay \in Nat
  BY RankingAssumption DEF Days

LEMMA RunsAre == Runs \subseteq Nat /\ MaxRuns \in Nat
  BY PipelineAssumption DEF Runs

LEMMA NothingTyped ==
    /\ NoRecords \in RecordFiles /\ NoList \in Lists
    /\ NoOpinion \in [{} -> Opinions \cup {None}]
  <1>1. NoRecords \in RecordFiles
    BY DEF NoRecords, RecordFiles
  <1>2. 0 \in 0..MaxScore
    BY MaxScoreIs
  <1>3. NoList \in Lists
    BY <1>2 DEF NoList, Lists
  <1>4. NoOpinion \in [{} -> Opinions \cup {None}]
    BY DEF NoOpinion
  <1> QED
    BY <1>1, <1>3, <1>4

LEMMA InitTyped == Init => TypeOK
  <1> SUFFICES ASSUME Init PROVE TypeOK
    OBVIOUS
  <1>1. opinion \in [pool -> Opinions \cup {None}]
    <2>1. pool = {} /\ opinion = NoOpinion
      BY DEF Init, NothingDone
    <2> QED
      BY <2>1, NothingTyped
  <1>2. ranked \in Lists /\ records \in [Days -> RecordFiles]
    BY NothingTyped DEF Init, NothingDone
  <1>3. day \in Days /\ date \in Days /\ asOf \in Days
    BY DaysAre DEF Init, NothingDone
  <1>4. run \in 0..MaxRuns /\ latest \in [run : 0..MaxRuns, mode : Modes, items : SUBSET Items]
    BY RunsAre DEF Init, Modes
  <1> QED
    BY <1>1, <1>2, <1>3, <1>4 DEF Init, NothingDone, TypeOK, Modes

\* The end of a refresh leaves what it held well typed.
LEMMA EndTyped ==
    ASSUME End
    PROVE  /\ pc' = "idle" /\ mode' \in Modes /\ inboxOn' \in BOOLEAN /\ asked' \subseteq Shares
           /\ fetched' \subseteq Entries
           /\ {canonical', pending', baseline', pool'} \subseteq SUBSET Items
           /\ opinion' \in [pool' -> Opinions \cup {None}]
           /\ date' \in Days /\ asOf' \in Days
           /\ ranked' \in Lists
  <1>1. opinion' \in [pool' -> Opinions \cup {None}]
    <2>1. pool' = {} /\ opinion' = NoOpinion
      BY DEF End
    <2> QED
      BY <2>1, NothingTyped
  <1>2. ranked' \in Lists
    BY NothingTyped DEF End
  <1>3. date' \in Days /\ asOf' \in Days
    BY DaysAre DEF End
  <1> QED
    BY <1>1, <1>2, <1>3 DEF End, Modes

LEMMA IngestedTyped ==
    ASSUME NEW raw \in SUBSET Entries, NEW known
    PROVE  Ingested(raw, known) \subseteq raw
  BY DEF Ingested

LEMMA EligibleTyped ==
    ASSUME NEW batch
    PROVE  Eligible(batch) \subseteq batch
  BY DEF Eligible

LEMMA ItemsCounted ==
    ASSUME NEW S \in SUBSET Items
    PROVE  IsFiniteSet(S) /\ Cardinality(S) \in Nat
  BY ItemsAre, FS_Subset, FS_CardinalityType

LEMMA LinesTyped ==
    ASSUME TypeOK, run \in Runs, NEW S \in SUBSET Items
    PROVE  LinesOf(S) \subseteq Lines
  BY DEF LinesOf, Lines

\* A refresh in progress has a number.
Numbered == pc # "idle" => run \in Runs

LEMMA RecordTyped ==
    ASSUME TypeOK, run \in Runs, NEW f \in RecordFiles
    PROVE  RecordWritten(f) \in RecordFiles
  <1>1. Cardinality(pending) \in Nat
    BY ItemsCounted DEF TypeOK
  <1>2. run \in Nat
    BY RunsAre
  <1> QED
    BY <1>1, <1>2 DEF RecordWritten, RecordFiles

LEMMA RanksTyped ==
    ASSUME NEW S \in SUBSET Items, NEW score, NEW d
    PROVE  Rank(S, score, d) \subseteq S
  BY FirstAre, BestAre DEF Rank

LEMMA StepTyped == TypeOK /\ Numbered /\ [Next]_vars => (TypeOK /\ Numbered)'
  <1> SUFFICES ASSUME TypeOK, Numbered, [Next]_vars
               PROVE  (TypeOK /\ Numbered)'
    OBVIOUS
  <1> USE RunsAre, DaysAre DEF Numbered
  <1> HIDE DEF Lists, RecordFiles, Modes, Lines, Runs, Days
  <1>1. CASE UNCHANGED vars
    BY <1>1 DEF vars, TypeOK
  <1>2. CASE Midnight
    BY <1>2 DEF Midnight, TypeOK, Days
  <1>3. ASSUME NEW s \in Shares, Submit(s) PROVE (TypeOK /\ Numbered)'
    BY <1>3 DEF Submit, TypeOK
  <1>4. CASE Start
    <2>1. run' \in Runs
      BY <1>4 DEF Start, TypeOK, Runs
    <2>2. mode' \in Modes /\ inboxOn' \in BOOLEAN /\ asked' \subseteq Shares
      BY <1>4 DEF Start, TypeOK
    <2>3. run' \in 0..MaxRuns
      BY <2>1 DEF Runs
    <2> QED
      BY <1>4, <2>1, <2>2, <2>3 DEF Start, TypeOK
  <1>5. CASE Collect
    <2>1. \A f : Parsed(f) \subseteq Entries
      BY DEF Parsed
    <2>2. fetched' \subseteq Entries
      BY <1>5, <2>1 DEF Collect
    <2> QED
      BY <1>5, <2>2 DEF Collect, TypeOK
  <1>6. CASE Ingest
    <2>1. canonical' \subseteq Items
      BY <1>6, IngestedTyped DEF Ingest, TypeOK, Items
    <2> QED
      BY <1>6, <2>1 DEF Ingest, TypeOK
  <1>7. CASE MergeInbox
    <2>1. canonical' \subseteq Items
      BY <1>7 DEF MergeInbox, Merged, TypeOK, Items
    <2> QED
      BY <1>7, <2>1 DEF MergeInbox, TypeOK
  <1>8. CASE OpenStore
    <2>1. pending' \subseteq Items /\ date' \in Days
      BY <1>8 DEF OpenStore, PartitionDate, TypeOK
    <2> QED
      BY <1>8, <2>1 DEF OpenStore, TypeOK
  <1>9. CASE RefuseStore
    BY <1>9, EndTyped DEF RefuseStore, TypeOK
  <1>10. CASE AppendItems
    <2>1. LinesOf(pending) \subseteq Lines
      BY <1>10, LinesTyped DEF AppendItems, TypeOK
    <2>2. stored' \in [Days -> SUBSET Lines]
      BY <1>10, <2>1 DEF AppendItems, TypeOK
    <2>3. tail' \in [Days -> {"clean", "bare", "broken"}]
      BY <1>10 DEF AppendItems, TailAfter, TypeOK
    <2> QED
      BY <1>10, <2>2, <2>3 DEF AppendItems, TypeOK
  <1>11. CASE AppendRecord
    <2>1. RecordWritten(records[date]) \in RecordFiles
      BY <1>11, RecordTyped DEF AppendRecord, TypeOK
    <2>2. records' \in [Days -> RecordFiles]
      BY <1>11, <2>1 DEF AppendRecord, TypeOK
    <2>3. storedOn' \in [Runs -> Days \cup {0}]
      BY <1>11 DEF AppendRecord, TypeOK
    <2> QED
      BY <1>11, <2>2, <2>3 DEF AppendRecord, TypeOK
  <1>12. CASE Score
    <2>1. baseline' \subseteq Items
      BY <1>12, FirstAre, EligibleTyped DEF Score, TypeOK
    <2>2. ranked' \in Lists
      <3>1. ASSUME NEW i \in Items PROVE 100 * Baseline[day][i] \in 0..MaxScore
        BY HundredTyped DEF TypeOK
      <3> QED
        BY <1>12, <2>1, <3>1 DEF Score, Lists
    <2> QED
      BY <1>12, <2>1, <2>2 DEF Score, TypeOK
  <1>13. CASE Assess
    <2>1. asOf \in Days /\ RankedAt = asOf
      BY DEF TypeOK, RankedAt
    <2>2. Eligible(canonical) \in SUBSET Items
      BY EligibleTyped DEF TypeOK
    <2>3. pool' \subseteq Items
      BY <1>13, <2>1, <2>2, PoolIsSound DEF Assess
    <2>4. opinion' \in [pool' -> Opinions \cup {None}]
      BY <1>13 DEF Assess
    <2>5. opinion' \in Answers
      BY <2>3, <2>4 DEF Answers
    <2>6. FinalScore(opinion', asOf) \in [Items -> 0..MaxScore]
      BY <2>1, <2>5, ScoresAreInRange
    <2>7. ranked' \in Lists
      BY <1>13, <2>1, <2>2, <2>6, RanksTyped DEF Assess, Lists
    <2> QED
      BY <1>13, <2>3, <2>4, <2>7 DEF Assess, TypeOK
  <1>14. CASE Publish
    <2>1. ranked.items \subseteq Items
      BY DEF TypeOK, Lists
    <2>2. latest' \in [run : 0..MaxRuns, mode : Modes, items : SUBSET Items]
      BY <1>14, <2>1 DEF Publish, TypeOK
    <2> QED
      BY <1>14, <2>2, EndTyped DEF Publish, TypeOK
  <1>15. CASE Abandon
    BY <1>15, EndTyped DEF Abandon, TypeOK
  <1>18. CASE AssessDegrades
    BY <1>18 DEF AssessDegrades, TypeOK, Modes
  <1>16. CASE CutItems
    <2>1. PICK whole \in SUBSET pending, end \in {"clean", "bare", "broken"} :
            /\ stored' = [stored EXCEPT ![date] = @ \cup LinesOf(whole)]
            /\ tail' = [tail EXCEPT ![date] =
                  IF TailAfter(whole) = "broken" \/ (@ = "bare" /\ end = "broken")
                  THEN "broken"
                  ELSE IF whole = {} /\ end = "clean" THEN @ ELSE end]
      BY <1>16 DEF CutItems
    <2>2. LinesOf(whole) \subseteq Lines
      BY <1>16, LinesTyped DEF CutItems, TypeOK
    <2>3. stored' \in [Days -> SUBSET Lines]
      BY <2>1, <2>2 DEF TypeOK
    <2>4. tail' \in [Days -> {"clean", "bare", "broken"}]
      BY <2>1 DEF TypeOK
    <2>5. hurt' \subseteq Days
      BY <1>16 DEF CutItems, TypeOK
    <2> QED
      BY <1>16, <2>3, <2>4, <2>5, EndTyped DEF CutItems, TypeOK
  <1>17. CASE CutRecord
    <2>1. RecordWritten(records[date]) \in RecordFiles
      BY <1>17, RecordTyped DEF CutRecord, TypeOK
    <2>2. records' \in [Days -> RecordFiles]
      <3> DEFINE f == records[date]
                 w == RecordWritten(f)
      <3>1. f \in RecordFiles /\ records \in [Days -> RecordFiles] /\ date \in Days
        BY DEF TypeOK
      <3>2. [f EXCEPT !.made = TRUE] \in RecordFiles
        BY <3>1 DEF RecordFiles
      <3>3. [w EXCEPT !.open = TRUE] \in RecordFiles
        BY <2>1 DEF RecordFiles
      <3>4. [w EXCEPT !.runs = {e \in w.runs : e.run # run}, !.ok = FALSE, !.open = TRUE]
              \in RecordFiles
        <4>1. w \in RecordFiles
          BY <2>1
        <4> HIDE DEF w
        <4>2. {e \in w.runs : e.run # run} \in SUBSET [run : Runs, appended : Nat]
          BY <4>1 DEF RecordFiles
        <4> QED
          BY <4>1, <4>2 DEF RecordFiles
      <3>5. \/ records' = records
            \/ records' = [records EXCEPT ![date] = [f EXCEPT !.made = TRUE]]
            \/ records' = [records EXCEPT ![date] =
                  [w EXCEPT !.runs = {e \in w.runs : e.run # run}, !.ok = FALSE, !.open = TRUE]]
            \/ records' = [records EXCEPT ![date] = [w EXCEPT !.open = TRUE]]
        BY <1>17, <3>1 DEF CutRecord
      <3> HIDE DEF f, w
      <3> QED
        BY <3>1, <3>2, <3>3, <3>4, <3>5
    <2>3. hurt' \subseteq Days
      BY <1>17 DEF CutRecord, TypeOK
    <2> QED
      BY <1>17, <2>2, <2>3, EndTyped DEF CutRecord, TypeOK
  <1> QED
    BY <1>1, <1>2, <1>3, <1>4, <1>5, <1>6, <1>7, <1>8, <1>9, <1>10, <1>11, <1>12, <1>13,
       <1>14, <1>15, <1>16, <1>17, <1>18 DEF Next

\* Every variable of a refresh keeps its type.
THEOREM TypeCorrect == Spec => []TypeOK
  <1>1. Init => TypeOK /\ Numbered
    BY InitTyped DEF Init, Numbered
  <1> QED
    BY <1>1, StepTyped, PTL DEF Spec

-----------------------------------------------------------------------------
(* The steps, as far as the proofs tell them apart *)

\* Time passes, a page is shared.
Outside ==
    /\ UNCHANGED <<pc, run, work, store, latest, storedOn, hurt, refused>>
    /\ inbox \subseteq inbox' /\ day' >= day

\* A refresh ends without touching the store.
Stops ==
    /\ RefuseStore \/ Publish \/ Abandon
    /\ pc # "idle" /\ End
    /\ UNCHANGED <<day, inbox, run, store, storedOn, hurt>>

Steps ==
    \/ Outside \/ Start \/ Collect \/ Ingest \/ MergeInbox \/ OpenStore \/ Stops
    \/ AppendItems \/ AppendRecord \/ Score \/ Assess \/ AssessDegrades
    \/ CutItems \/ CutRecord

LEMMA StepIs ==
    ASSUME TypeOK, [Next]_vars
    PROVE  Steps
  <1>1. day \in Nat
    BY DaysAre DEF TypeOK
  <1>2. CASE UNCHANGED vars
    BY <1>1, <1>2 DEF vars, Steps, Outside
  <1>3. CASE Midnight
    BY <1>1, <1>3 DEF Midnight, Steps, Outside
  <1>4. ASSUME NEW s \in Shares, Submit(s) PROVE Steps
    BY <1>1, <1>4 DEF Submit, Steps, Outside
  <1>5. CASE RefuseStore
    BY <1>5 DEF RefuseStore, Steps, Stops
  <1>6. CASE Publish
    BY <1>6 DEF Publish, Steps, Stops
  <1>7. CASE Abandon
    BY <1>7 DEF Abandon, Steps, Stops
  <1> QED
    BY <1>2, <1>3, <1>4, <1>5, <1>6, <1>7 DEF Next, Steps

-----------------------------------------------------------------------------
(* The damage of a crash or of a text *)

\* Only a cut, or a text that is read as two lines, leaves a file that is not
\* clean.
TailInv ==
    /\ DamageStaysInItsDay
    /\ \A d \in Days : tail[d] # "clean" => d \in hurt \/ HoldsSplit(d)

\* The daily files only grow.
LEMMA FilesGrow ==
    ASSUME TypeOK, [Next]_vars
    PROVE  \A d \in Days : stored[d] \subseteq stored'[d]
  <1>1. stored \in [Days -> SUBSET Lines]
    BY DEF TypeOK
  <1>2. CASE Stops \/ CutRecord \/ Outside \/ Start \/ Collect \/ Ingest \/ MergeInbox
    BY <1>2 DEF Stops, CutRecord, Outside, Start, Collect, Ingest, MergeInbox
  <1>3. CASE OpenStore \/ AppendRecord \/ Score \/ Assess \/ AssessDegrades
    BY <1>3 DEF OpenStore, AppendRecord, Score, Assess, AssessDegrades
  <1>4. CASE AppendItems \/ CutItems
    <2>1. PICK S : stored' = [stored EXCEPT ![date] = @ \cup LinesOf(S)]
      BY <1>4 DEF AppendItems, CutItems
    <2> QED
      BY <1>1, <2>1
  <1> QED
    BY <1>2, <1>3, <1>4, StepIs DEF Steps

LEMMA SplitsStay ==
    ASSUME TypeOK, [Next]_vars, NEW d \in Days, HoldsSplit(d)
    PROVE  HoldsSplit(d)'
  BY FilesGrow DEF HoldsSplit

LEMMA TailStep == TypeOK /\ TailInv /\ [Next]_vars => TailInv'
  <1> SUFFICES ASSUME TypeOK, TailInv, [Next]_vars PROVE TailInv'
    OBVIOUS
  <1> HIDE DEF Lists, RecordFiles, Modes, Lines, Runs, Days
  <1>1. /\ tail \in [Days -> {"clean", "bare", "broken"}]
        /\ stored \in [Days -> SUBSET Lines]
        /\ date \in Days /\ day \in Days /\ refused \subseteq Days
    BY DEF TypeOK
  <1>2. \A d \in Days : HoldsSplit(d) => HoldsSplit(d)'
    BY SplitsStay
  \* A day that was damaged stays so.
  <1>3. ASSUME hurt \subseteq hurt', refused' = refused,
               \A d \in Days : tail'[d] # "clean" =>
                  tail[d] # "clean" \/ d \in hurt' \/ HoldsSplit(d)'
        PROVE  TailInv'
    BY <1>1, <1>2, <1>3 DEF TailInv, DamageStaysInItsDay
  <1>4. CASE Stops
    <2>1. hurt' = hurt /\ tail' = tail
      BY <1>4 DEF Stops
    <2>2. refused' = refused \/ (refused' = refused \cup {day} /\ tail[day] = "broken")
      BY <1>4 DEF Stops, RefuseStore, Publish, Abandon, PartitionDate
    <2>3. \A d \in refused' : d \in hurt' \/ HoldsSplit(d)'
      BY <1>1, <1>2, <2>1, <2>2 DEF TailInv, DamageStaysInItsDay
    <2> QED
      BY <1>2, <2>1, <2>3 DEF TailInv, DamageStaysInItsDay
  <1>5. CASE AppendItems
    <2>1. /\ tail' = [tail EXCEPT ![date] = TailAfter(pending)]
          /\ stored' = [stored EXCEPT ![date] = @ \cup LinesOf(pending)]
          /\ hurt' = hurt /\ refused' = refused
      BY <1>5 DEF AppendItems
    <2>2. TailAfter(pending) # "clean" =>
             tail[date] # "clean" \/ \E i \in pending : i \in Splits
      BY DEF TailAfter
    <2>3. ASSUME NEW i \in pending, i \in Splits PROVE HoldsSplit(date)'
      <3>1. [item |-> i, run |-> run] \in stored'[date]
        BY <1>1, <2>1 DEF LinesOf
      <3>2. [item |-> i, run |-> run].item = i
        OBVIOUS
      <3>3. \E l \in stored'[date] : l.item \in Splits
        BY <2>3, <3>1, <3>2
      <3>4. date' = date
        BY <1>5 DEF AppendItems
      <3> QED
        BY <3>3, <3>4 DEF HoldsSplit
    <2>4. date' = date
      BY <1>5 DEF AppendItems
    <2>5. ASSUME NEW d \in Days, tail'[d] # "clean"
          PROVE  tail[d] # "clean" \/ d \in hurt' \/ HoldsSplit(d)'
      <3>1. CASE d = date
        BY <1>1, <2>1, <2>2, <2>3, <2>4, <2>5, <3>1
      <3>2. CASE d # date
        BY <1>1, <2>1, <2>5, <3>2
      <3> QED
        BY <3>1, <3>2
    <2> QED
      BY <1>3, <2>1, <2>5
  <1>6. CASE CutItems
    <2>1. hurt' = hurt \cup {date} /\ refused' = refused
      BY <1>6 DEF CutItems
    <2>2. \A d \in Days : d # date => tail'[d] = tail[d]
      BY <1>1, <1>6 DEF CutItems
    <2> QED
      BY <1>3, <2>1, <2>2
  <1>7. CASE CutRecord
    BY <1>3, <1>7 DEF CutRecord
  <1>8. CASE Outside \/ Start \/ Collect \/ Ingest \/ MergeInbox \/ OpenStore
    <2>1. UNCHANGED <<tail, hurt, refused>>
      BY <1>8 DEF Outside, Start, Collect, Ingest, MergeInbox, OpenStore
    <2> QED
      BY <1>3, <2>1
  <1>9. CASE AppendRecord \/ Score \/ Assess \/ AssessDegrades
    <2>1. UNCHANGED <<tail, hurt, refused>>
      BY <1>9 DEF AppendRecord, Score, Assess, AssessDegrades
    <2> QED
      BY <1>3, <2>1
  <1> QED
    BY <1>4, <1>5, <1>6, <1>7, <1>8, <1>9, StepIs DEF Steps

LEMMA TailHolds == Spec => [](TypeOK /\ TailInv)
  <1>1. Init => TypeOK /\ TailInv
    BY InitTyped DEF Init, TailInv, DamageStaysInItsDay
  <1> QED
    BY <1>1, TailStep, TypeCorrect, PTL DEF Spec

\* A store finds a day's file unreadable only if an append of that day was cut
\* off or a text with a line separator was stored on it, however many refreshes
\* and days follow (store_canonical_jsonl.py:17-27, 37-44).
THEOREM DamageIsContained == Spec => []DamageStaysInItsDay
  <1>1. TailInv => DamageStaysInItsDay
    BY DEF TailInv
  <1> QED
    BY <1>1, TailHolds, PTL

-----------------------------------------------------------------------------
(* Identity *)

\* An entry has its dedupe key for an id; a page has an id of its own.
LEMMA IdsDiffer ==
    /\ \A i \in Items \ Shares : Id(i) = DedupeKey(i)
    /\ \A s \in Shares, i \in Items : Id(s) = Id(i) => s = i
  BY DEF Id, DedupeKey

\* The items of a batch have different ids, two with one dedupe key only if one
\* of them is a page.
Apart(S) ==
    \A i, j \in S : i # j =>
        /\ Id(i) # Id(j)
        /\ DedupeKey(i) = DedupeKey(j) => {i, j} \cap Shares # {}

LEMMA IngestedAreApart ==
    ASSUME NEW raw \in SUBSET Entries, NEW known
    PROVE  Apart(Ingested(raw, known))
  <1> SUFFICES ASSUME NEW i \in Ingested(raw, known), NEW j \in Ingested(raw, known),
                      i # j, DedupeKey(i) = DedupeKey(j)
               PROVE  FALSE
    <2>1. \A i \in Ingested(raw, known) : i \in Items \ Shares
      BY RankingAssumption, IngestedTyped DEF Items
    <2> QED
      BY <2>1, IdsDiffer DEF Apart
  <1>1. About[i].position < About[j].position /\ About[j].position < About[i].position
    BY DEF Ingested
  <1>2. About[i].position \in Nat /\ About[j].position \in Nat
    BY PipelineAssumption, IngestedTyped
  <1> QED
    BY <1>1, <1>2

LEMMA MergedAreApart ==
    ASSUME Apart(canonical), canonical \subseteq Items, NEW pages \in SUBSET Shares
    PROVE  Apart(canonical \cup Merged(pages))
  <1>1. \A i \in canonical, s \in Merged(pages) : Id(i) # Id(s)
    BY DEF Merged, Ids
  <1>2. \A s \in Merged(pages) : s \in Shares /\ s \in Items
    BY DEF Merged, Items
  <1>3. \A s, t \in Merged(pages) : s # t => Id(s) # Id(t)
    BY <1>2, IdsDiffer
  <1> QED
    BY <1>1, <1>2, <1>3 DEF Apart

HandoffInv ==
    pc \in {"merge", "store", "append", "record", "score", "assess", "publish"} =>
        Apart(canonical)

LEMMA HandoffStep == TypeOK /\ HandoffInv /\ [Next]_vars => HandoffInv'
  <1> SUFFICES ASSUME TypeOK, HandoffInv, [Next]_vars PROVE HandoffInv'
    OBVIOUS
  <1> HIDE DEF Lists, RecordFiles, Modes, Lines, Runs, Days
  <1>1. CASE Ingest
    <2>1. PICK known : canonical' = Ingested(fetched, known)
      BY <1>1 DEF Ingest
    <2>2. Apart(canonical')
      BY <2>1, IngestedAreApart DEF TypeOK
    <2> QED
      BY <2>2 DEF HandoffInv, Apart
  <1>2. CASE MergeInbox
    <2>1. Apart(canonical')
      BY <1>2, MergedAreApart DEF MergeInbox, HandoffInv, TypeOK
    <2> QED
      BY <2>1 DEF HandoffInv, Apart
  <1>3. CASE Stops \/ CutItems \/ CutRecord
    BY <1>3 DEF Stops, CutItems, CutRecord, End, HandoffInv
  <1>4. CASE Outside \/ Start \/ Collect
    BY <1>4 DEF Outside, Start, Collect, HandoffInv, Apart
  <1>5. CASE OpenStore \/ AppendItems \/ AppendRecord \/ Score \/ Assess \/ AssessDegrades
    BY <1>5 DEF OpenStore, AppendItems, AppendRecord, Score, Assess, AssessDegrades, HandoffInv, Apart
  <1> QED
    BY <1>1, <1>2, <1>3, <1>4, <1>5, StepIs DEF Steps

LEMMA HandoffHolds == Spec => []HandoffInv
  <1>1. Init => HandoffInv
    BY DEF Init, HandoffInv
  <1> QED
    BY <1>1, HandoffStep, TypeCorrect, PTL DEF Spec

\* Whatever the feeds bring and the users share, the batch that is stored and
\* scored has different ids, and a dedupe key twice only because of a page
\* (ingest_adapter_output.py:182-221, workflow.py:713-728).
THEOREM HandoffIsSound == Spec => []HandoffHasNoTwins
  <1>1. HandoffInv => HandoffHasNoTwins
    BY DEF HandoffInv, HandoffHasNoTwins, Apart
  <1> QED
    BY <1>1, HandoffHolds, PTL

-----------------------------------------------------------------------------
(* The daily store *)

\* A day's file has no id twice, whatever refreshes of that day were cut off
\* and made again.
OncePerDay ==
    \A d \in Days : \A k, l \in stored[d] : Id(k.item) = Id(l.item) => k = l

\* The lines are of refreshes that began, and of earlier ones until it appends;
\* what it appends is what the file lacks; after that the file lacks nothing.
StoreInv ==
    /\ OncePerDay
    /\ \A d \in Days : \A l \in stored[d] :
          /\ l.run <= run
          /\ pc \in {"collect", "ingest", "merge", "store", "append"} => l.run < run
    /\ pc = "append" => pending = {i \in canonical : Id(i) \notin ExistingIds(date)}
    /\ pc \in {"record", "score", "assess", "publish"} =>
          \A i \in canonical : Id(i) \in ExistingIds(date)

\* Any of the pending items may be appended.
LEMMA AppendKeepsIds ==
    ASSUME TypeOK, HandoffInv, StoreInv, pc = "append", run' = run,
           NEW S \in SUBSET pending,
           stored' = [stored EXCEPT ![date] = @ \cup LinesOf(S)]
    PROVE  /\ OncePerDay'
           /\ \A d \in Days : \A l \in stored'[d] : l.run <= run'
  <1> USE DEF TypeOK
  <1> HIDE DEF Lists, RecordFiles, Modes, Lines, Runs, Days
  <1>1. /\ stored'[date] = stored[date] \cup LinesOf(S)
        /\ \A d \in Days : d # date => stored'[d] = stored[d]
    OBVIOUS
  <1>2. \A l \in LinesOf(S) : l.run = run /\ l.item \in S /\ l = [item |-> l.item, run |-> run]
    BY DEF LinesOf
  <1>3. \A k, l \in LinesOf(S) : Id(k.item) = Id(l.item) => k = l
    <2>1. \A i, j \in S : Id(i) = Id(j) => i = j
      BY DEF HandoffInv, StoreInv, Apart
    <2> HIDE DEF TypeOK
    <2> QED
      BY <1>2, <2>1
  <1>4. \A k \in stored[date], l \in LinesOf(S) : Id(k.item) # Id(l.item)
    <2>1. \A i \in S : Id(i) \notin ExistingIds(date)
      BY DEF StoreInv
    <2> QED
      BY <1>2, <2>1 DEF ExistingIds
  <1>5. \A k, l \in stored'[date] : Id(k.item) = Id(l.item) => k = l
    <2>1. \A k, l \in stored[date] : Id(k.item) = Id(l.item) => k = l
      BY DEF StoreInv, OncePerDay
    <2> HIDE DEF TypeOK
    <2> QED
      BY <1>1, <1>3, <1>4, <2>1
  <1>6. OncePerDay'
    <2>1. \A d \in Days : d # date =>
             \A k, l \in stored'[d] : Id(k.item) = Id(l.item) => k = l
      BY <1>1 DEF StoreInv, OncePerDay
    <2> QED
      BY <1>5, <2>1 DEF OncePerDay
  <1>7. \A d \in Days : \A l \in stored'[d] : l.run <= run'
    <2>1. \A l \in LinesOf(S) : l.run <= run
      BY <1>2, RunsAre
    <2>2. \A d \in Days : \A l \in stored[d] : l.run <= run
      BY DEF StoreInv
    <2> HIDE DEF TypeOK
    <2> QED
      BY <1>1, <2>1, <2>2
  <1> QED
    BY <1>6, <1>7

LEMMA StoreStep ==
    TypeOK /\ Numbered /\ HandoffInv /\ StoreInv /\ [Next]_vars => StoreInv'
  <1> SUFFICES ASSUME TypeOK, Numbered, HandoffInv, StoreInv, [Next]_vars PROVE StoreInv'
    OBVIOUS
  <1> HIDE DEF Lists, RecordFiles, Modes, Lines, Runs, Days
  <1>1. /\ run \in Nat /\ date \in Days /\ stored \in [Days -> SUBSET Lines]
        /\ \A d \in Days : \A l \in stored[d] : l.run \in Nat
    <2>1. run \in Nat /\ date \in Days /\ stored \in [Days -> SUBSET Lines]
      BY RunsAre DEF TypeOK
    <2>2. \A l \in Lines : l.run \in Nat
      BY RunsAre DEF Lines
    <2> QED
      BY <2>1, <2>2
  <1>2. CASE Start
    BY <1>1, <1>2 DEF Start, StoreInv, OncePerDay
  <1>3. CASE Stops
    BY <1>3 DEF Stops, End, StoreInv, OncePerDay
  <1>4. CASE OpenStore
    <2>1. pending' = {i \in canonical : Id(i) \notin ExistingIds(date')} /\ pc' = "append"
          /\ UNCHANGED <<run, canonical, stored>> /\ pc = "store"
      BY <1>4 DEF OpenStore
    <2>2. (pending = {i \in canonical : Id(i) \notin ExistingIds(date)})'
      BY <2>1 DEF ExistingIds
    <2> QED
      BY <2>1, <2>2 DEF StoreInv, OncePerDay
  <1>5. CASE AppendItems
    <2>1. pc = "append" /\ run' = run /\ canonical' = canonical /\ date' = date /\ pc' = "record"
          /\ stored' = [stored EXCEPT ![date] = @ \cup LinesOf(pending)]
      BY <1>5 DEF AppendItems
    <2>2. OncePerDay' /\ \A d \in Days : \A l \in stored'[d] : l.run <= run'
      BY <2>1, AppendKeepsIds
    <2>3. stored'[date] = stored[date] \cup LinesOf(pending)
      BY <1>1, <2>1
    <2>4. ASSUME NEW i \in canonical PROVE \E l \in stored'[date] : Id(l.item) = Id(i)
      <3>1. CASE i \in pending
        <4>1. [item |-> i, run |-> run] \in LinesOf(pending)
          BY <3>1 DEF LinesOf
        <4>2. [item |-> i, run |-> run].item = i
          OBVIOUS
        <4> QED
          BY <2>3, <4>1, <4>2
      <3>2. CASE i \notin pending
        <4>1. Id(i) \in ExistingIds(date)
          BY <2>1, <3>2 DEF StoreInv
        <4>2. \E l \in stored[date] : Id(l.item) = Id(i)
          BY <4>1 DEF ExistingIds
        <4> QED
          BY <2>3, <4>2
      <3> QED
        BY <3>1, <3>2
    <2>5. \A i \in canonical' : Id(i) \in {Id(l.item) : l \in stored'[date']}
      BY <2>1, <2>4
    <2> QED
      BY <2>1, <2>2, <2>5 DEF StoreInv, ExistingIds
  <1>6. CASE CutItems
    <2>1. PICK whole \in SUBSET pending :
             stored' = [stored EXCEPT ![date] = @ \cup LinesOf(whole)]
      BY <1>6 DEF CutItems
    <2>2. pc = "append" /\ run' = run /\ pc' = "idle"
      BY <1>6 DEF CutItems, End
    <2>3. OncePerDay' /\ \A d \in Days : \A l \in stored'[d] : l.run <= run'
      BY <2>1, <2>2, AppendKeepsIds
    <2> QED
      BY <2>2, <2>3 DEF StoreInv
  <1>7. CASE CutRecord
    BY <1>7 DEF CutRecord, End, StoreInv, OncePerDay
  <1>8. CASE Outside
    BY <1>8 DEF Outside, StoreInv, OncePerDay, ExistingIds
  <1>9. CASE Collect \/ Ingest \/ MergeInbox
    BY <1>9 DEF Collect, Ingest, MergeInbox, StoreInv, OncePerDay
  <1>10. CASE AppendRecord
    BY <1>10 DEF AppendRecord, StoreInv, OncePerDay, ExistingIds
  <1>11. CASE Score \/ Assess \/ AssessDegrades
    BY <1>11 DEF Score, Assess, AssessDegrades, StoreInv, OncePerDay, ExistingIds
  <1> QED
    BY <1>2, <1>3, <1>4, <1>5, <1>6, <1>7, <1>8, <1>9, <1>10, <1>11, StepIs DEF Steps

LEMMA NumbersHold == Spec => [](TypeOK /\ Numbered)
  <1>1. Init => TypeOK /\ Numbered
    BY InitTyped DEF Init, Numbered
  <1> QED
    BY <1>1, StepTyped, PTL DEF Spec

LEMMA StoreHolds == Spec => []StoreInv
  <1>1. Init => StoreInv
    BY DEF Init, StoreInv, OncePerDay
  <1> QED
    BY <1>1, StoreStep, NumbersHold, HandoffHolds, PTL DEF Spec

\* However many refreshes of a day are cut off and made again, its file has no
\* id twice (store_canonical_jsonl.py:47-64).
THEOREM IdsAreStoredOnce == Spec => []OncePerDay
  <1>1. StoreInv => OncePerDay
    BY DEF StoreInv
  <1> QED
    BY <1>1, StoreHolds, PTL

-----------------------------------------------------------------------------
(* The run records *)

\* The lines a refresh appended, of a day.
LinesBy(r, d) == {l \in stored[d] : l.run = r}

\* The records are of refreshes that reached the append of theirs.
RecordInv ==
    /\ \A d \in Days : \A e \in records[d].runs :
          /\ e.run <= run /\ Cardinality(LinesBy(e.run, d)) = e.appended
          /\ pc \in {"collect", "ingest", "merge", "store", "append", "record"} =>
                e.run < run
    /\ pc = "record" => LinesBy(run, date) = LinesOf(pending)

LEMMA LinesAreCounted ==
    ASSUME TypeOK, run \in Runs
    PROVE  Cardinality(LinesOf(pending)) = Cardinality(pending)
  <1> DEFINE f == [i \in pending |-> [item |-> i, run |-> run]]
  <1>1. IsFiniteSet(pending)
    BY ItemsCounted DEF TypeOK
  <1>2. f \in Bijection(pending, LinesOf(pending))
    <2>1. f \in [pending -> LinesOf(pending)]
      BY DEF LinesOf
    <2>2. \A i, j \in pending : f[i] = f[j] => i = j
      <3>1. \A i \in pending : f[i].item = i
        OBVIOUS
      <3> HIDE DEF f
      <3> QED
        BY <3>1
    <2>3. \A l \in LinesOf(pending) : \E i \in pending : f[i] = l
      BY DEF LinesOf
    <2> HIDE DEF f
    <2> QED
      BY <2>1, <2>2, <2>3 DEF Bijection, Injection, Surjection, IsInjective
  <1> HIDE DEF f
  <1>3. ExistsBijection(pending, LinesOf(pending))
    BY <1>2 DEF ExistsBijection
  <1> QED
    BY <1>1, <1>3, FS_Bijection

\* What a refresh appends are not the lines of an earlier one.
LEMMA AppendKeepsCounts ==
    ASSUME TypeOK, run \in Runs, StoreInv, RecordInv, pc = "append", run' = run,
           records' = records, NEW S,
           stored' = [stored EXCEPT ![date] = @ \cup LinesOf(S)]
    PROVE  \A d \in Days : \A e \in records'[d].runs :
              e.run < run /\ Cardinality(LinesBy(e.run, d)') = e.appended
  <1> SUFFICES ASSUME NEW d \in Days, NEW e \in records[d].runs
               PROVE  e.run < run /\ LinesBy(e.run, d)' = LinesBy(e.run, d)
    BY DEF RecordInv
  <1>1. e.run < run /\ run \in Nat
    BY RunsAre DEF RecordInv
  <1>2. e.run # run
    <2>1. records[d] \in RecordFiles
      BY DEF TypeOK
    <2>2. e.run \in Nat
      BY <2>1, RunsAre DEF RecordFiles
    <2> QED
      BY <1>1, <2>2
  <1>3. \A l \in LinesOf(S) : l.run = run
    BY DEF LinesOf
  <1>4. stored'[d] = stored[d] \/ stored'[d] = stored[d] \cup LinesOf(S)
    BY DEF TypeOK
  <1>5. {l \in stored'[d] : l.run = e.run} = {l \in stored[d] : l.run = e.run}
    BY <1>2, <1>3, <1>4
  <1> QED
    BY <1>1, <1>5 DEF LinesBy

\* The record of a refresh counts what it appended.
LEMMA RecordCounts ==
    ASSUME TypeOK, run \in Runs, RecordInv, pc = "record",
           NEW e \in RecordWritten(records[date]).runs
    PROVE  e.run <= run /\ Cardinality(LinesBy(e.run, date)) = e.appended
  <1> DEFINE new == [run |-> run, appended |-> Cardinality(pending)]
  <1>1. date \in Days /\ run \in Nat
    BY RunsAre DEF TypeOK
  <1>2. e \in records[date].runs \/ e = new
    BY DEF RecordWritten
  <1>3. CASE e \in records[date].runs
    BY <1>1, <1>3 DEF RecordInv
  <1>4. CASE e = new
    <2>1. e.run = run /\ e.appended = Cardinality(pending)
      BY <1>4
    <2>2. LinesBy(run, date) = LinesOf(pending)
      BY DEF RecordInv
    <2> QED
      BY <1>1, <2>1, <2>2, LinesAreCounted
  <1> QED
    BY <1>2, <1>3, <1>4

LEMMA RecordStep ==
    TypeOK /\ Numbered /\ StoreInv /\ RecordInv /\ [Next]_vars => RecordInv'
  <1> SUFFICES ASSUME TypeOK, Numbered, StoreInv, RecordInv, [Next]_vars
               PROVE  RecordInv'
    OBVIOUS
  <1> HIDE DEF Lists, RecordFiles, Modes, Lines, Runs, Days
  <1>1. /\ run \in Nat /\ date \in Days /\ stored \in [Days -> SUBSET Lines]
        /\ records \in [Days -> RecordFiles]
    BY RunsAre DEF TypeOK
  <1>2. \A d \in Days : \A e \in records[d].runs : e.run \in Nat
    <2>1. \A f \in RecordFiles : \A e \in f.runs : e.run \in Nat
      BY RunsAre DEF RecordFiles
    <2> QED
      BY <1>1, <2>1
  <1>3. CASE Start
    BY <1>1, <1>2, <1>3 DEF Start, RecordInv, LinesBy
  <1>4. CASE Stops
    BY <1>4 DEF Stops, End, RecordInv, LinesBy
  <1>5. CASE AppendItems
    <2>1. /\ pc = "append" /\ pc' = "record"
          /\ UNCHANGED <<run, date, pending, records>>
          /\ stored' = [stored EXCEPT ![date] = @ \cup LinesOf(pending)]
      BY <1>5 DEF AppendItems
    <2>2. run \in Runs
      BY <2>1 DEF Numbered
    <2>3. \A d \in Days : \A e \in records'[d].runs :
             e.run < run /\ Cardinality(LinesBy(e.run, d)') = e.appended
      BY <2>1, <2>2, AppendKeepsCounts
    <2>4. stored'[date] = stored[date] \cup LinesOf(pending)
      BY <1>1, <2>1
    <2>5. \A l \in stored[date] : l.run # run
      <3>1. \A l \in stored[date] : l.run < run
        BY <1>1, <2>1 DEF StoreInv
      <3>2. \A l \in Lines : l.run \in Nat
        BY RunsAre DEF Lines
      <3>3. \A l \in stored[date] : l.run \in Nat
        BY <1>1, <3>2
      <3> QED
        BY <1>1, <3>1, <3>3
    <2>6. {l \in stored'[date] : l.run = run} = LinesOf(pending)
      BY <2>4, <2>5 DEF LinesOf
    <2>7. LinesBy(run, date)' = LinesOf(pending)'
      BY <2>1, <2>6 DEF LinesBy, LinesOf
    <2>8. \A d \in Days : \A e \in records'[d].runs : e.run <= run'
      BY <1>1, <1>2, <2>1, <2>3
    <2> QED
      BY <2>1, <2>3, <2>7, <2>8 DEF RecordInv
  <1>6. CASE CutItems
    <2>1. PICK whole : stored' = [stored EXCEPT ![date] = @ \cup LinesOf(whole)]
      BY <1>6 DEF CutItems
    <2>2. pc = "append" /\ pc' = "idle" /\ run' = run /\ records' = records
      BY <1>6 DEF CutItems, End
    <2>3. run \in Runs
      BY <2>2 DEF Numbered
    <2>4. \A d \in Days : \A e \in records'[d].runs :
             e.run < run /\ Cardinality(LinesBy(e.run, d)') = e.appended
      BY <2>1, <2>2, <2>3, AppendKeepsCounts
    <2>5. \A d \in Days : \A e \in records'[d].runs : e.run <= run'
      BY <1>1, <1>2, <2>2, <2>4
    <2> QED
      BY <2>2, <2>4, <2>5 DEF RecordInv
  <1>7. CASE AppendRecord \/ CutRecord
    <2>1. /\ pc = "record" /\ pc' \in {"idle", "score"}
          /\ UNCHANGED <<run, stored>>
      BY <1>7 DEF AppendRecord, CutRecord, End
    <2>2. run \in Runs
      BY <2>1 DEF Numbered
    <2>3. /\ \A d \in Days : d # date => records'[d].runs = records[d].runs
          /\ records'[date].runs \subseteq
                records[date].runs \cup RecordWritten(records[date]).runs
      <3> DEFINE w == RecordWritten(records[date])
      <3>1. w \in RecordFiles /\ records[date] \in RecordFiles
        BY <1>1, <2>2, RecordTyped
      <3>2. \/ UNCHANGED records
            \/ records' = [records EXCEPT ![date] = w]
            \/ records' = [records EXCEPT ![date].made = TRUE]
            \/ records' = [records EXCEPT ![date] =
                  [w EXCEPT !.runs = {e \in w.runs : e.run # run}, !.ok = FALSE, !.open = TRUE]]
            \/ records' = [records EXCEPT ![date] = [w EXCEPT !.open = TRUE]]
        BY <1>7 DEF AppendRecord, CutRecord
      <3> HIDE DEF w
      <3> DEFINE torn == [w EXCEPT !.runs = {e \in w.runs : e.run # run}, !.ok = FALSE,
                                   !.open = TRUE]
                 bare == [w EXCEPT !.open = TRUE]
                 made == [records[date] EXCEPT !.made = TRUE]
      <3>3. torn.runs \subseteq w.runs /\ bare.runs = w.runs /\ made.runs = records[date].runs
        BY <3>1 DEF RecordFiles
      <3>4. records'[date] \in {records[date], w, made, torn, bare}
        BY <1>1, <3>2
      <3>5. \A d \in Days : d # date => records'[d] = records[d]
        BY <1>1, <3>2
      <3> HIDE DEF torn, bare, made
      <3>6. \/ records'[date].runs = records[date].runs
            \/ records'[date].runs \subseteq w.runs
        BY <3>3, <3>4
      <3> QED
        BY <3>5, <3>6 DEF w
    <2>4. \A d \in Days : \A e \in records[d].runs :
             e.run <= run /\ Cardinality(LinesBy(e.run, d)) = e.appended
      BY DEF RecordInv
    <2>5. \A e \in RecordWritten(records[date]).runs :
             e.run <= run /\ Cardinality(LinesBy(e.run, date)) = e.appended
      BY <2>1, <2>2, RecordCounts
    <2>6. \A d \in Days : \A e \in records'[d].runs :
             e.run <= run /\ Cardinality(LinesBy(e.run, d)) = e.appended
      BY <1>1, <2>3, <2>4, <2>5
    <2>7. \A r, d : LinesBy(r, d)' = LinesBy(r, d)
      BY <2>1 DEF LinesBy
    <2> QED
      BY <2>1, <2>6, <2>7 DEF RecordInv
  <1>8. CASE Outside
    BY <1>8 DEF Outside, RecordInv, LinesBy, LinesOf
  <1>9. CASE Collect \/ Ingest \/ MergeInbox \/ OpenStore
    BY <1>9 DEF Collect, Ingest, MergeInbox, OpenStore, RecordInv, LinesBy
  <1>10. CASE Score \/ Assess \/ AssessDegrades
    BY <1>10 DEF Score, Assess, AssessDegrades, RecordInv, LinesBy
  <1> QED
    BY <1>3, <1>4, <1>5, <1>6, <1>7, <1>8, <1>9, <1>10, StepIs DEF Steps

LEMMA RecordHolds == Spec => []RecordInv
  <1>1. Init => RecordInv
    BY DEF Init, RecordInv, NoRecords
  <1> QED
    BY <1>1, RecordStep, NumbersHold, StoreHolds, PTL DEF Spec

\* Every run record that can be read counts the lines of its refresh, whichever
\* appends were cut off (store_canonical_jsonl.py:66-91).
THEOREM RecordsAreTrue == Spec => []RecordsAccount
  <1>1. RecordInv => RecordsAccount
    BY DEF RecordInv, RecordsAccount, LinesBy
  <1> QED
    BY <1>1, RecordHolds, PTL

-----------------------------------------------------------------------------
(* What was shared *)

\* The pages shared before a refresh with the inbox began are in its batch.
SharesInv ==
    /\ asked \subseteq inbox
    /\ inboxOn /\ pc \in {"store", "append", "record", "score", "assess", "publish"} =>
          asked \subseteq canonical

LEMMA SharesStep == TypeOK /\ SharesInv /\ [Next]_vars => SharesInv'
  <1> SUFFICES ASSUME TypeOK, SharesInv, [Next]_vars PROVE SharesInv'
    OBVIOUS
  <1> HIDE DEF Lists, RecordFiles, Modes, Lines, Runs, Days
  <1>1. CASE Ingest
    BY <1>1 DEF Ingest, SharesInv
  <1>2. CASE MergeInbox
    <2>1. ASSUME NEW s \in asked PROVE s \in canonical \cup Merged(inbox)
      <3>1. s \in inbox /\ s \in Shares
        BY DEF SharesInv, TypeOK
      <3>2. CASE Id(s) \in Ids(canonical)
        <4>1. PICK i \in canonical : Id(s) = Id(i)
          BY <3>2 DEF Ids
        <4>2. s = i
          BY <3>1, <4>1, IdsDiffer DEF TypeOK
        <4> QED
          BY <4>1, <4>2
      <3> QED
        BY <3>1, <3>2 DEF Merged
    <2> QED
      BY <1>2, <2>1 DEF MergeInbox, SharesInv
  <1>3. CASE Stops \/ CutItems \/ CutRecord
    BY <1>3 DEF Stops, CutItems, CutRecord, End, SharesInv
  <1>4. CASE Outside
    BY <1>4 DEF Outside, SharesInv
  <1>5. CASE Start
    BY <1>5 DEF Start, SharesInv
  <1>6. CASE Collect
    BY <1>6 DEF Collect, SharesInv
  <1>7. CASE OpenStore \/ AppendItems \/ AppendRecord \/ Score \/ Assess \/ AssessDegrades
    BY <1>7 DEF OpenStore, AppendItems, AppendRecord, Score, Assess, AssessDegrades, SharesInv
  <1> QED
    BY <1>1, <1>2, <1>3, <1>4, <1>5, <1>6, <1>7, StepIs DEF Steps

LEMMA SharesHold == Spec => []SharesInv
  <1>1. Init => SharesInv
    BY DEF Init, NothingDone, SharesInv
  <1> QED
    BY <1>1, SharesStep, TypeCorrect, PTL DEF Spec

\* What was shared before a refresh with the inbox began is in the file of its
\* day when it scores, whatever earlier refreshes left undone
\* (workflow.py:713-728).
THEOREM SharesReachTheStore == Spec => []SharesAreStored
  <1>1. TypeOK /\ StoreInv /\ SharesInv => SharesAreStored
    <2> SUFFICES ASSUME TypeOK, StoreInv, SharesInv, inboxOn,
                        pc \in {"score", "assess", "publish"}, NEW s \in asked
                 PROVE  \E l \in stored[date] : l.item = s
      BY DEF SharesAreStored
    <2>1. s \in canonical /\ s \in Shares
      BY DEF SharesInv, TypeOK
    <2>2. PICK l \in stored[date] : Id(l.item) = Id(s)
      BY <2>1 DEF StoreInv, ExistingIds
    <2>3. l.item \in Items
      <3>1. l \in Lines
        BY DEF TypeOK
      <3> QED
        BY <3>1 DEF Lines
    <2>4. l.item = s
      BY <2>1, <2>2, <2>3, IdsDiffer
    <2> QED
      BY <2>4
  <1> QED
    BY <1>1, StoreHolds, SharesHold, TypeCorrect, PTL

-----------------------------------------------------------------------------
(* What is published *)

\* The list a refresh is about to publish is of its batch, which it stored.
PublishInv ==
    /\ latest.run <= run /\ (pc # "idle" => latest.run < run)
    /\ pc \in {"score", "assess", "publish"} => storedOn[run] = date
    /\ pc \in {"assess", "publish"} => ranked.items \subseteq canonical
    /\ latest.run > 0 =>
          /\ storedOn[latest.run] # 0
          /\ \A i \in latest.items :
                \E l \in stored[storedOn[latest.run]] : Id(l.item) = Id(i)

LEMMA PublishStep ==
    TypeOK /\ Numbered /\ StoreInv /\ PublishInv /\ [Next]_vars => PublishInv'
  <1> SUFFICES ASSUME TypeOK, Numbered, StoreInv, PublishInv, [Next]_vars
               PROVE  PublishInv'
    OBVIOUS
  <1> HIDE DEF Lists, RecordFiles, Modes, Lines, Runs, Days
  <1>1. /\ run \in Nat /\ latest.run \in Nat /\ date \in Days
        /\ storedOn \in [Runs -> Days \cup {0}]
    BY RunsAre DEF TypeOK
  <1>2. latest.run > 0 => storedOn[latest.run] \in Days
    <2>1. latest.run \in 0..MaxRuns
      BY DEF TypeOK
    <2>2. latest.run > 0 => latest.run \in Runs
      BY <2>1, RunsAre DEF Runs
    <2>3. latest.run > 0 => storedOn[latest.run] # 0
      BY DEF PublishInv
    <2> QED
      BY <1>1, <2>2, <2>3
  \* Nothing that was published is lost.
  <1>3. ASSUME UNCHANGED <<latest, storedOn>>
        PROVE  latest'.run > 0 =>
                  /\ storedOn'[latest'.run] # 0
                  /\ \A i \in latest'.items :
                        \E l \in stored'[storedOn'[latest'.run]] : Id(l.item) = Id(i)
    BY <1>2, <1>3, FilesGrow DEF PublishInv
  <1>4. CASE Start
    <2>1. pc = "idle" /\ pc' = "collect" /\ run' = run + 1 /\ UNCHANGED <<latest, storedOn>>
      BY <1>4 DEF Start
    <2>2. latest.run < run'
      BY <1>1, <2>1 DEF PublishInv
    <2> QED
      BY <1>1, <1>3, <2>1, <2>2 DEF PublishInv
  <1>5. CASE RefuseStore \/ Abandon
    <2>1. pc' = "idle" /\ UNCHANGED <<latest, storedOn, run>>
      BY <1>5 DEF RefuseStore, Abandon, End
    <2> QED
      BY <1>3, <2>1 DEF PublishInv
  <1>6. CASE Publish
    <2>1. /\ pc = "publish" /\ pc' = "idle" /\ UNCHANGED <<run, storedOn, stored>>
          /\ latest'.run = run /\ latest'.items = ranked.items
      BY <1>6 DEF Publish, End
    <2>2. storedOn[run] = date /\ ranked.items \subseteq canonical
      BY <2>1 DEF PublishInv
    <2>3. date # 0
      BY <1>1 DEF Days
    <2>4. \A i \in ranked.items : \E l \in stored[date] : Id(l.item) = Id(i)
      BY <2>1, <2>2 DEF StoreInv, ExistingIds
    <2> QED
      BY <1>1, <2>1, <2>2, <2>3, <2>4 DEF PublishInv
  <1>7. CASE CutItems \/ CutRecord
    <2>1. pc' = "idle" /\ UNCHANGED <<latest, storedOn, run>>
      BY <1>7 DEF CutItems, CutRecord, End
    <2> QED
      BY <1>3, <2>1 DEF PublishInv
  <1>8. CASE AppendRecord
    <2>1. /\ pc = "record" /\ pc' = "score" /\ UNCHANGED <<run, latest, stored, date>>
          /\ storedOn' = [storedOn EXCEPT ![run] = date]
      BY <1>8 DEF AppendRecord
    <2>2. run \in Runs /\ latest.run # run
      BY <1>1, <2>1 DEF Numbered, PublishInv
    <2>3. storedOn'[run] = date /\ storedOn'[latest.run] = storedOn[latest.run]
      BY <1>1, <2>1, <2>2
    <2> QED
      BY <2>1, <2>3 DEF PublishInv
  <1>9. CASE Score
    <2>1. /\ pc = "score" /\ pc' \in {"assess", "publish"}
          /\ UNCHANGED <<run, latest, storedOn, date, canonical>>
          /\ ranked'.items = First(TopN, Eligible(canonical), Baseline[day], day)
      BY <1>9 DEF Score
    <2>2. ranked'.items \subseteq canonical'
      BY <2>1, FirstAre, EligibleTyped
    <2> QED
      BY <1>3, <2>1, <2>2 DEF PublishInv
  <1>10. CASE Assess
    <2>1. PICK score : ranked'.items = Rank(Eligible(canonical), score, asOf)
      BY <1>10 DEF Assess, RankedAt
    <2>2. /\ pc = "assess" /\ pc' = "publish"
          /\ UNCHANGED <<run, latest, storedOn, date, canonical>>
      BY <1>10 DEF Assess
    <2>3. Eligible(canonical) \subseteq canonical /\ Eligible(canonical) \in SUBSET Items
      BY EligibleTyped DEF TypeOK
    <2>4. ranked'.items \subseteq canonical'
      BY <2>1, <2>2, <2>3, RanksTyped
    <2> QED
      BY <1>3, <2>2, <2>4 DEF PublishInv
  <1>15. CASE AssessDegrades
    <2>1. /\ pc = "assess" /\ pc' = "publish"
          /\ UNCHANGED <<run, latest, storedOn, date, canonical, ranked>>
      BY <1>15 DEF AssessDegrades
    <2> QED
      BY <1>3, <2>1 DEF PublishInv
  <1>11. CASE Outside
    BY <1>3, <1>11 DEF Outside, PublishInv
  <1>12. CASE Collect \/ Ingest \/ MergeInbox
    <2>1. /\ pc # "idle" /\ pc' \in {"ingest", "merge", "store"}
          /\ UNCHANGED <<run, latest, storedOn>>
      BY <1>12 DEF Collect, Ingest, MergeInbox
    <2> QED
      BY <1>3, <2>1 DEF PublishInv
  <1>13. CASE OpenStore \/ AppendItems
    <2>1. /\ pc # "idle" /\ pc' \in {"append", "record"} /\ UNCHANGED <<run, latest, storedOn>>
      BY <1>13 DEF OpenStore, AppendItems
    <2> QED
      BY <1>3, <2>1 DEF PublishInv
  <1>14. CASE Stops
    BY <1>5, <1>6, <1>14 DEF Stops
  <1> QED
    BY <1>4, <1>7, <1>8, <1>9, <1>10, <1>11, <1>12, <1>13, <1>14, <1>15, StepIs DEF Steps

LEMMA PublishHolds == Spec => []PublishInv
  <1>1. Init => PublishInv
    BY DEF Init, PublishInv
  <1> QED
    BY <1>1, PublishStep, NumbersHold, StoreHolds, PTL DEF Spec

\* Whatever is published is stored, under its id, on the day its refresh was
\* stored on, in a file that can be read unless an append of that day was cut
\* off or a text with a line separator was stored on it (runner.py:265-272).
THEOREM PublishedItemsAreStored == Spec => []PublishedIsStored
  <1>1. TypeOK /\ TailInv /\ PublishInv => PublishedIsStored
    <2> SUFFICES ASSUME TypeOK, TailInv, PublishInv, latest.run > 0
                 PROVE  LET d == storedOn[latest.run]
                        IN  /\ d # 0
                            /\ \A i \in latest.items : \E l \in stored[d] : Id(l.item) = Id(i)
                            /\ tail[d] = "broken" => d \in hurt \/ HoldsSplit(d)
      BY DEF PublishedIsStored
    <2>1. latest.run \in Runs
      BY RunsAre DEF TypeOK, Runs
    <2>2. storedOn[latest.run] # 0
      BY DEF PublishInv
    <2>3. storedOn[latest.run] \in Days
      BY <2>1, <2>2 DEF TypeOK
    <2> QED
      BY <2>2, <2>3 DEF PublishInv, TailInv
  <1> QED
    BY <1>1, TailHolds, PublishHolds, PTL

-----------------------------------------------------------------------------
(* Files and list implement DailyJournal *)

\* The days to come have no file yet, nor have those after a partition in use.
CalendarInv ==
    /\ \A d \in Days : d > day => stored[d] = {}
    /\ pc \in {"append", "record", "score", "assess", "publish"} =>
          date <= day /\ \A d \in Days : d > date => stored[d] = {}

LEMMA CalendarStep == TypeOK /\ CalendarInv /\ [Next]_vars => (TypeOK' => CalendarInv')
  <1> SUFFICES ASSUME TypeOK, CalendarInv, [Next]_vars, TypeOK' PROVE CalendarInv'
    OBVIOUS
  <1> HIDE DEF Lists, RecordFiles, Modes, Lines, Runs, Days
  <1>1. /\ day \in Nat /\ date \in Nat /\ date \in Days /\ Days \subseteq Nat
        /\ stored \in [Days -> SUBSET Lines]
    BY DaysAre DEF TypeOK
  <1>2. CASE Outside
    <2>1. day' \in Nat
      BY DaysAre DEF TypeOK
    <2> QED
      BY <1>1, <1>2, <2>1 DEF Outside, CalendarInv
  <1>3. CASE OpenStore
    BY <1>1, <1>3 DEF OpenStore, PartitionDate, CalendarInv
  <1>4. CASE AppendItems \/ CutItems
    <2>1. PICK S : stored' = [stored EXCEPT ![date] = @ \cup LinesOf(S)]
      BY <1>4 DEF AppendItems, CutItems
    <2>2. \A d \in Days : d # date => stored'[d] = stored[d]
      BY <1>1, <2>1
    <2>3. pc = "append" /\ day' = day /\ (pc' = "idle" \/ date' = date)
      BY <1>4 DEF AppendItems, CutItems, End
    <2>4. date <= day /\ \A d \in Days : d > date => d # date /\ stored[d] = {}
      BY <1>1, <2>3 DEF CalendarInv
    <2>5. \A d \in Days : d > date => stored'[d] = {}
      BY <2>2, <2>4
    <2>6. \A d \in Days : d > day' => stored'[d] = {}
      <3>1. \A d \in Days : d > day => d > date
        BY <1>1, <2>4
      <3> QED
        BY <2>3, <2>5, <3>1
    <2>7. pc' = "idle" \/ (date' <= day' /\ \A d \in Days : d > date' => stored'[d] = {})
      BY <2>3, <2>4, <2>5
    <2> QED
      BY <2>6, <2>7 DEF CalendarInv
  <1>5. CASE Stops \/ CutRecord
    BY <1>5 DEF Stops, CutRecord, End, CalendarInv
  <1>6. CASE Start \/ Collect \/ Ingest \/ MergeInbox
    BY <1>6 DEF Start, Collect, Ingest, MergeInbox, CalendarInv
  <1>7. CASE AppendRecord \/ Score \/ Assess \/ AssessDegrades
    BY <1>7 DEF AppendRecord, Score, Assess, AssessDegrades, CalendarInv
  <1> QED
    BY <1>2, <1>3, <1>4, <1>5, <1>6, <1>7, StepIs DEF Steps

LEMMA CalendarHolds == Spec => []CalendarInv
  <1>1. Init => CalendarInv
    BY DEF Init, CalendarInv
  <1> QED
    BY <1>1, CalendarStep, TypeCorrect, PTL DEF Spec

\* What the journal has of a day is what its file has the ids of.
LEMMA KnownIs ==
    ASSUME TypeOK, NEW d \in Days
    PROVE  Journal!Known(d) = {i \in Items : Id(i) \in ExistingIds(d)}
  <1>1. \A l \in stored[d] : l.item \in Items
    <2>1. stored[d] \subseteq Lines
      BY DEF TypeOK
    <2> QED
      BY <2>1 DEF Lines
  <1>2. {[i \in Items |-> Id(i)][l.item] : l \in stored[d]} = ExistingIds(d)
    BY <1>1 DEF ExistingIds
  <1> QED
    BY <1>2 DEF Journal!Known

LEMMA JournalInit == Init => Journal!Init
  BY DEF Init, Journal!Init

\* An append, whole or cut off, adds to the journal once.
LEMMA AppendAdds ==
    ASSUME TypeOK, Numbered, HandoffInv, StoreInv, PublishInv, CalendarInv,
           pc = "append", NEW S \in SUBSET pending,
           stored' = [stored EXCEPT ![date] = @ \cup LinesOf(S)], latest' = latest
    PROVE  Journal!Add(run)
  <1> HIDE DEF Lists, RecordFiles, Modes, Lines, Runs, Days
  <1>1. date \in Days /\ S \subseteq Items
    BY DEF TypeOK
  <1>2. latest.run < run /\ \A d \in Days : \A l \in stored[d] : l.run < run
    BY DEF PublishInv, StoreInv
  <1>3. Journal!IsLast(date)
    BY DEF CalendarInv, Journal!IsLast
  <1>4. S \in SUBSET (Items \ Journal!Known(date))
    <2>1. \A i \in S : Id(i) \notin ExistingIds(date)
      BY DEF StoreInv
    <2> QED
      BY <1>1, <2>1, KnownIs
  <1>5. \A i, j \in S : [k \in Items |-> Id(k)][i] = [k \in Items |-> Id(k)][j] => i = j
    <2>1. \A i, j \in S : Id(i) = Id(j) => i = j
      BY DEF HandoffInv, StoreInv, Apart
    <2> QED
      BY <1>1, <2>1
  <1> QED
    BY <1>1, <1>2, <1>3, <1>4, <1>5 DEF Journal!Add, LinesOf

\* Publishing shows a list of the last day.
LEMMA PublishShows ==
    ASSUME TypeOK, StoreInv, PublishInv, CalendarInv, Publish
    PROVE  Journal!Show(run)
  <1> HIDE DEF Lists, RecordFiles, Modes, Lines, Runs, Days
  <1>1. date \in Days /\ ranked.items \subseteq Items
    BY DEF TypeOK, Lists
  <1>2. latest.run < run /\ \A d \in Days : \A l \in stored[d] : l.run <= run
    BY DEF Publish, PublishInv, StoreInv
  <1>3. Journal!IsLast(date)
    BY DEF Publish, CalendarInv, Journal!IsLast
  <1>4. ranked.items \in SUBSET Journal!Known(date)
    <2>1. \A i \in ranked.items : Id(i) \in ExistingIds(date)
      BY DEF Publish, PublishInv, StoreInv
    <2> QED
      BY <1>1, <2>1, KnownIs
  <1>5. latest' = [run |-> run, mode |-> mode, items |-> ranked.items] /\ stored' = stored
    BY DEF Publish
  <1>6. [run |-> latest'.run, items |-> latest'.items] = [run |-> run, items |-> ranked.items]
    BY <1>5
  <1> QED
    BY <1>1, <1>2, <1>3, <1>4, <1>5, <1>6 DEF Journal!Show

LEMMA JournalStep ==
    ASSUME TypeOK, Numbered, HandoffInv, StoreInv, PublishInv, CalendarInv, [Next]_vars
    PROVE  [Journal!Next]_Journal!journalVars
  <1> HIDE DEF Lists, RecordFiles, Modes, Lines, Runs, Days
  <1>1. CASE AppendItems \/ CutItems
    <2>1. PICK S \in SUBSET pending : stored' = [stored EXCEPT ![date] = @ \cup LinesOf(S)]
      BY <1>1 DEF AppendItems, CutItems
    <2>2. pc = "append" /\ latest' = latest
      BY <1>1 DEF AppendItems, CutItems
    <2> QED
      BY <2>1, <2>2, AppendAdds DEF Journal!Next, Numbered
  <1>2. CASE Publish
    <2>1. run \in Runs
      BY <1>2 DEF Publish, Numbered
    <2> QED
      BY <1>2, <2>1, PublishShows DEF Journal!Next
  <1>3. CASE RefuseStore \/ Abandon \/ CutRecord
    BY <1>3 DEF RefuseStore, Abandon, CutRecord, Journal!journalVars
  <1>4. CASE Outside \/ Start \/ Collect \/ Ingest \/ MergeInbox
    BY <1>4 DEF Outside, Start, Collect, Ingest, MergeInbox, Journal!journalVars
  <1>5. CASE OpenStore \/ AppendRecord \/ Score \/ Assess \/ AssessDegrades
    BY <1>5 DEF OpenStore, AppendRecord, Score, Assess, AssessDegrades, Journal!journalVars
  <1> QED
    BY <1>1, <1>2, <1>3, <1>4, <1>5, StepIs DEF Steps, Stops

\* Whatever is cut off and made again, the daily files are an append-only
\* journal to which each refresh adds once, to the last day and no id twice, and
\* latest.json is a list of ids of that day (store_canonical_jsonl.py:47-64,
\* runner.py:265-272).
THEOREM PipelineIsAJournal == Spec => ImplementsJournal
  <1> QED
    BY JournalInit, JournalStep, NumbersHold, HandoffHolds, StoreHolds, PublishHolds,
       CalendarHolds, PTL DEF Spec, ImplementsJournal, Journal!Spec

-----------------------------------------------------------------------------
(* How it is ranked *)

\* The lists of a refresh are what the scorer and the ranking make of its batch.
RankedInv ==
    /\ pc \in {"assess", "publish"} =>
          baseline = First(TopN, Eligible(canonical), Baseline[asOf], asOf)
    /\ pc = "assess" => mode = "agent"
    /\ pc = "publish" /\ mode = "agent" =>
          /\ opinion \in Answers
          /\ ranked = [items |-> Rank(Eligible(canonical), FinalScore(opinion, asOf), asOf),
                       score |-> FinalScore(opinion, asOf)]
    /\ OneStoryOnce

LEMMA RankedStep == TypeOK /\ RankedInv /\ [Next]_vars => (TypeOK' => RankedInv')
  <1> SUFFICES ASSUME TypeOK, RankedInv, [Next]_vars, TypeOK' PROVE RankedInv'
    OBVIOUS
  <1> HIDE DEF Lists, RecordFiles, Modes, Lines, Runs, Days
  <1>1. CASE Score
    <2>1. /\ pc' = IF mode = "agent" THEN "assess" ELSE "publish"
          /\ UNCHANGED <<mode, canonical, latest>> /\ asOf' = day
          /\ baseline' = First(TopN, Eligible(canonical), Baseline[day], day)
      BY <1>1 DEF Score
    <2>2. baseline' = First(TopN, Eligible(canonical'), Baseline[asOf'], asOf')
      BY <2>1
    <2>3. OneStoryOnce'
      BY <2>1 DEF RankedInv, OneStoryOnce
    <2> QED
      BY <2>1, <2>2, <2>3 DEF RankedInv
  <1>2. CASE Assess
    <2>1. /\ pc = "assess" /\ pc' = "publish"
          /\ UNCHANGED <<mode, canonical, latest, asOf, baseline>>
          /\ ranked' = [items |-> Rank(Eligible(canonical), FinalScore(opinion', asOf), asOf),
                        score |-> FinalScore(opinion', asOf)]
      BY <1>2 DEF Assess, RankedAt
    <2>2. opinion' \in Answers
      BY DEF TypeOK, Answers
    <2>3. OneStoryOnce'
      BY <2>1 DEF RankedInv, OneStoryOnce
    <2>4. baseline' = First(TopN, Eligible(canonical'), Baseline[asOf'], asOf')
      BY <2>1 DEF RankedInv
    <2>5. ranked' = [items |-> Rank(Eligible(canonical'), FinalScore(opinion', asOf'), asOf'),
                     score |-> FinalScore(opinion', asOf')]
      BY <2>1
    <2> QED
      BY <2>1, <2>2, <2>3, <2>4, <2>5 DEF RankedInv
  <1>3. CASE Publish
    <2>1. pc = "publish" /\ pc' = "idle" /\ latest'.mode = mode /\ latest'.items = ranked.items
      BY <1>3 DEF Publish, End
    <2>2. ASSUME mode = "agent", NEW x \in ranked.items, NEW y \in ranked.items,
                 Story(x) = Story(y)
          PROVE  x = y
      <3> DEFINE S == Eligible(canonical)
                 score == FinalScore(opinion, asOf)
      <3>1. opinion \in Answers /\ ranked.items = Rank(S, score, asOf)
        BY <2>1, <2>2 DEF RankedInv
      <3>2. asOf \in Days /\ S \in SUBSET Items /\ score \in Scores
        BY <3>1, EligibleTyped, FinalIsScore DEF TypeOK
      <3>3. /\ x \in BestTellings(S, score, Baseline[asOf], asOf)
            /\ y \in BestTellings(S, score, Baseline[asOf], asOf)
        BY <2>2, <3>1, FirstAre DEF Rank
      <3> QED
        BY <2>2, <3>2, <3>3, OneTellingIsKept
    <2>3. OneStoryOnce'
      BY <2>1, <2>2 DEF OneStoryOnce
    <2> QED
      BY <2>1, <2>3 DEF RankedInv
  <1>4. CASE RefuseStore \/ Abandon \/ CutItems \/ CutRecord
    BY <1>4 DEF RefuseStore, Abandon, CutItems, CutRecord, End, RankedInv, OneStoryOnce
  <1>9. CASE AssessDegrades
    <2>1. /\ pc' = "publish" /\ mode' = "baseline" /\ pc = "assess"
          /\ UNCHANGED <<canonical, latest, asOf, baseline>>
      BY <1>9 DEF AssessDegrades
    <2>2. baseline' = First(TopN, Eligible(canonical'), Baseline[asOf'], asOf')
      BY <2>1 DEF RankedInv
    <2> QED
      BY <2>1, <2>2 DEF RankedInv, OneStoryOnce
  <1>5. CASE Outside
    BY <1>5 DEF Outside, RankedInv, OneStoryOnce
  <1>6. CASE Start \/ Collect \/ Ingest \/ MergeInbox
    BY <1>6 DEF Start, Collect, Ingest, MergeInbox, RankedInv, OneStoryOnce
  <1>7. CASE OpenStore \/ AppendItems \/ AppendRecord
    BY <1>7 DEF OpenStore, AppendItems, AppendRecord, RankedInv, OneStoryOnce
  <1>8. CASE Stops
    BY <1>3, <1>4, <1>8 DEF Stops
  <1> QED
    BY <1>1, <1>2, <1>4, <1>5, <1>6, <1>7, <1>8, <1>9, StepIs DEF Steps

LEMMA RankedHolds == Spec => []RankedInv
  <1>1. Init => RankedInv
    BY DEF Init, RankedInv, OneStoryOnce
  <1> QED
    BY <1>1, RankedStep, TypeCorrect, PTL DEF Spec

\* A list the agent took part in has no story twice (ranking.py:393-407).
THEOREM StoriesAreToldOnce == Spec => []OneStoryOnce
  <1>1. RankedInv => OneStoryOnce
    BY DEF RankedInv
  <1> QED
    BY <1>1, RankedHolds, PTL

LEMMA NothingCounts ==
    ASSUME NEW answers \in Answers, NEW d \in Days,
           \A i \in Items : Counted(answers)[i] = None
    PROVE  \A i \in Items : FinalScore(answers, d)[i] = 100 * Baseline[d][i]
  <1>1. \A i \in Items : FinalScore(answers, d)[i] = ComposeFinalScore(i, d, None)
    BY DEF FinalScore
  <1> QED
    BY <1>1, UnassessedIsBaseline

\* When no assessment counts the list is the baseline, without the later
\* tellings of a story (ranking.py:376-420).
THEOREM FallbackIsTheBaseline == Spec => []FallbackIsBaseline
  <1>1. TypeOK /\ RankedInv => FallbackIsBaseline
    <2> SUFFICES ASSUME TypeOK, RankedInv, mode = "agent", pc = "publish",
                        \A i \in Items : Counted(opinion)[i] = None
                 PROVE  /\ \A i \in Items : ranked.score[i] = 100 * Baseline[asOf][i]
                        /\ \A x \in baseline :
                              x \in ranked.items <=> \A y \in baseline :
                                  Ahead(Baseline[asOf], asOf, y, x) => Story(y) # Story(x)
      BY DEF FallbackIsBaseline
    <2> DEFINE S == Eligible(canonical)
               score == FinalScore(opinion, asOf)
    <2>1. /\ opinion \in Answers
          /\ ranked.items = Rank(S, score, asOf) /\ ranked.score = score
          /\ baseline = First(TopN, S, Baseline[asOf], asOf)
      BY DEF RankedInv
    <2>2. asOf \in Days /\ S \in SUBSET Items /\ score \in Scores
      BY <2>1, EligibleTyped, FinalIsScore DEF TypeOK
    <2>3. \A i \in Items : score[i] = 100 * Baseline[asOf][i]
      BY <2>1, <2>2, NothingCounts
    <2> HIDE DEF S, score
    <2>4. ASSUME NEW x \in baseline
          PROVE  x \in ranked.items <=> \A y \in baseline :
                    Ahead(Baseline[asOf], asOf, y, x) => Story(y) # Story(x)
      BY <2>1, <2>2, <2>3, FallbackKeepsBaseline
    <2> QED
      BY <2>1, <2>3, <2>4
  <1> QED
    BY <1>1, TypeCorrect, RankedHolds, PTL

\* The agent lifts nothing over a lead greater than its weight
\* (ranking.py:157-202).
THEOREM LeadsAreKept == Spec => []LeadIsKept
  <1>1. TypeOK /\ RankedInv => LeadIsKept
    <2> SUFFICES ASSUME TypeOK, RankedInv, mode = "agent", pc = "publish",
                        NEW x \in Eligible(canonical), NEW y \in ranked.items,
                        65 * Baseline[asOf][x] > 100 * Baseline[asOf][y],
                        65 * Baseline[asOf][x] > 65 * Baseline[asOf][y] + 15750
                 PROVE  \E z \in ranked.items :
                           Story(z) = Story(x) /\ Ahead(ranked.score, asOf, z, y)
      BY DEF LeadIsKept
    <2> DEFINE S == Eligible(canonical)
    <2>1. /\ opinion \in Answers
          /\ ranked.items = Rank(S, FinalScore(opinion, asOf), asOf)
          /\ ranked.score = FinalScore(opinion, asOf)
      BY DEF RankedInv
    <2>2. asOf \in Days /\ S \in SUBSET Items
      BY EligibleTyped DEF TypeOK
    <2>3. x \in S
      OBVIOUS
    <2> HIDE DEF S
    <2>4. \E z \in Rank(S, FinalScore(opinion, asOf), asOf) :
             Story(z) = Story(x) /\ Ahead(FinalScore(opinion, asOf), asOf, z, y)
      BY <2>1, <2>2, <2>3, LeadSurvives
    <2> QED
      BY <2>1, <2>4
  <1> QED
    BY <1>1, TypeCorrect, RankedHolds, PTL

-----------------------------------------------------------------------------
(* The latest run *)

\* A set of days that is not empty has a last one.
LEMMA LastDayExists ==
    ASSUME NEW S \in SUBSET Days, S # {}
    PROVE  \E d \in S : \A e \in S : e <= d
  <1> DEFINE later(d) == {e \in S : e > d}
             F == {later(d) : d \in S}
  <1>1. IsFiniteSet(S) /\ S \subseteq Nat
    <2>1. IsFiniteSet(Days)
      <3>1. IsFiniteSet(1..MaxDay)
        BY DaysAre, FS_Interval
      <3> QED
        BY <3>1 DEF Days
    <2> QED
      BY <2>1, FS_Subset, DaysAre
  <1>2. F \subseteq FiniteSubsetsOf(S) /\ F # {}
    <2>1. ASSUME NEW d \in S PROVE later(d) \in FiniteSubsetsOf(S)
      BY <1>1, FS_Subset DEF FiniteSubsetsOf
    <2> QED
      BY <2>1
  <1>3. PICK m \in F : \A n \in F : ~(<<n, m>> \in StrictSubsetOrdering(S))
    <2> HIDE DEF F
    <2> QED
      BY <1>2, WFMin, FS_StrictSubsetOrderingWellFounded
  <1>4. PICK d \in S : m = later(d)
    OBVIOUS
  <1>5. ASSUME NEW e \in S, e > d PROVE FALSE
    <2>1. later(e) \subseteq later(d) /\ e \in later(d) /\ e \notin later(e)
      <3>1. d \in Nat /\ e \in Nat /\ \A f \in S : f \in Nat
        BY <1>1
      <3>2. \A f \in S : f > e => f > d
        BY <1>5, <3>1
      <3>3. ~(e > e)
        BY <3>1
      <3> HIDE DEF F
      <3> QED
        BY <1>5, <3>2, <3>3
    <2>2. <<later(e), m>> \in StrictSubsetOrdering(S)
      BY <1>4, <2>1 DEF StrictSubsetOrdering
    <2> QED
      BY <1>3, <2>2
  <1> QED
    BY <1>1, <1>5

LEMMA LastFileIs ==
    ASSUME TypeOK, RunFiles # {}
    PROVE  LastFile \in RunFiles /\ \A d \in RunFiles : d <= LastFile
  BY LastDayExists DEF LastFile, RunFiles

\* A stored refresh is in a file that ends with it or with a later one, and in
\* no earlier file than one that ends with an earlier refresh.  The files are of
\* days that came, and one that ends badly is of a day that was hurt.
LatestInv ==
    /\ \A d \in Days :
          /\ records[d].made => d <= day
          /\ pc \in {"append", "record"} /\ records[d].made => d <= date
          /\ ~records[d].made => records[d].last = 0
          /\ records[d].made /\ (records[d].last = 0 \/ ~records[d].ok) => d \in hurt
          /\ records[d].open => d \in hurt
    /\ pc \in {"append", "record"} => date <= day
    /\ \A r \in Runs : storedOn[r] # 0 =>
          /\ r <= run
          /\ records[storedOn[r]].made /\ records[storedOn[r]].last >= r
    /\ \A f \in Days, r \in Runs :
          storedOn[r] # 0 /\ records[f].last > 0 /\ r > records[f].last => storedOn[r] >= f

\* A step that adds no file and stores no refresh.
LEMMA NothingStored ==
    ASSUME TypeOK, LatestInv, UNCHANGED <<records, storedOn>>,
           hurt \subseteq hurt', day' \in Days, day' >= day, run' \in Nat, run' >= run,
           pc' \in {"append", "record"} =>
              \/ pc \in {"append", "record"} /\ date' = date
              \/ date' = day /\ day' = day
    PROVE  LatestInv'
  <1> HIDE DEF Lists, RecordFiles, Modes, Lines, Runs, Days
  <1>1. day \in Nat /\ day' \in Nat /\ date \in Nat /\ run \in Nat /\ Days \subseteq Nat
    BY DaysAre, RunsAre DEF TypeOK
  <1>2. \A d \in Days :
          /\ records'[d].made => d <= day'
          /\ pc' \in {"append", "record"} /\ records'[d].made => d <= date'
          /\ ~records'[d].made => records'[d].last = 0
          /\ records'[d].made /\ (records'[d].last = 0 \/ ~records'[d].ok) => d \in hurt'
          /\ records'[d].open => d \in hurt'
    BY <1>1 DEF LatestInv
  <1>3. pc' \in {"append", "record"} => date' <= day'
    BY <1>1 DEF LatestInv
  <1>4. \A r \in Runs : storedOn'[r] # 0 =>
          /\ r <= run'
          /\ records'[storedOn'[r]].made /\ records'[storedOn'[r]].last >= r
    <2>1. \A r \in Runs : r \in Nat /\ (r <= run => r <= run')
      BY <1>1, RunsAre
    <2> QED
      BY <2>1 DEF LatestInv
  <1> QED
    BY <1>2, <1>3, <1>4 DEF LatestInv

\* The append of a record, in whole or in part, or of the file alone.
LEMMA RecordIs ==
    ASSUME TypeOK, Numbered, AppendRecord \/ CutRecord
    PROVE  LET old == records[date]
               new == records'[date]
           IN  /\ pc = "record" /\ pc' # "append" /\ pc' # "record" /\ run \in Runs
               /\ UNCHANGED <<run, day>>
               /\ \A d \in Days : d # date => records'[d] = records[d]
               /\ new = old \/ new.made
               /\ new.last = old.last \/ new.last = run
               /\ AppendRecord => /\ new.made /\ new.last = run /\ ~new.open
                                  /\ ~new.ok => old.open
                                  /\ storedOn' = [storedOn EXCEPT ![run] = date]
                                  /\ hurt' = hurt
               /\ ~AppendRecord => storedOn' = storedOn /\ hurt' = hurt \cup {date}
  <1> DEFINE old == records[date]
             w == RecordWritten(old)
             torn == [w EXCEPT !.runs = {e \in w.runs : e.run # run}, !.ok = FALSE,
                               !.open = TRUE]
             bare == [w EXCEPT !.open = TRUE]
             made == [old EXCEPT !.made = TRUE]
  <1> HIDE DEF Lists, RecordFiles, Modes, Lines, Runs, Days
  <1>1. pc = "record" /\ run \in Runs /\ date \in Days /\ records \in [Days -> RecordFiles]
    BY DEF AppendRecord, CutRecord, Numbered, TypeOK
  <1>2. w \in RecordFiles /\ old \in RecordFiles
    BY <1>1, RecordTyped
  <1>3. w.made /\ w.last = run /\ ~w.open /\ w.ok = ~old.open
    BY DEF RecordWritten
  <1>4. /\ UNCHANGED <<run, day>> /\ pc' # "append" /\ pc' # "record"
        /\ AppendRecord => /\ storedOn' = [storedOn EXCEPT ![run] = date] /\ hurt' = hurt
                           /\ records' = [records EXCEPT ![date] = w]
        /\ CutRecord => /\ storedOn' = storedOn /\ hurt' = hurt \cup {date}
    BY DEF AppendRecord, CutRecord, End
  <1>5. CutRecord => \/ UNCHANGED records
                     \/ records' = [records EXCEPT ![date].made = TRUE]
                     \/ records' = [records EXCEPT ![date] = torn]
                     \/ records' = [records EXCEPT ![date] = bare]
    BY DEF CutRecord
  <1> HIDE DEF w
  <1>6. /\ torn.made = w.made /\ torn.last = w.last
        /\ bare.made = w.made /\ bare.last = w.last
        /\ made.made /\ made.last = old.last
    BY <1>2 DEF RecordFiles
  <1>7. CutRecord => records'[date] \in {old, made, torn, bare}
    BY <1>1, <1>5
  <1>8. \A d \in Days : d # date => records'[d] = records[d]
    BY <1>1, <1>4, <1>5
  <1>9. AppendRecord => records'[date] = w
    BY <1>1, <1>4
  <1> HIDE DEF torn, bare, made
  <1>10. CutRecord => /\ records'[date] = old \/ records'[date].made
                      /\ records'[date].last = old.last \/ records'[date].last = run
    BY <1>3, <1>6, <1>7
  <1>11. CASE AppendRecord
    BY <1>1, <1>3, <1>4, <1>8, <1>9, <1>11
  <1>12. CASE CutRecord /\ ~AppendRecord
    BY <1>1, <1>4, <1>8, <1>10, <1>12
  <1> QED
    BY <1>11, <1>12

\* A record is written.
LEMMA LatestRecordStep ==
    ASSUME TypeOK, TypeOK', Numbered, LatestInv, AppendRecord \/ CutRecord
    PROVE  LatestInv'
  <1> DEFINE old == records[date]
             new == records'[date]
  <1> HIDE DEF Lists, RecordFiles, Modes, Lines, Runs, Days
  <1>1. /\ pc = "record" /\ pc' # "append" /\ pc' # "record" /\ run \in Runs
        /\ UNCHANGED <<run, day>>
        /\ \A d \in Days : d # date => records'[d] = records[d]
        /\ new = old \/ new.made
        /\ new.last = old.last \/ new.last = run
        /\ AppendRecord => /\ new.made /\ new.last = run /\ ~new.open
                           /\ ~new.ok => old.open
                           /\ storedOn' = [storedOn EXCEPT ![run] = date]
                           /\ hurt' = hurt
        /\ ~AppendRecord => storedOn' = storedOn /\ hurt' = hurt \cup {date}
    BY RecordIs
  <1>2. /\ date \in Days /\ day \in Nat /\ run \in Nat /\ run > 0
        /\ Days \subseteq Nat /\ Runs \subseteq Nat
        /\ storedOn \in [Runs -> Days \cup {0}] /\ 0 \notin Days
    BY <1>1, DaysAre, RunsAre DEF TypeOK, Days, Runs
  <1>3. \A d \in Days : records[d].last \in Nat /\ records'[d].last \in Nat
    <2>1. \A f \in RecordFiles : f.last \in Nat
      BY DEF RecordFiles
    <2> QED
      BY <2>1 DEF TypeOK
  <1> HIDE DEF TypeOK
  <1>4. date <= day /\ \A d \in Days : records[d].made => d <= date
    BY <1>1 DEF LatestInv
  <1>5. \A r \in Runs : storedOn'[r] # 0 =>
          \/ storedOn'[r] = storedOn[r]
          \/ AppendRecord /\ r = run /\ storedOn'[r] = date
    BY <1>1, <1>2
  <1>6. \A d \in Days :
          /\ records'[d].made => d <= day'
          /\ ~records'[d].made => records'[d].last = 0
          /\ records'[d].made /\ (records'[d].last = 0 \/ ~records'[d].ok) => d \in hurt'
          /\ records'[d].open => d \in hurt'
    <2>1. ASSUME NEW d \in Days, d # date
          PROVE  /\ records'[d].made => d <= day'
                 /\ ~records'[d].made => records'[d].last = 0
                 /\ records'[d].made /\ (records'[d].last = 0 \/ ~records'[d].ok) => d \in hurt'
                 /\ records'[d].open => d \in hurt'
      BY <1>1, <2>1 DEF LatestInv
    <2>2. /\ new.made => date <= day'
          /\ ~new.made => new.last = 0
          /\ new.made /\ (new.last = 0 \/ ~new.ok) => date \in hurt'
          /\ new.open => date \in hurt'
      BY <1>1, <1>2, <1>4 DEF LatestInv
    <2> QED
      BY <2>1, <2>2
  <1>7. \A r \in Runs : storedOn'[r] # 0 =>
          /\ r <= run'
          /\ records'[storedOn'[r]].made /\ records'[storedOn'[r]].last >= r
    <2> SUFFICES ASSUME NEW r \in Runs, storedOn'[r] # 0
                 PROVE  /\ r <= run'
                        /\ records'[storedOn'[r]].made /\ records'[storedOn'[r]].last >= r
      OBVIOUS
    <2>1. CASE AppendRecord /\ r = run /\ storedOn'[r] = date
      BY <1>1, <1>2, <2>1
    <2>2. CASE storedOn'[r] = storedOn[r]
      <3>1. /\ r <= run /\ storedOn[r] \in Days
            /\ records[storedOn[r]].made /\ records[storedOn[r]].last >= r
        BY <1>2, <2>2 DEF LatestInv
      <3>2. CASE storedOn[r] # date
        BY <1>1, <2>2, <3>1, <3>2
      <3>3. CASE storedOn[r] = date
        BY <1>1, <1>2, <2>2, <3>1, <3>3
      <3> QED
        BY <3>2, <3>3
    <2> QED
      BY <1>5, <2>1, <2>2
  <1>8. \A f \in Days, r \in Runs :
          storedOn'[r] # 0 /\ records'[f].last > 0 /\ r > records'[f].last => storedOn'[r] >= f
    <2> SUFFICES ASSUME NEW f \in Days, NEW r \in Runs, storedOn'[r] # 0,
                        records'[f].last > 0, r > records'[f].last
                 PROVE  storedOn'[r] >= f
      OBVIOUS
    <2>1. f \in Nat /\ r \in Nat /\ r <= run
      BY <1>1, <1>2, <1>7
    <2>2. CASE AppendRecord /\ r = run /\ storedOn'[r] = date
      <3>1. f # date
        BY <1>1, <1>2, <2>1, <2>2
      <3>2. records'[f] = records[f]
        BY <1>1, <3>1
      <3>3. records[f].made
        BY <1>3, <3>2 DEF LatestInv
      <3> QED
        BY <1>2, <1>4, <2>1, <2>2, <3>3
    <2>3. CASE storedOn'[r] = storedOn[r]
      <3>1. CASE records'[f].last = records[f].last
        BY <2>3, <3>1 DEF LatestInv
      <3>2. CASE records'[f].last = run
        BY <1>2, <2>1, <3>2
      <3> QED
        BY <1>1, <3>1, <3>2
    <2> QED
      BY <1>5, <2>2, <2>3
  <1> QED
    BY <1>1, <1>6, <1>7, <1>8 DEF LatestInv

LEMMA LatestStep == TypeOK /\ Numbered /\ LatestInv /\ [Next]_vars => (TypeOK' => LatestInv')
  <1> SUFFICES ASSUME TypeOK, Numbered, LatestInv, [Next]_vars, TypeOK' PROVE LatestInv'
    OBVIOUS
  <1> HIDE DEF Lists, RecordFiles, Modes, Lines, Runs, Days
  <1>1. /\ day \in Days /\ day' \in Days /\ run \in Nat /\ run' \in Nat
        /\ Days \subseteq Nat
    BY DaysAre, RunsAre DEF TypeOK
  <1>2. day' = day => day' >= day
    BY <1>1
  <1>3. CASE AppendRecord \/ CutRecord
    BY <1>3, LatestRecordStep
  <1>4. CASE Outside
    BY <1>1, <1>4, NothingStored DEF Outside
  <1>5. CASE Start
    BY <1>1, <1>2, <1>5, NothingStored DEF Start
  <1>6. CASE Collect \/ Ingest \/ MergeInbox
    <2>1. /\ UNCHANGED <<records, storedOn, hurt, day, run>>
          /\ pc' \in {"ingest", "merge", "store"}
      BY <1>6 DEF Collect, Ingest, MergeInbox
    <2> QED
      BY <1>1, <1>2, <2>1, NothingStored
  <1>7. CASE OpenStore
    BY <1>1, <1>2, <1>7, NothingStored DEF OpenStore, PartitionDate
  <1>8. CASE Stops
    <2>1. UNCHANGED <<records, storedOn, hurt, day, run>> /\ pc' = "idle"
      BY <1>8 DEF Stops, End
    <2> QED
      BY <1>1, <1>2, <2>1, NothingStored
  <1>9. CASE AppendItems
    <2>1. /\ UNCHANGED <<records, storedOn, hurt, day, run, date>>
          /\ pc = "append" /\ pc' = "record"
      BY <1>9 DEF AppendItems
    <2> QED
      BY <1>1, <1>2, <2>1, NothingStored
  <1>10. CASE Score \/ Assess \/ AssessDegrades
    <2>1. /\ UNCHANGED <<records, storedOn, hurt, day, run>>
          /\ pc' \in {"assess", "publish"}
      BY <1>10 DEF Score, Assess, AssessDegrades
    <2> QED
      BY <1>1, <1>2, <2>1, NothingStored
  <1>11. CASE CutItems
    <2>1. /\ UNCHANGED <<records, storedOn, day, run>> /\ hurt \subseteq hurt'
          /\ pc' = "idle"
      BY <1>11 DEF CutItems, End
    <2> QED
      BY <1>1, <1>2, <2>1, NothingStored
  <1> QED
    BY <1>3, <1>4, <1>5, <1>6, <1>7, <1>8, <1>9, <1>10, <1>11, StepIs DEF Steps

LEMMA LatestHolds == Spec => []LatestInv
  <1>1. Init => LatestInv
    BY DEF Init, NoRecords, LatestInv
  <1> QED
    BY <1>1, LatestStep, NumbersHold, PTL DEF Spec

\* The run the dashboard shows as the latest is the latest that was stored, over
\* all the files; it shows an error or nothing only after an append of the last
\* day was cut off (dashboard_repository.py:41-62).
THEOREM LatestRunIsTheLatest == Spec => []LatestRunIsTrue
  <1>1. TypeOK /\ LatestInv => LatestRunIsTrue
    <2> SUFFICES ASSUME TypeOK, LatestInv PROVE LatestRunIsTrue
      OBVIOUS
    <2> HIDE DEF Lists, RecordFiles, Modes, Lines, Runs, Days
    <2>1. CASE RunFiles = {}
      BY <2>1 DEF LatestRun, LatestRunIsTrue
    <2>2. CASE RunFiles # {}
      <3> DEFINE f == LastFile
      <3>1. f \in Days /\ records[f].made /\ \A d \in Days : records[d].made => d <= f
        BY <2>2, LastFileIs DEF RunFiles
      <3>2. LatestRun.status # "run" => records[f].last = 0 \/ ~records[f].ok
        BY <2>2 DEF LatestRun
      <3>3. LatestRun.status # "run" => f \in hurt
        BY <3>1, <3>2 DEF LatestInv
      <3>4. LatestRun.status = "run" => LatestRun.run = records[f].last /\ records[f].last # 0
        BY <2>2 DEF LatestRun
      <3> HIDE DEF f
      <3>5. ASSUME records[f].last # 0, NEW r \in Runs, r > records[f].last, storedOn[r] # 0
            PROVE  FALSE
        <4>1. storedOn[r] \in Days /\ f \in Nat /\ r \in Nat /\ Days \subseteq Nat
          BY <3>1, <3>5, DaysAre, RunsAre DEF TypeOK
        <4>2. records[f].last \in Nat
          <5>1. records[f] \in RecordFiles
            BY <3>1 DEF TypeOK
          <5> QED
            BY <5>1 DEF RecordFiles
        <4>3. storedOn[r] >= f
          BY <3>1, <3>5, <4>2 DEF LatestInv
        <4>4. records[storedOn[r]].made /\ records[storedOn[r]].last >= r
          BY <3>5 DEF LatestInv
        <4>5. storedOn[r] = f
          BY <3>1, <4>1, <4>3, <4>4
        <4> QED
          BY <3>5, <4>1, <4>2, <4>4, <4>5
      <3> QED
        BY <3>3, <3>4, <3>5 DEF LatestRunIsTrue, f
    <2> QED
      BY <2>1, <2>2
  <1> QED
    BY <1>1, TypeCorrect, LatestHolds, PTL

=============================================================================
