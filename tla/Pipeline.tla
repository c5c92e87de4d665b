------------------------------ MODULE Pipeline ------------------------------
(***************************************************************************)
(* The files of a refresh: the adapter output, canonical-items/latest.json *)
(* and the daily store, what each step reads and leaves in them, and the   *)
(* list of signals it publishes.  Refreshes follow one another, of the     *)
(* legacy runner or of the workflow, with and without the inbox and the    *)
(* agent; pages are shared and midnight passes at any time.  A refresh may *)
(* end at any step, by a crash or a write that raises: then what it was    *)
(* appending is on the disk up to some byte.  Calls that overlap are the   *)
(* subject of RefreshLock, the steps' history that of L4Workflow.          *)
(*                                                                         *)
(* A day's items file is the set of its lines and how it reads: the writer  *)
(* leaves the line separators of Unicode in an item's text as they are, and *)
(* the reader cuts the file at each of them.                               *)
(***************************************************************************)
EXTENDS Ranking

CONSTANTS
    Feeds,     \* enabled rss sources
    MaxItems,  \* entries taken from a feed
    Splits,    \* items whose text holds a U+0085, U+2028 or U+2029
    MaxRuns    \* bound on the refreshes

Runs == 1..MaxRuns
Modes == {"legacy", "baseline", "agent"}
Lines == [item : Items, run : Runs]

ASSUME PipelineAssumption ==
    /\ \A e \in Entries : About[e].source \in Feeds /\ About[e].position \in Nat
    /\ \A e, o \in Entries : About[e].position = About[o].position => e = o
    /\ IsFiniteSet(Feeds)
    /\ Splits \subseteq Items
    /\ MaxItems \in Nat /\ MaxRuns \in Nat

VARIABLES
    day,       \* the local date
    inbox,     \* pages shared so far
    pc,        \* the step the refresh is at, or "idle"
    run,       \* the last refresh that was started
    mode,      \* of the refresh: which runner, and whether the agent ranks
    inboxOn,   \* the inbox flag of the refresh
    fetched,   \* data/adapter-output/rss-fetch-latest.json
    canonical, \* data/canonical-items/latest.json
    date,      \* the partition of the store in progress
    pending,   \* the items it appends
    stored,    \* data/store/items: the lines, per day
    tail,      \* and how it reads: clean, bare (no newline at its end) or broken
    records,   \* data/store/runs: what can be read of it, per day
    asOf,      \* generated_at
    baseline,  \* baseline_output: a list of signals
    pool,      \* the candidates
    opinion,   \* what the agent said of them
    ranked,    \* final_output
    latest,    \* data/signals/latest.json
    storedOn,  \* history: the day a refresh was stored on, 0 before
    asked,     \* history: the pages shared before the refresh began
    hurt,      \* history: days on which an append was cut off
    refused    \* history: days on which a store could not read the file

setup == <<mode, inboxOn, asked>>
files == <<fetched, canonical>>
store == <<stored, tail, records>>
results == <<baseline, pool, opinion, ranked>>
work == <<setup, files, date, pending, asOf, results>>
vars == <<day, inbox, pc, run, work, store, latest, storedOn, hurt, refused>>

NoRecords == [made |-> FALSE, runs |-> {}, last |-> 0, ok |-> TRUE, open |-> FALSE]
NoList == [items |-> {}, score |-> [i \in Items |-> 0]]
\* The assessments are a function on the pool.
NoOpinion == [i \in {} |-> None]

NothingDone ==
    /\ mode = "legacy" /\ inboxOn = FALSE /\ asked = {}
    /\ fetched = {} /\ canonical = {}
    /\ date = 1 /\ pending = {} /\ asOf = 1
    /\ baseline = {} /\ pool = {} /\ opinion = NoOpinion /\ ranked = NoList

Init ==
    /\ day = 1 /\ inbox = {} /\ pc = "idle" /\ run = 0
    /\ NothingDone
    /\ stored = [d \in Days |-> {}] /\ tail = [d \in Days |-> "clean"]
    /\ records = [d \in Days |-> NoRecords]
    /\ latest = [run |-> 0, mode |-> "legacy", items |-> {}]
    /\ storedOn = [r \in Runs |-> 0] /\ hurt = {} /\ refused = {}

\* The end of a refresh.  What it held in memory is gone, and the two files it
\* handed on are never read again: the next one writes them before it reads.
End ==
    /\ pc' = "idle"
    /\ mode' = "legacy" /\ inboxOn' = FALSE /\ asked' = {}
    /\ fetched' = {} /\ canonical' = {}
    /\ date' = 1 /\ pending' = {} /\ asOf' = 1
    /\ baseline' = {} /\ pool' = {} /\ opinion' = NoOpinion /\ ranked' = NoList

-----------------------------------------------------------------------------
(* Around the refreshes *)

Midnight ==
    /\ day < MaxDay /\ day' = day + 1
    /\ UNCHANGED <<inbox, pc, run, work, store, latest, storedOn, hurt, refused>>

\* inbox.submit: a submission that is repeated without its id is another item.
\* Its fetched_at stands for the date of publication.
Submit(s) ==
    /\ s \notin inbox /\ About[s].published = day /\ inbox' = inbox \cup {s}
    /\ UNCHANGED <<day, pc, run, work, store, latest, storedOn, hurt, refused>>

Start ==
    /\ pc = "idle" /\ run < MaxRuns
    /\ run' = run + 1 /\ pc' = "collect" /\ mode' \in Modes
    /\ inboxOn' \in IF mode' = "legacy" THEN {FALSE} ELSE BOOLEAN
    /\ asked' = inbox
    /\ UNCHANGED <<day, inbox, files, date, pending, asOf, results, store, latest,
                   storedOn, hurt, refused>>

-----------------------------------------------------------------------------
(* Collect and ingest *)

\* The entries of a feed up to the limit; a feed that cannot be read has none.
Parsed(f) ==
    {e \in Entries : /\ About[e].source = f
                     /\ Cardinality({o \in Entries : About[o].source = f
                                        /\ About[o].position < About[e].position}) < MaxItems}

\* fetch, and the file it writes.
Collect ==
    /\ pc = "collect"
    /\ \E reached \in SUBSET Feeds : fetched' = UNION {Parsed(f) : f \in reached}
    /\ pc' = "ingest"
    /\ UNCHANGED <<day, inbox, run, setup, canonical, date, pending, asOf, results, store,
                   latest, storedOn, hurt, refused>>

\* The first strategy of the provider's rules that has a value, and the value.
DedupeKey(i) ==
    LET a == About[i]
        strategy(s) == IF a.platform THEN "platform_item_id" ELSE s
    IN  IF i \in Shares THEN <<"normalized_link", a.link>>
        ELSE IF a.guid # None THEN <<strategy("guid"), a.guid>>
        ELSE IF a.link # None THEN <<strategy("normalized_link"), a.link>>
        ELSE <<"source_id_title_published_at", i>>

\* A hash of the dedupe key, or of the id of the inbox item.
Id(i) == IF i \in Shares THEN <<"inbox", i>> ELSE DedupeKey(i)
Ids(S) == {Id(i) : i \in S}

\* Mutant: only entries of one source are compared.
IngestPerSource(raw, known) ==
    LET named == {e \in raw : About[e].source \in known /\ About[e].titled}
    IN  {e \in named : \A o \in named \ {e} :
            About[o].source = About[e].source /\ DedupeKey(o) = DedupeKey(e) =>
                About[e].position < About[o].position}

\* Entries of known sources with a title; the first of each dedupe key stays.
Ingested(raw, known) ==
    LET named == {e \in raw : About[e].source \in known /\ About[e].titled}
    IN  {e \in named : \A o \in named \ {e} :
            DedupeKey(o) = DedupeKey(e) => About[e].position < About[o].position}

\* The legacy runner reads config/sources.yml again, which may have changed.
Ingest ==
    /\ pc = "ingest"
    /\ \E known \in IF mode = "legacy" THEN SUBSET Feeds ELSE {Feeds} :
          canonical' = Ingested(fetched, known)
    /\ pc' = IF inboxOn THEN "merge" ELSE "store"
    /\ UNCHANGED <<day, inbox, run, setup, fetched, date, pending, asOf, results, store,
                   latest, storedOn, hurt, refused>>

\* Mutant: a page that was stored before is done with.
NewlyMerged(pages) ==
    {s \in pages : \A d \in Days : \A l \in stored[d] : l.item # s}

\* Every page the user ever shared, unless an item has its id.
Merged(pages) == {s \in pages : Id(s) \notin Ids(canonical)}

MergeInbox ==
    /\ pc = "merge"
    /\ canonical' = canonical \cup Merged(inbox)
    /\ pc' = "store"
    /\ UNCHANGED <<day, inbox, run, setup, fetched, date, pending, asOf, results, store,
                   latest, storedOn, hurt, refused>>

-----------------------------------------------------------------------------
(* The daily store *)

\* Mutant: an id counts once its run has a record.
ExistingIdsOfRecordedRuns(d) ==
    {Id(l.item) : l \in {k \in stored[d] : \E e \in records[d].runs : e.run = k.run}}

\* Mutant: what any earlier day has is not stored again.
ExistingIdsOfAllDays(d) == UNION {{Id(l.item) : l \in stored[e]} : e \in Days}

\* jsonl_existing_ids
ExistingIds(d) == {Id(l.item) : l \in stored[d]}

\* Mutant: one partition for all days.
SinglePartition == 1

PartitionDate == day

\* The partition is chosen once.
OpenStore ==
    /\ pc = "store" /\ tail[PartitionDate] # "broken"
    /\ date' = PartitionDate
    /\ pending' = {i \in canonical : Id(i) \notin ExistingIds(date')}
    /\ pc' = "append"
    /\ UNCHANGED <<day, inbox, run, setup, files, asOf, results, store, latest, storedOn,
                   hurt, refused>>

\* A line that is no JSON raises: splitlines has cut one that was written whole,
\* or the writer was cut off.
RefuseStore ==
    /\ pc = "store" /\ tail[PartitionDate] = "broken"
    /\ refused' = refused \cup {day} /\ End
    /\ UNCHANGED <<day, inbox, run, store, latest, storedOn, hurt>>

LinesOf(S) == {[item |-> i, run |-> run] : i \in S}

\* What is written behind a line without a newline continues that line, and a
\* text with a separator is read as two lines.
TailAfter(S) ==
    IF S \cap Splits # {} \/ (S # {} /\ tail[date] = "bare") THEN "broken" ELSE tail[date]

AppendItems ==
    /\ pc = "append"
    /\ stored' = [stored EXCEPT ![date] = @ \cup LinesOf(pending)]
    /\ tail' = [tail EXCEPT ![date] = TailAfter(pending)]
    /\ pc' = "record"
    /\ UNCHANGED <<day, inbox, run, work, records, latest, storedOn, hurt, refused>>

\* Mutant: the record is written without a look at what precedes it.
RecordAlone(f) ==
    [made |-> TRUE, last |-> run, ok |-> TRUE, open |-> FALSE,
     runs |-> f.runs \cup {[run |-> run, appended |-> 0]}]

\* A record that continues an open line makes it unreadable.
RecordWritten(f) ==
    [made |-> TRUE, last |-> run, ok |-> ~f.open, open |-> FALSE,
     runs |-> IF f.open THEN {e \in f.runs : e.run # f.last}
              ELSE f.runs \cup {[run |-> run, appended |-> Cardinality(pending)]}]

AppendRecord ==
    /\ pc = "record"
    /\ records' = [records EXCEPT ![date] = RecordWritten(@)]
    /\ storedOn' = [storedOn EXCEPT ![run] = date]
    /\ pc' = "score"
    /\ UNCHANGED <<day, inbox, run, work, stored, tail, latest, hurt, refused>>

-----------------------------------------------------------------------------
(* Scoring, ranking, publishing *)

\* build_output: not one item of a batch is merged with another.
Score ==
    /\ pc = "score"
    /\ asOf' = day
    /\ baseline' = First(TopN, Eligible(canonical), Baseline[day], day)
    /\ pc' = IF mode = "agent" THEN "assess" ELSE "publish"
    /\ ranked' = [items |-> baseline', score |-> [i \in Items |-> 100 * Baseline[day][i]]]
    /\ UNCHANGED <<day, inbox, run, setup, files, date, pending, pool, opinion, store,
                   latest, storedOn, hurt, refused>>

\* Mutant: the ranking takes the time anew.
AssessAt == day

\* generated_at of the baseline
RankedAt == asOf

\* rank: an assessment, or a failed call, for each candidate.
Assess ==
    /\ pc = "assess"
    /\ pool' = CandidatePool(Eligible(canonical), RankedAt)
    /\ opinion' \in [pool' -> Opinions \cup {None}]
    /\ LET score == FinalScore(opinion', RankedAt)
       IN  ranked' = [items |-> Rank(Eligible(canonical), score, RankedAt), score |-> score]
    /\ pc' = "publish"
    /\ UNCHANGED <<day, inbox, run, setup, files, date, pending, asOf, baseline, store,
                   latest, storedOn, hurt, refused>>

\* rank raises, in the audit or in the store of the ranked rows: the list of the
\* baseline is published.
AssessDegrades ==
    /\ pc = "assess" /\ pc' = "publish" /\ mode' = "baseline"
    /\ UNCHANGED <<day, inbox, run, inboxOn, asked, files, date, pending, asOf, results,
                   store, latest, storedOn, hurt, refused>>

Publish ==
    /\ pc = "publish"
    /\ latest' = [run |-> run, mode |-> mode, items |-> ranked.items]
    /\ End
    /\ UNCHANGED <<day, inbox, run, store, storedOn, hurt, refused>>

-----------------------------------------------------------------------------
(* A refresh that ends before its time *)

\* A step that raises, or a crash outside the appends.
Abandon ==
    /\ pc \notin {"idle", "append", "record"}
    /\ End
    /\ UNCHANGED <<day, inbox, run, store, latest, storedOn, hurt, refused>>

\* Some lines are complete, then the last lacks its newline or one is torn.
CutItems ==
    /\ pc = "append" /\ End
    /\ \E whole \in SUBSET pending, end \in {"clean", "bare", "broken"} :
          /\ end = "bare" => whole # {}
          /\ end = "broken" => whole # pending
          /\ stored' = [stored EXCEPT ![date] = @ \cup LinesOf(whole)]
          /\ tail' = [tail EXCEPT ![date] =
                IF TailAfter(whole) = "broken" \/ (@ = "bare" /\ end = "broken")
                THEN "broken"
                ELSE IF whole = {} /\ end = "clean" THEN @ ELSE end]
    /\ hurt' = hurt \cup {date}
    /\ UNCHANGED <<day, inbox, run, records, latest, storedOn, refused>>

\* Nothing is written, an empty file made, or the record in part or in whole.
CutRecord ==
    LET written == RecordWritten(records[date])
        others == {e \in written.runs : e.run # run}
    IN
    /\ pc = "record" /\ End
    /\ \/ UNCHANGED records
       \/ records' = [records EXCEPT ![date].made = TRUE]
       \/ records' = [records EXCEPT ![date] =
             [written EXCEPT !.runs = others, !.ok = FALSE, !.open = TRUE]]
       \/ records' = [records EXCEPT ![date] = [written EXCEPT !.open = TRUE]]
    /\ hurt' = hurt \cup {date}
    /\ UNCHANGED <<day, inbox, run, stored, tail, latest, storedOn, refused>>

-----------------------------------------------------------------------------
(* What the dashboard reads: the last line of the last file *)

RunFiles == {d \in Days : records[d].made}

\* Mutant: the names are not put in order of the days.
FirstFile == CHOOSE d \in RunFiles : \A e \in RunFiles : d <= e

LastFile == CHOOSE d \in RunFiles : \A e \in RunFiles : e <= d

LatestRun ==
    IF RunFiles = {} \/ records[LastFile].last = 0 THEN [status |-> "empty", run |-> 0]
    ELSE IF records[LastFile].ok THEN [status |-> "run", run |-> records[LastFile].last]
    ELSE [status |-> "error", run |-> 0]

-----------------------------------------------------------------------------
Next ==
    \/ Midnight
    \/ \E s \in Shares : Submit(s)
    \/ Start \/ Collect \/ Ingest \/ MergeInbox
    \/ OpenStore \/ RefuseStore \/ AppendItems \/ AppendRecord
    \/ Score \/ Assess \/ AssessDegrades \/ Publish
    \/ Abandon \/ CutItems \/ CutRecord

Spec == Init /\ [][Next]_vars

-----------------------------------------------------------------------------
(* Properties *)

RecordFiles ==
    [made : BOOLEAN, runs : SUBSET [run : Runs, appended : Nat], last : Nat,
     ok : BOOLEAN, open : BOOLEAN]
Lists == [items : SUBSET Items, score : [Items -> 0..MaxScore]]

\* The state is well typed.
TypeOK ==
    /\ day \in Days /\ date \in Days /\ asOf \in Days
    /\ inbox \subseteq Shares /\ asked \subseteq Shares
    /\ pc \in {"idle", "collect", "ingest", "merge", "store", "append", "record",
               "score", "assess", "publish"}
    /\ run \in 0..MaxRuns /\ mode \in Modes /\ inboxOn \in BOOLEAN
    /\ fetched \subseteq Entries
    /\ {canonical, pending, baseline, pool} \subseteq SUBSET Items
    /\ opinion \in [pool -> Opinions \cup {None}]
    /\ stored \in [Days -> SUBSET Lines]
    /\ tail \in [Days -> {"clean", "bare", "broken"}]
    /\ records \in [Days -> RecordFiles]
    /\ ranked \in Lists
    /\ latest \in [run : 0..MaxRuns, mode : Modes, items : SUBSET Items]
    /\ storedOn \in [Runs -> Days \cup {0}]
    /\ hurt \subseteq Days /\ refused \subseteq Days

\* The items handed to the store and the scorer have different ids, and two
\* with one dedupe key are there only because a page was shared that a feed
\* brings as well, or shared twice: ingest, then the merge of the inbox.
HandoffHasNoTwins ==
    pc \in {"store", "append", "record", "score", "assess", "publish"} =>
        \A i, j \in canonical : i # j =>
            /\ Id(i) # Id(j)
            /\ DedupeKey(i) = DedupeKey(j) => {i, j} \cap Shares # {}

\* A run record that can be read counts the lines its refresh appended.
RecordsAccount ==
    \A d \in Days : \A e \in records[d].runs :
        Cardinality({l \in stored[d] : l.run = e.run}) = e.appended

\* A line of the day was written whole and reads as two.
HoldsSplit(d) == \E l \in stored[d] : l.item \in Splits

\* A store finds a day's file unreadable only if an append of that very day was
\* cut off, or a text with a line separator was stored on it: damage, whichever
\* of the two made it, does not outlive its day.
DamageStaysInItsDay == \A d \in refused : d \in hurt \/ HoldsSplit(d)

\* Everything in latest.json is, by its id, in the file of the day its refresh
\* was stored on, which can be read unless an append of that day was cut off or a
\* text with a line separator was stored on it.
PublishedIsStored ==
    latest.run > 0 =>
        LET d == storedOn[latest.run]
        IN  /\ d # 0
            /\ \A i \in latest.items : \E l \in stored[d] : Id(l.item) = Id(i)
            /\ tail[d] = "broken" => d \in hurt \/ HoldsSplit(d)

\* What the user shared before a refresh with the inbox began is in the file of
\* the day when it scores.
SharesAreStored ==
    inboxOn /\ pc \in {"score", "assess", "publish"} =>
        \A s \in asked : \E l \in stored[date] : l.item = s

\* The run the dashboard shows as the latest is the latest one stored, although
\* the files are one per day; it shows an error or nothing only if an append of
\* the last day was cut off.
LatestRunIsTrue ==
    /\ LatestRun.status = "run" => \A r \in Runs : r > LatestRun.run => storedOn[r] = 0
    /\ LatestRun.status # "run" /\ RunFiles # {} => LastFile \in hurt

\* A list the agent took part in has no story twice, although the feeds and the
\* inbox may have brought it under several ids.
OneStoryOnce ==
    latest.mode = "agent" =>
        \A x, y \in latest.items : Story(x) = Story(y) => x = y

\* When no assessment counts, because the calls failed or the batch was
\* rejected, the list is the baseline, with the baseline's scores, without the
\* later tellings of a story.
FallbackIsBaseline ==
    mode = "agent" /\ pc = "publish" /\ (\A i \in Items : Counted(opinion)[i] = None) =>
        /\ \A i \in Items : ranked.score[i] = 100 * Baseline[asOf][i]
        /\ \A x \in baseline :
              x \in ranked.items <=> \A y \in baseline :
                  Ahead(Baseline[asOf], asOf, y, x) => Story(y) # Story(x)

\* The agent cannot lift an item over one whose baseline leads by more than the
\* agent's weight can bring: that one, or a better telling of it, comes before.
LeadIsKept ==
    mode = "agent" /\ pc = "publish" =>
        \A x \in Eligible(canonical), y \in ranked.items :
            65 * Baseline[asOf][x] > 100 * Baseline[asOf][y]
                /\ 65 * Baseline[asOf][x] > 65 * Baseline[asOf][y] + 15750 =>
            \E z \in ranked.items : Story(z) = Story(x) /\ Ahead(ranked.score, asOf, z, y)

\* The daily files and latest.json are a journal in days with a list drawn from
\* it: whatever is cut off and made again, a refresh appends once, to the last
\* day, no id the day has already, and publishes only what has an id of that day.
Journal ==
    INSTANCE DailyJournal WITH
        Key <- [i \in Items |-> Id(i)], Refreshes <- Runs, journal <- stored,
        shown <- [run |-> latest.run, items |-> latest.items]

ImplementsJournal == Journal!Spec

=============================================================================
