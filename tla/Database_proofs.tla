-------------------------- MODULE Database_proofs --------------------------
(***************************************************************************)
(* Proofs about Database, as a part of Server: for any threads,            *)
(* connections, processes and number of migrations.                        *)
(***************************************************************************)
EXTENDS Server, TLAPS

\* What a step of the server is for the database.
DatabaseNext ==
    \/ \E t \in Threads : Request(t) \/ DatabaseStep(t)
    \/ \E p : DatabaseDies(p)
    \/ UNCHANGED databaseVars

LEMMA StepOfDatabase ==
    ASSUME [Next]_vars
    PROVE  DatabaseNext
  <1>1. CASE UNCHANGED vars
    BY <1>1 DEF vars, DatabaseNext
  <1>2. ASSUME NEW t \in Threads, TakeRequest(t) \/ Serve(t)
        PROVE  DatabaseNext
    BY <1>2 DEF TakeRequest, Serve, DatabaseNext
  <1>3. ASSUME NEW t \in Web, TakeSave(t)
        PROVE  DatabaseNext
    BY <1>3 DEF TakeSave, DatabaseNext
  <1>4. CASE LoadConfig \/ ServerDies \/ OtherDies
    BY <1>4 DEF LoadConfig, ServerDies, OtherDies, DatabaseNext
  <1> QED
    BY <1>1, <1>2, <1>3, <1>4 DEF Next

LEMMA ConnectionsAre ==
    ASSUME NEW t \in Threads
    PROVE  /\ Conn(t) \in Connections
           /\ None \notin Connections
           /\ t # None
  BY DatabaseAssumption DEF Conn, Connections, Threads

-----------------------------------------------------------------------------
(* Who is where: openers, lock holders and the one writer.                    *)

\* Every context is inside the holder's, on the writing connection.
ThreadOK(t) ==
    /\ at[t] \in {"opening", "migrating"} => opener[Conn(t)] = t /\ ~open[Conn(t)]
    /\ at[t] = "migrating" => writer = Conn(t) /\ Pending(Conn(t)) # {} /\ saved = <<>>
    /\ at[t] \in {"run", "begin", "raising"} => open[Conn(t)]
    /\ at[t] = "begin" => /\ lock[Conn(t)] = t
                         /\ work[t].pos <= Len(work[t].program) /\ Token(t) = "enter"
    /\ Inside(t) => /\ at[t] \in {"run", "begin", "raising"}
                    /\ lock[Conn(t)] = t
                    /\ writer = Conn(t)

\* A connection is in a transaction because of one of its threads.
WriterOK ==
    writer # None =>
        \E t \in Threads : Conn(t) = writer /\ (at[t] = "migrating" \/ Inside(t))

\* The frames of the thread inside are BEGIN and the savepoints there are.
FramesOK(t) ==
    Inside(t) =>
        /\ Len(saved) = Len(frames[t]) - 1
        /\ \A i \in 1..Len(frames[t]) : frames[t][i] = i - 1

\* How many contexts a program is in at each of its positions.
Depth ==
    [p \in Programs |-> IF p = AppendOne THEN <<0, 1, 1, 0>> ELSE <<0, 1, 2, 2, 1, 1, 0>>]

\* A thread is in as many contexts as its program says.
DepthOK(t) ==
    /\ at[t] # "idle" => /\ work[t].program \in Programs
                         /\ work[t].request \in 1..requests
                         /\ work[t].pos \in 1..(Len(work[t].program) + 1)
    /\ at[t] \in {"connect", "opening", "migrating"} => work[t].pos = 1
    /\ at[t] \in {"run", "begin"} =>
         Len(frames[t]) = Depth[work[t].program][work[t].pos]
    /\ at[t] = "raising" => Inside(t)

\* A connection has looked at the first so many migrations.
KnownOK(c) == \E k \in 0..Versions : known[c] = 1..k

Placed ==
    /\ \A c \in Connections : KnownOK(c)
    /\ \A t \in Threads : ThreadOK(t) /\ FramesOK(t) /\ DepthOK(t)
    /\ WriterOK
    /\ writer = None => saved = <<>>

\* What is recorded is built, in order; a connection looks at recorded versions
\* only, is handed out when it has looked at all, and no draft changes them.
RecordedIsBuilt ==
    file.tables = file.schema /\ \E n \in 0..Versions : file.schema = 1..n
KnownIsRecorded ==
    \A c \in Connections : /\ known[c] \subseteq file.schema
                           /\ open[c] => file.schema = 1..Versions
SameSchema(f, g) == f.schema = g.schema /\ f.tables = g.tables
DraftsKeepSchema ==
    writer # None => /\ SameSchema(draft, file)
                     /\ \A i \in 1..Len(saved) : SameSchema(saved[i], file)
NobodyBroke == \A t \in Threads : at[t] # "broken"

SchemaInv == RecordedIsBuilt /\ KnownIsRecorded /\ DraftsKeepSchema /\ NobodyBroke

-----------------------------------------------------------------------------
(* Type correctness of the database's state.  The innermost savepoint is one   *)
(* there is because of Placed.                                                *)

LEMMA ProgramsAre ==
    ASSUME NEW p \in Programs
    PROVE  /\ p \in Seq({"enter", "write", "exit"})
           /\ Len(p) \in 3..6
  <1>1. /\ AppendOne \in Seq({"enter", "write", "exit"})
        /\ Len(AppendOne) = 3
    BY DEF AppendOne
  <1>2. /\ ImportAll \in Seq({"enter", "write", "exit"})
        /\ Len(ImportAll) = 6
    BY DEF ImportAll
  <1> QED
    BY <1>1, <1>2 DEF Programs

\* Contexts nest: rows are written inside, and a program that leaves its
\* outermost context, or is in none, is at its end or at its beginning.
LEMMA Nested ==
    ASSUME NEW p \in Programs, NEW i \in 1..Len(p)
    PROVE  /\ Depth[p][i] \in Nat /\ Depth[p][i + 1] \in Nat
           /\ Depth[p][1] = 0 /\ Depth[p][Len(p) + 1] = 0
           /\ p[i] = "enter" => Depth[p][i + 1] = Depth[p][i] + 1
           /\ p[i] = "write" => Depth[p][i] > 0 /\ Depth[p][i + 1] = Depth[p][i]
           /\ p[i] = "exit" => /\ Depth[p][i] = Depth[p][i + 1] + 1
                               /\ Depth[p][i] = 1 => i = Len(p)
           /\ Depth[p][i] = 0 => i = 1
           /\ p[i] \in {"enter", "write", "exit"}
  <1>1. AppendOne # ImportAll
    BY DEF AppendOne, ImportAll
  <1>2. CASE p = AppendOne
    <2>1. Len(p) = 3 /\ Depth[p] = <<0, 1, 1, 0>>
      BY <1>2 DEF Depth, AppendOne
    <2>2. p[1] = "enter" /\ p[2] = "write" /\ p[3] = "exit"
      BY <1>2 DEF AppendOne
    <2>3. i = 1 \/ i = 2 \/ i = 3
      BY <2>1
    <2> QED
      BY <2>1, <2>2, <2>3
  <1>3. CASE p = ImportAll
    <2>1. Len(p) = 6 /\ Depth[p] = <<0, 1, 2, 2, 1, 1, 0>>
      BY <1>1, <1>3 DEF Depth, ImportAll
    <2>2. /\ p[1] = "enter" /\ p[2] = "enter" /\ p[3] = "write"
          /\ p[4] = "exit" /\ p[5] = "write" /\ p[6] = "exit"
      BY <1>3 DEF ImportAll
    <2>3. i = 1 \/ i = 2 \/ i = 3 \/ i = 4 \/ i = 5 \/ i = 6
      BY <2>1
    <2> QED
      BY <2>1, <2>2, <2>3
  <1> QED
    BY <1>2, <1>3 DEF Programs

LEMMA DatabaseInitTyped == DatabaseInit => DatabaseTypeOK
  <1> SUFFICES ASSUME DatabaseInit PROVE DatabaseTypeOK
    OBVIOUS
  <1>1. file \in Files /\ draft \in Files
    BY DatabaseAssumption DEF DatabaseInit, Empty, Files
  <1>2. work \in [Threads -> Works]
    BY DatabaseAssumption DEF DatabaseInit, NoWork, Works
  <1>3. /\ saved \in Seq(Files)
        /\ frames \in [Threads -> Seq(Nat)]
        /\ at \in [Threads -> Places]
    BY DEF DatabaseInit, Places
  <1>4. requests \in 0..MaxRequests /\ acked \subseteq Works /\ refused \subseteq Works
    BY DatabaseAssumption DEF DatabaseInit
  <1>5. /\ writer \in Connections \cup {None}
        /\ open \in [Connections -> BOOLEAN]
        /\ opener \in [Connections -> Threads \cup {None}]
        /\ known \in [Connections -> SUBSET (1..Versions)]
        /\ lock \in [Connections -> Threads \cup {None}]
    BY DEF DatabaseInit
  <1> QED
    BY <1>1, <1>2, <1>3, <1>4, <1>5 DEF DatabaseTypeOK

\* What the ends of a request do.
LEMMA EndsTyped ==
    ASSUME DatabaseTypeOK, NEW t \in Threads, Acknowledge(t) \/ Refuse(t)
    PROVE  /\ at' \in [Threads -> Places] /\ work' \in [Threads -> Works]
           /\ acked' \subseteq Works /\ refused' \subseteq Works
           /\ at'[t] = "idle" /\ work'[t] = NoWork
           /\ \A u \in Threads \ {t} : at'[u] = at[u] /\ work'[u] = work[u]
  <1>1. NoWork \in Works /\ "idle" \in Places
    BY DatabaseAssumption DEF NoWork, Works, Places
  <1>2. at \in [Threads -> Places] /\ work \in [Threads -> Works]
    BY DEF DatabaseTypeOK
  <1>3. acked \subseteq Works /\ refused \subseteq Works
    BY DEF DatabaseTypeOK
  <1> HIDE DEF Works, Places, NoWork
  <1> QED
    BY <1>1, <1>2, <1>3 DEF Acknowledge, Refuse, GoTo

\* The next migration is the one after those looked at.
LEMMA NextVersionIs ==
    ASSUME NEW c \in Connections, NEW k \in 0..Versions, known[c] = 1..k,
           Pending(c) # {}
    PROVE  k + 1 \in 1..Versions /\ NextVersion(c) = k + 1
  <1>1. Versions \in Nat
    BY DatabaseAssumption
  <1>2. Pending(c) = (k + 1)..Versions
    BY <1>1 DEF Pending
  <1>3. k + 1 \in 1..Versions
    BY <1>1, <1>2
  <1>4. \A v \in Pending(c) : (\A u \in Pending(c) : v <= u) <=> v = k + 1
    BY <1>1, <1>2, <1>3
  <1>5. k + 1 \in Pending(c)
    BY <1>1, <1>2, <1>3
  <1> QED
    BY <1>3, <1>4, <1>5 DEF NextVersion

LEMMA AdvanceTyped ==
    ASSUME DatabaseTypeOK, NEW t \in Threads, Advance(t),
           work[t].pos <= Len(work[t].program)
    PROVE  /\ work' \in [Threads -> Works]
           /\ work'[t].request = work[t].request /\ work'[t].program = work[t].program
           /\ work'[t].pos = work[t].pos + 1
           /\ \A u \in Threads \ {t} : work'[u] = work[u]
           /\ work[t].program \in Programs /\ work[t].pos \in 1..6
  <1>1. work \in [Threads -> Works]
    BY DEF DatabaseTypeOK
  <1>2. /\ work[t].program \in Programs \cup {<<>>} /\ work[t].pos \in 1..7
        /\ work[t].request \in 0..MaxRequests
    BY <1>1 DEF Works
  <1>3. work[t].program \in Programs /\ work[t].pos \in 1..6
    <2>1. CASE work[t].program = <<>>
      <3>1. Len(work[t].program) = 0
        BY <2>1
      <3> QED
        BY <1>2, <3>1
    <2>2. CASE work[t].program \in Programs
      <3>1. Len(work[t].program) \in 3..6
        BY <2>2, ProgramsAre
      <3>2. \A n \in 3..6, i \in 1..7 : i <= n => i \in 1..6
        OBVIOUS
      <3>3. work[t].pos <= Len(work[t].program) /\ work[t].pos \in 1..7
        BY <1>2
      <3> QED
        BY <2>2, <3>1, <3>2, <3>3
    <2> QED
      BY <1>2, <2>1, <2>2
  <1>4. [work[t] EXCEPT !.pos = @ + 1] \in Works
    <2>1. work[t] \in [request : 0..MaxRequests, program : Programs \cup {<<>>}, pos : 1..7]
      BY <1>1 DEF Works
    <2>2. work[t].pos + 1 \in 1..7
      BY <1>3
    <2> QED
      BY <2>1, <2>2 DEF Works
  <1>5. work' = [work EXCEPT ![t] = [work[t] EXCEPT !.pos = @ + 1]]
    BY DEF Advance
  <1> QED
    BY <1>1, <1>3, <1>4, <1>5 DEF Works

LEMMA EmptiesTyped == Empty \in Files /\ <<>> \in Seq(Files) /\ <<>> \in Seq(Nat)
  <1>1. Empty \in Files
    BY DatabaseAssumption DEF Empty, Files
  <1> HIDE DEF Files
  <1> QED
    BY <1>1


\* What SubSeq keeps of the beginning of a sequence.
LEMMA Beginning ==
    ASSUME NEW S, NEW s \in Seq(S), NEW n \in 0..Len(s)
    PROVE  /\ SubSeq(s, 1, n) \in Seq(S)
           /\ Len(SubSeq(s, 1, n)) = n
           /\ \A i \in 1..n : SubSeq(s, 1, n)[i] = s[i]
  OBVIOUS

\* The innermost context is a savepoint there is.
LEMMA PopTyped ==
    ASSUME DatabaseTypeOK, Placed, NEW t \in Threads, Inside(t), Frame(t) > 0,
           PopFrame(t), saved' = SubSeq(saved, 1, Frame(t) - 1)
    PROVE  /\ frames' \in [Threads -> Seq(Nat)] /\ saved' \in Seq(Files)
           /\ Frame(t) \in 1..Len(saved) /\ Len(frames[t]) \in Nat /\ Len(frames[t]) > 1
           /\ frames'[t] = SubSeq(frames[t], 1, Len(frames[t]) - 1)
           /\ \A u \in Threads \ {t} : frames'[u] = frames[u]
           /\ Len(frames'[t]) = Len(frames[t]) - 1
           /\ \A i \in 1..Len(frames'[t]) : frames'[t][i] = frames[t][i]
           /\ Frame(t) = Len(frames[t]) - 1 /\ Len(saved') = Frame(t) - 1
           /\ \A i \in 1..(Frame(t) - 1) : saved'[i] = saved[i]
  <1>1. frames \in [Threads -> Seq(Nat)] /\ saved \in Seq(Files)
    BY DEF DatabaseTypeOK
  <1>2. /\ frames[t] # <<>> /\ frames[t] \in Seq(Nat)
        /\ frames[t][Len(frames[t])] > 0
        /\ Len(saved) = Len(frames[t]) - 1
        /\ \A i \in 1..Len(frames[t]) : frames[t][i] = i - 1
    BY <1>1 DEF Placed, FramesOK, Inside, Frame
  <1>3. Len(frames[t]) \in Nat /\ Len(frames[t]) > 1
    BY <1>2
  <1>4. Frame(t) \in 1..Len(saved) /\ Frame(t) = Len(frames[t]) - 1
    BY <1>2, <1>3 DEF Frame
  <1>5. SubSeq(frames[t], 1, Len(frames[t]) - 1) \in Seq(Nat)
    BY <1>2, <1>3
  <1>51. /\ frames'[t] = SubSeq(frames[t], 1, Len(frames[t]) - 1)
         /\ \A u \in Threads \ {t} : frames'[u] = frames[u]
         /\ frames' \in [Threads -> Seq(Nat)]
    BY <1>1, <1>5 DEF PopFrame
  <1>52. /\ Len(frames'[t]) = Len(frames[t]) - 1
         /\ \A i \in 1..Len(frames'[t]) : frames'[t][i] = frames[t][i]
    BY <1>2, <1>3, <1>51
  <1>6. /\ saved' \in Seq(Files) /\ Len(saved') = Frame(t) - 1
        /\ \A i \in 1..(Frame(t) - 1) : saved'[i] = saved[i]
    <2>1. Frame(t) - 1 \in 0..Len(saved)
      BY <1>1, <1>4
    <2> HIDE DEF Files
    <2> QED
      BY <1>1, <2>1, Beginning
  <1> QED
    BY <1>3, <1>4, <1>51, <1>52, <1>6

LEMMA DiedTyped ==
    ASSUME DatabaseTypeOK, NEW p, DatabaseDies(p)
    PROVE  /\ at' \in [Threads -> Places] /\ work' \in [Threads -> Works]
           /\ \A u \in Threads :
                IF InProcess(p, Conn(u))
                THEN at'[u] = "idle" /\ work'[u] = NoWork /\ frames'[u] = <<>>
                ELSE at'[u] = at[u] /\ work'[u] = work[u] /\ frames'[u] = frames[u]
  <1>1. NoWork \in Works /\ "idle" \in Places
    BY DatabaseAssumption DEF NoWork, Works, Places
  <1>2. at \in [Threads -> Places] /\ work \in [Threads -> Works]
    BY DEF DatabaseTypeOK
  <1> HIDE DEF Works, Places, NoWork
  <1> QED
    BY <1>1, <1>2 DEF DatabaseDies, Gone

\* Every step keeps the types of a database whose threads are placed.
LEMMA DatabaseStepTyped ==
    ASSUME DatabaseTypeOK, Placed, DatabaseNext
    PROVE  DatabaseTypeOK'
  <1> USE DatabaseAssumption DEF DatabaseTypeOK
  <1>1. ASSUME NEW t \in Threads, Request(t) PROVE DatabaseTypeOK'
    <2>1. PICK p \in Programs : work' =
             [work EXCEPT ![t] = [request |-> requests + 1, program |-> p, pos |-> 1]]
      BY <1>1 DEF Request
    <2>2. requests' \in 0..MaxRequests /\ requests + 1 \in 0..MaxRequests
      BY <1>1 DEF Request
    <2>3. work' \in [Threads -> Works]
      BY <2>1, <2>2 DEF Works
    <2>4. at' \in [Threads -> Places]
      BY <1>1 DEF Request, GoTo, Places
    <2> QED
      BY <1>1, <2>2, <2>3, <2>4 DEF Request, storage, opening, answers
  <1>2. ASSUME NEW t \in Threads, FindOpen(t) PROVE DatabaseTypeOK'
    BY <1>2 DEF FindOpen, GoTo, Places, storage, opening, answers
  <1>3. ASSUME NEW t \in Threads, Connect(t) PROVE DatabaseTypeOK'
    BY <1>3 DEF Connect, GoTo, Places, Files, storage, answers
  <1>4. ASSUME NEW t \in Threads, BeginMigration(t) PROVE DatabaseTypeOK'
    BY <1>4, ConnectionsAre DEF BeginMigration, GoTo, Places, opening, answers
  <1>5. ASSUME NEW t \in Threads, CommitMigration(t) PROVE DatabaseTypeOK'
    <2> DEFINE c == Conn(t)
               v == NextVersion(c)
    <2>1. ThreadOK(t) /\ at[t] = "migrating"
      BY <1>5 DEF CommitMigration, Placed
    <2>2. v \in 1..Versions
      <3>1. c \in Connections
        BY ConnectionsAre
      <3>2. Pending(c) # {}
        BY <2>1 DEF ThreadOK
      <3>3. PICK k \in 0..Versions : known[c] = 1..k
        BY <3>1 DEF Placed, KnownOK
      <3> HIDE DEF c
      <3>4. k + 1 \in 1..Versions /\ NextVersion(c) = k + 1
        BY <3>1, <3>2, <3>3, NextVersionIs
      <3> QED
        BY <3>4
    <2>3. known' \in [Connections -> SUBSET (1..Versions)]
      BY <1>5, <2>2 DEF CommitMigration
    <2>4. file' \in Files
      BY <1>5, <2>2 DEF CommitMigration, Migrated, Files
    <2>5. at' \in [Threads -> Places]
      BY <1>5 DEF CommitMigration, GoTo, Places
    <2> QED
      BY <1>5, <2>3, <2>4, <2>5, EmptiesTyped DEF CommitMigration, answers
  <1>6. ASSUME NEW t \in Threads, MigrationRaises(t) PROVE DatabaseTypeOK'
    <2>1. /\ at' \in [Threads -> Places] /\ work' \in [Threads -> Works]
          /\ acked' \subseteq Works /\ refused' \subseteq Works
      <3>1. CASE Clashes(draft, NextVersion(Conn(t)))
        BY <1>6, <3>1 DEF MigrationRaises, GoTo, Places, answers
      <3>2. CASE Refuse(t)
        BY <3>2, EndsTyped
      <3> QED
        BY <1>6, <3>1, <3>2 DEF MigrationRaises
    <2> QED
      BY <1>6, <2>1, EmptiesTyped DEF MigrationRaises
  <1>7. ASSUME NEW t \in Threads, Opened(t) PROVE DatabaseTypeOK'
    BY <1>7 DEF Opened, GoTo, Places, storage, answers
  <1>8. ASSUME NEW t \in Threads, OpenRaises(t) PROVE DatabaseTypeOK'
    BY <1>8, EndsTyped DEF OpenRaises, storage
  <1>9. ASSUME NEW t \in Threads, TakeLock(t) PROVE DatabaseTypeOK'
    BY <1>9 DEF TakeLock, GoTo, Places, storage, opening, answers
  <1>10. ASSUME NEW t \in Threads, Savepoint(t) \/ Begin(t) PROVE DatabaseTypeOK'
    <2>1. at[t] = "begin" /\ Advance(t) /\ GoTo(t, "run")
      BY <1>10 DEF Savepoint, Begin
    <2>2. work' \in [Threads -> Works]
      BY <2>1, AdvanceTyped DEF Placed, ThreadOK
    <2>3. at' \in [Threads -> Places]
      BY <2>1 DEF GoTo, Places
    <2>4. saved' \in Seq(Files) /\ frames' \in [Threads -> Seq(Nat)]
      <3> HIDE DEF Files
      <3>1. CASE Savepoint(t)
        <4>1. Append(saved, draft) \in Seq(Files)
          BY DEF DatabaseTypeOK
        <4>2. Append(frames[t], Len(saved) + 1) \in Seq(Nat)
          BY DEF DatabaseTypeOK
        <4> QED
          BY <3>1, <4>1, <4>2 DEF Savepoint
      <3>2. CASE Begin(t)
        <4>1. <<0>> \in Seq(Nat)
          OBVIOUS
        <4> QED
          BY <3>2, <4>1 DEF Begin
      <3> QED
        BY <1>10, <3>1, <3>2
    <2> QED
      BY <1>10, <2>2, <2>3, <2>4, ConnectionsAre DEF Savepoint, Begin, opening, answers
  <1>11. ASSUME NEW t \in Threads, BeginGivesUp(t) PROVE DatabaseTypeOK'
    BY <1>11, EndsTyped DEF BeginGivesUp, storage, opening
  <1>12. ASSUME NEW t \in Threads, WriteRow(t) PROVE DatabaseTypeOK'
    <2>1. work[t].pos <= Len(work[t].program) /\ Advance(t)
      BY <1>12 DEF WriteRow, Runs
    <2>2. work' \in [Threads -> Works]
      BY <2>1, AdvanceTyped
    <2>3. <<work[t].request, work[t].pos>> \in Rows
      BY <2>1, AdvanceTyped DEF Works, Rows
    <2>4. draft' \in Files
      BY <1>12, <2>3 DEF WriteRow, Files
    <2> QED
      BY <1>12, <2>2, <2>4 DEF WriteRow, opening, answers
  <1>13. ASSUME NEW t \in Threads, WriteRaises(t) PROVE DatabaseTypeOK'
    BY <1>13 DEF WriteRaises, GoTo, Places, storage, opening, answers
  <1>14. ASSUME NEW t \in Threads, Release(t) PROVE DatabaseTypeOK'
    <2>1. /\ work[t].pos <= Len(work[t].program) /\ Advance(t)
          /\ Inside(t) /\ Frame(t) > 0 /\ PopFrame(t)
          /\ saved' = SubSeq(saved, 1, Frame(t) - 1)
      BY <1>14 DEF Release, Runs
    <2>2. work' \in [Threads -> Works]
      BY <2>1, AdvanceTyped
    <2>3. frames' \in [Threads -> Seq(Nat)] /\ saved' \in Seq(Files)
      BY <2>1, PopTyped
    <2> QED
      BY <1>14, <2>2, <2>3 DEF Release, opening, answers
  <1>15. ASSUME NEW t \in Threads, Commit(t) PROVE DatabaseTypeOK'
    <2>1. work[t].pos <= Len(work[t].program) /\ Advance(t)
      BY <1>15 DEF Commit, Runs
    <2>2. work' \in [Threads -> Works]
      BY <2>1, AdvanceTyped
    <2> HIDE DEF Files
    <2>3. frames' \in [Threads -> Seq(Nat)]
      BY <1>15, EmptiesTyped DEF Commit
    <2>4. lock' \in [Connections -> Threads \cup {None}]
      BY <1>15 DEF Commit
    <2>5. file' \in Files /\ draft' \in Files /\ saved' \in Seq(Files)
      BY <1>15, EmptiesTyped DEF Commit
    <2> QED
      BY <1>15, <2>2, <2>3, <2>4, <2>5 DEF Commit, opening, answers
  <1>16. ASSUME NEW t \in Threads, CommitRaises(t) PROVE DatabaseTypeOK'
    <2> HIDE DEF Files
    <2>1. frames' \in [Threads -> Seq(Nat)]
      BY <1>16, EmptiesTyped DEF CommitRaises
    <2>2. lock' \in [Connections -> Threads \cup {None}]
      BY <1>16 DEF CommitRaises
    <2>3. draft' \in Files /\ saved' \in Seq(Files)
      BY <1>16, EmptiesTyped DEF CommitRaises
    <2> QED
      BY <1>16, <2>1, <2>2, <2>3, EndsTyped DEF CommitRaises, opening
  <1>17. ASSUME NEW t \in Threads, RollBackTo(t) PROVE DatabaseTypeOK'
    <2>1. /\ Inside(t) /\ Frame(t) > 0 /\ PopFrame(t)
          /\ saved' = SubSeq(saved, 1, Frame(t) - 1)
      BY <1>17 DEF RollBackTo
    <2>2. frames' \in [Threads -> Seq(Nat)] /\ saved' \in Seq(Files)
      BY <2>1, PopTyped
    <2>3. Frame(t) \in 1..Len(saved)
      BY <2>1, PopTyped
    <2>4. draft' \in Files
      BY <1>17, <2>3 DEF RollBackTo
    <2> QED
      BY <1>17, <2>2, <2>4 DEF RollBackTo, opening, answers
  <1>18. ASSUME NEW t \in Threads, RollBack(t) PROVE DatabaseTypeOK'
    <2> HIDE DEF Files
    <2>1. frames' \in [Threads -> Seq(Nat)]
      BY <1>18, EmptiesTyped DEF RollBack
    <2>2. lock' \in [Connections -> Threads \cup {None}]
      BY <1>18 DEF RollBack
    <2>3. draft' \in Files /\ saved' \in Seq(Files)
      BY <1>18, EmptiesTyped DEF RollBack
    <2> QED
      BY <1>18, <2>1, <2>2, <2>3, EndsTyped DEF RollBack, opening
  <1>19. ASSUME NEW t \in Threads, Answer(t) PROVE DatabaseTypeOK'
    BY <1>19, EndsTyped DEF Answer, storage, opening
  <1>20. ASSUME NEW p, DatabaseDies(p) PROVE DatabaseTypeOK'
    <2>1. work' \in [Threads -> Works] /\ at' \in [Threads -> Places]
      BY <1>20, DiedTyped
    <2>2. frames' \in [Threads -> Seq(Nat)]
      BY <1>20 DEF DatabaseDies, Gone
    <2>3. /\ open' \in [Connections -> BOOLEAN]
          /\ opener' \in [Connections -> Threads \cup {None}]
          /\ known' \in [Connections -> SUBSET (1..Versions)]
          /\ lock' \in [Connections -> Threads \cup {None}]
      BY <1>20 DEF DatabaseDies, Down
    <2>4. writer' \in Connections \cup {None} /\ draft' \in Files /\ saved' \in Seq(Files)
      <3> HIDE DEF Files
      <3> QED
        BY <1>20, EmptiesTyped DEF DatabaseDies
    <2> QED
      BY <1>20, <2>1, <2>2, <2>3, <2>4 DEF DatabaseDies, answers
  <1>21. CASE UNCHANGED databaseVars
    BY <1>21 DEF databaseVars, DatabaseTypeOK
  <1>22. ASSUME NEW t \in Threads, DatabaseStep(t) PROVE DatabaseTypeOK'
    BY <1>22, <1>2, <1>3, <1>4, <1>5, <1>6, <1>7, <1>8, <1>9, <1>10, <1>11, <1>12,
       <1>13, <1>14, <1>15, <1>16, <1>17, <1>18, <1>19, Zenon
       DEF DatabaseStep, OpenStep, TransactionStep
  <1> HIDE DEF DatabaseTypeOK
  <1> QED
    BY <1>1, <1>20, <1>21, <1>22 DEF DatabaseNext

-----------------------------------------------------------------------------
(* Every step leaves the threads placed.                                      *)

\* Whoever is inside a connection is the one thread inside it, it is open, and
\* nobody migrates on it.
LEMMA InsideAlone ==
    ASSUME DatabaseTypeOK, Placed, writer # None
    PROVE  \/ \E t \in Threads : at[t] = "migrating" /\ Conn(t) = writer
                                 /\ \A u \in Threads : ~Inside(u)
           \/ \E t \in Threads : Inside(t) /\ Conn(t) = writer /\ lock[writer] = t
                                 /\ \A u \in Threads \ {t} : ~Inside(u)
  BY DEF Placed, ThreadOK, WriterOK

\* A step of t moves t and its connection; and the file and the draft are its
\* connection's, unless nobody writes.
OnlyMoves(t) ==
    /\ \A u \in Threads \ {t} :
         at'[u] = at[u] /\ work'[u] = work[u] /\ frames'[u] = frames[u]
    /\ \A c \in Connections \ {Conn(t)} :
         /\ opener'[c] = opener[c] /\ open'[c] = open[c]
         /\ known'[c] = known[c] /\ lock'[c] = lock[c]
    /\ writer \notin {None, Conn(t)} => UNCHANGED storage

\* Rows are written inside a transaction.
LEMMA RunsInside ==
    ASSUME DatabaseTypeOK, Placed, NEW t \in Threads, Runs(t, "write")
    PROVE  Inside(t) /\ writer = Conn(t) /\ lock[Conn(t)] = t
  <1> DEFINE p == work[t].program
             i == work[t].pos
  <1>1. at[t] = "run" /\ i <= Len(p) /\ p[i] = "write"
    BY DEF Runs, Token
  <1>2. p \in Programs /\ i \in 1..7 /\ Len(frames[t]) = Depth[p][i]
    BY <1>1 DEF Placed, DepthOK, DatabaseTypeOK, Works
  <1>3. i \in 1..Len(p)
    BY <1>1, <1>2, ProgramsAre
  <1>4. Depth[p][i] > 0
    BY <1>1, <1>2, <1>3, Nested
  <1>5. frames[t] # <<>>
    BY <1>2, <1>4
  <1> QED
    BY <1>5 DEF Inside, Placed, ThreadOK

LEMMA StepMoves ==
    ASSUME DatabaseTypeOK, Placed, NEW t \in Threads, Request(t) \/ DatabaseStep(t)
    PROVE  OnlyMoves(t)
  <1> USE ConnectionsAre DEF OnlyMoves, GoTo, storage, opening
  <1>0. /\ at \in [Threads -> Places] /\ work \in [Threads -> Works]
        /\ frames \in [Threads -> Seq(Nat)] /\ open \in [Connections -> BOOLEAN]
        /\ opener \in [Connections -> Threads \cup {None}]
        /\ known \in [Connections -> SUBSET (1..Versions)]
        /\ lock \in [Connections -> Threads \cup {None}]
    BY DEF DatabaseTypeOK
  <1>1. CASE Request(t)
    BY <1>0, <1>1 DEF Request
  <1>2. CASE FindOpen(t) \/ Connect(t) \/ BeginMigration(t) \/ Opened(t)
    BY <1>0, <1>2 DEF FindOpen, Connect, BeginMigration, Opened
  <1>3. CASE CommitMigration(t)
    BY <1>0, <1>3 DEF CommitMigration, Placed, ThreadOK
  <1>4. CASE MigrationRaises(t)
    <2>1. writer = Conn(t)
      BY <1>4 DEF MigrationRaises, Placed, ThreadOK
    <2>2. Refuse(t) \/ (GoTo(t, "broken") /\ UNCHANGED <<work, answers>>)
      BY <1>4 DEF MigrationRaises
    <2> QED
      BY <1>0, <1>4, <2>1, <2>2, EndsTyped DEF MigrationRaises
  <1>5. CASE OpenRaises(t) \/ BeginGivesUp(t) \/ Answer(t)
    BY <1>0, <1>5, EndsTyped DEF OpenRaises, BeginGivesUp, Answer
  <1>6. CASE TakeLock(t) \/ WriteRaises(t)
    BY <1>0, <1>6 DEF TakeLock, WriteRaises
  <1>7. CASE Savepoint(t) \/ Begin(t)
    <2>1. Advance(t) /\ work[t].pos <= Len(work[t].program)
      BY <1>7 DEF Savepoint, Begin, Placed, ThreadOK
    <2> QED
      BY <1>0, <1>7, <2>1, AdvanceTyped DEF Savepoint, Begin
  <1>8. CASE WriteRow(t) \/ Release(t) \/ Commit(t)
    <2>1. Advance(t) /\ work[t].pos <= Len(work[t].program)
      BY <1>8 DEF WriteRow, Release, Commit, Runs
    <2>2. Inside(t)
      BY <1>8, RunsInside DEF WriteRow, Release, Commit
    <2>3. writer = Conn(t)
      BY <2>2 DEF Placed, ThreadOK
    <2> QED
      BY <1>0, <1>8, <2>1, <2>3, AdvanceTyped DEF WriteRow, Release, Commit, PopFrame
  <1>9. CASE CommitRaises(t) \/ RollBackTo(t) \/ RollBack(t)
    <2>1. writer = Conn(t)
      BY <1>9 DEF CommitRaises, RollBackTo, RollBack, Placed, ThreadOK
    <2>2. RollBackTo(t) \/ Refuse(t)
      BY <1>9 DEF CommitRaises, RollBack
    <2> QED
      BY <1>0, <1>9, <2>1, <2>2, EndsTyped DEF CommitRaises, RollBackTo, RollBack, PopFrame
  <1> QED
    BY <1>1, <1>2, <1>3, <1>4, <1>5, <1>6, <1>7, <1>8, <1>9, Zenon
       DEF DatabaseStep, OpenStep, TransactionStep

\* The position of a thread that is not at its end.
LEMMA PosInProgram ==
    ASSUME NEW p \in Programs, NEW i \in 1..6, i <= Len(p)
    PROVE  i \in 1..Len(p) /\ i + 1 \in 1..(Len(p) + 1)
  <1>1. Len(p) \in 3..6
    BY ProgramsAre
  <1>2. \A n \in 3..6 : \A j \in 1..6 : j <= n => j \in 1..n /\ j + 1 \in 1..(n + 1)
    OBVIOUS
  <1> QED
    BY <1>1, <1>2

\* The outermost context is the only one that is no savepoint.
LEMMA OutermostIsFirst ==
    ASSUME NEW t \in Threads, frames[t] \in Seq(Nat), frames[t] # <<>>, FramesOK(t),
           Frame(t) = 0
    PROVE  Len(frames[t]) = 1
  <1>1. Len(frames[t]) \in Nat /\ Len(frames[t]) # 0
    OBVIOUS
  <1>2. \A j \in 1..Len(frames[t]) : frames[t][j] = j - 1
    BY DEF FramesOK, Inside
  <1>3. frames[t][Len(frames[t])] = 0
    BY DEF Frame
  <1>4. Len(frames[t]) \in 1..Len(frames[t])
    BY <1>1
  <1>5. Len(frames[t]) - 1 = 0
    BY <1>2, <1>3, <1>4
  <1> QED
    BY <1>1, <1>5

\* At its end a program is in no context.
LEMMA AtTheEnd ==
    ASSUME DatabaseTypeOK, Placed, NEW t \in Threads, at[t] = "run",
           work[t].pos > Len(work[t].program)
    PROVE  frames[t] = <<>> /\ work[t].pos = Len(work[t].program) + 1
  <1> DEFINE p == work[t].program
             i == work[t].pos
  <1>1. p \in Programs /\ i \in 1..7 /\ Len(frames[t]) = Depth[p][i]
    BY DEF Placed, DepthOK, DatabaseTypeOK, Works
  <1>2. i = Len(p) + 1 /\ 1 \in 1..Len(p)
    <2>1. Len(p) \in 3..6
      BY <1>1, ProgramsAre
    <2>2. i \in 1..(Len(p) + 1) /\ i > Len(p)
      BY DEF Placed, DepthOK
    <2>3. \A n \in 3..6 : \A j \in 1..(n + 1) : j > n => j = n + 1 /\ 1 \in 1..n
      OBVIOUS
    <2> QED
      BY <2>1, <2>2, <2>3
  <1>3. Depth[p][i] = 0
    BY <1>1, <1>2, Nested
  <1>4. frames[t] = <<>>
    BY <1>1, <1>3 DEF DatabaseTypeOK
  <1> QED
    BY <1>2, <1>4

\* Whoever holds a connection's lock keeps the others of it from the file.
LEMMA LockedOut ==
    ASSUME DatabaseTypeOK, Placed,
           NEW t \in Threads, Request(t) \/ DatabaseStep(t),
           NEW u \in Threads, u # t, Conn(u) = Conn(t), lock[Conn(t)] = u,
           at[u] \in {"run", "begin", "raising"}
    PROVE  UNCHANGED <<storage, lock>>
  <1>1. ThreadOK(u) /\ ThreadOK(t) /\ DepthOK(t)
    BY DEF Placed
  <1>2. at[t] \notin {"opening", "migrating"} /\ open[Conn(t)]
    BY <1>1 DEF ThreadOK
  <1>3. at[t] # "begin" /\ ~Inside(t) /\ ~Runs(t, "write") /\ u # None
    BY <1>1, ConnectionsAre, RunsInside DEF ThreadOK
  <1>4. at[t] # "raising"
    BY <1>1, <1>3 DEF DepthOK
  <1> QED
    BY <1>2, <1>3, <1>4 DEF Request, DatabaseStep, OpenStep, TransactionStep,
       FindOpen, Connect, BeginMigration, CommitMigration, MigrationRaises, Opened,
       OpenRaises, TakeLock, Savepoint, Begin, BeginGivesUp, WriteRow, WriteRaises,
       Release, Commit, CommitRaises, RollBackTo, RollBack, Answer

\* Whoever is inside a transaction is alone in it.
LEMMA InsideKeeps ==
    ASSUME DatabaseTypeOK, Placed,
           NEW t \in Threads, Request(t) \/ DatabaseStep(t),
           NEW u \in Threads, u # t, Inside(u)
    PROVE  UNCHANGED storage
  <1>1. OnlyMoves(t)
    BY StepMoves
  <1>2. /\ writer = Conn(u) /\ lock[Conn(u)] = u
        /\ at[u] \in {"run", "begin", "raising"}
    BY DEF Placed, ThreadOK
  <1>3. CASE Conn(u) # Conn(t)
    BY <1>1, <1>2, <1>3, ConnectionsAre DEF OnlyMoves
  <1>4. CASE Conn(u) = Conn(t)
    BY <1>2, <1>4, LockedOut
  <1> QED
    BY <1>3, <1>4

\* The others stay placed: those of another connection because the writer is
\* theirs or nobody's, those of the same one because of its opener and its lock.
LEMMA OthersStay ==
    ASSUME DatabaseTypeOK, Placed,
           NEW t \in Threads, Request(t) \/ DatabaseStep(t),
           NEW u \in Threads, u # t
    PROVE  ThreadOK(u)' /\ FramesOK(u)' /\ DepthOK(u)'
  <1> DEFINE c == Conn(t)
  <1>1. OnlyMoves(t)
    BY StepMoves
  <1>2. at'[u] = at[u] /\ work'[u] = work[u] /\ frames'[u] = frames[u]
    BY <1>1 DEF OnlyMoves
  <1>3. ThreadOK(u) /\ FramesOK(u) /\ DepthOK(u) /\ ThreadOK(t) /\ DepthOK(t)
    BY DEF Placed
  <1>4. DepthOK(u)'
    <2>1. requests' \in {requests, requests + 1} /\ requests \in Nat
      BY DEF DatabaseTypeOK, Request, DatabaseStep, OpenStep, TransactionStep, FindOpen,
         Connect, BeginMigration, CommitMigration, MigrationRaises, Opened, OpenRaises,
         TakeLock, Savepoint, Begin, BeginGivesUp, WriteRow, WriteRaises, Release, Commit,
         CommitRaises, RollBackTo, RollBack, Answer
    <2> QED
      BY <1>2, <1>3, <2>1 DEF DepthOK, Inside
  <1>5. CASE Conn(u) # c
    <2>1. /\ opener'[Conn(u)] = opener[Conn(u)] /\ open'[Conn(u)] = open[Conn(u)]
          /\ known'[Conn(u)] = known[Conn(u)] /\ lock'[Conn(u)] = lock[Conn(u)]
      BY <1>1, <1>5, ConnectionsAre DEF OnlyMoves
    <2>2. writer = Conn(u) => writer' = writer /\ saved' = saved
      BY <1>1, <1>5, ConnectionsAre DEF OnlyMoves, storage
    <2>3. ThreadOK(u)'
      BY <1>2, <1>3, <2>1, <2>2 DEF ThreadOK, Inside, Pending, Token
    <2>4. FramesOK(u)'
      BY <1>2, <1>3, <2>1, <2>2 DEF FramesOK, ThreadOK, Inside
    <2> QED
      BY <1>4, <2>3, <2>4
  <1>6. CASE Conn(u) = c
    <2>1. CASE at[u] \in {"opening", "migrating"}
      <3>1. opener[c] = u /\ ~open[c] /\ ~Inside(u) /\ u # None
        BY <1>3, <1>6, <2>1, ConnectionsAre DEF ThreadOK
      <3>2. at[t] \notin {"opening", "migrating", "run", "begin", "raising"}
        BY <1>3, <3>1 DEF ThreadOK
      <3>3. Request(t)
        BY <3>1, <3>2 DEF DatabaseStep, OpenStep, TransactionStep, FindOpen, Connect,
           BeginMigration, CommitMigration, MigrationRaises, Opened, OpenRaises, TakeLock,
           Savepoint, Begin, BeginGivesUp, WriteRow, WriteRaises, Release, Commit,
           CommitRaises, RollBackTo, RollBack, Answer, Runs
      <3>4. UNCHANGED <<storage, opening, lock>>
        BY <3>3 DEF Request
      <3> QED
        BY <1>2, <1>3, <1>4, <1>6, <2>1, <3>1, <3>4
           DEF ThreadOK, FramesOK, Inside, Pending, storage, opening
    <2>2. CASE at[u] \in {"run", "begin", "raising"}
      <3>1. open[c] /\ at[t] \notin {"opening", "migrating"}
        BY <1>3, <1>6, <2>2 DEF ThreadOK
      <3>2. UNCHANGED opening
        BY <3>1 DEF Request, DatabaseStep, OpenStep, TransactionStep, FindOpen, Connect,
           BeginMigration, CommitMigration, MigrationRaises, Opened, OpenRaises, TakeLock,
           Savepoint, Begin, BeginGivesUp, WriteRow, WriteRaises, Release, Commit,
           CommitRaises, RollBackTo, RollBack, Answer, Runs
      <3>3. ASSUME lock[c] = u
            PROVE  UNCHANGED <<storage, lock>>
        BY <1>6, <2>2, <3>3, LockedOut
      <3>4. Inside(u) \/ at[u] = "begin" => lock[c] = u
        BY <1>3, <1>6 DEF ThreadOK
      <3> QED
        BY <1>2, <1>3, <1>4, <1>6, <2>2, <3>1, <3>2, <3>3, <3>4
           DEF ThreadOK, FramesOK, Inside, Token, storage, opening
    <2>3. CASE at[u] \notin {"opening", "migrating", "run", "begin", "raising"}
      <3>1. ~Inside(u)
        BY <1>3, <2>3 DEF ThreadOK
      <3> QED
        BY <1>2, <1>4, <2>3, <3>1 DEF ThreadOK, FramesOK, Inside
    <2> QED
      BY <2>1, <2>2, <2>3
  <1> QED
    BY <1>5, <1>6

LEMMA SelfStays ==
    ASSUME DatabaseTypeOK, Placed, NEW t \in Threads,
           Request(t) \/ DatabaseStep(t)
    PROVE  ThreadOK(t)' /\ FramesOK(t)' /\ DepthOK(t)'
  <1> DEFINE c == Conn(t)
             p == work[t].program
             i == work[t].pos
  <1>0. /\ at \in [Threads -> Places] /\ work \in [Threads -> Works]
        /\ frames \in [Threads -> Seq(Nat)] /\ open \in [Connections -> BOOLEAN]
        /\ opener \in [Connections -> Threads \cup {None}]
        /\ known \in [Connections -> SUBSET (1..Versions)]
        /\ lock \in [Connections -> Threads \cup {None}]
        /\ saved \in Seq(Files) /\ requests \in Nat
        /\ c \in Connections /\ None \notin Connections /\ t # None
    BY ConnectionsAre DEF DatabaseTypeOK
  <1>01. ThreadOK(t) /\ FramesOK(t) /\ DepthOK(t) /\ KnownOK(c)
    BY <1>0 DEF Placed
  <1>02. ASSUME at[t] # "idle"
         PROVE  p \in Programs /\ i \in 1..7 /\ Len(p) \in 3..6
    BY <1>0, <1>01, <1>02, ProgramsAre DEF DepthOK, Works
  <1> USE DEF Inside
  <1>1. CASE Request(t)
    <2>1. PICK q \in Programs : work' =
             [work EXCEPT ![t] = [request |-> requests + 1, program |-> q, pos |-> 1]]
      BY <1>1 DEF Request
    <2>2. at[t] = "idle" /\ at'[t] = "connect" /\ frames' = frames /\ requests' = requests + 1
      BY <1>0, <1>1 DEF Request, GoTo
    <2>3. frames[t] = <<>>
      BY <1>01, <2>2 DEF ThreadOK
    <2>4. /\ work'[t].program \in Programs /\ work'[t].request \in 1..requests'
          /\ work'[t].pos = 1
      BY <1>0, <2>1, <2>2
    <2> QED
      BY <2>2, <2>3, <2>4 DEF ThreadOK, FramesOK, DepthOK
  <1>2. CASE FindOpen(t) \/ Opened(t)
    <2>1. /\ at[t] \in {"connect", "opening"} /\ at'[t] = "run" /\ open'[c]
          /\ frames' = frames /\ work' = work /\ requests' = requests
      BY <1>0, <1>2 DEF FindOpen, Opened, GoTo, opening
    <2>2. frames[t] = <<>> /\ i = 1 /\ p \in Programs
      BY <1>01, <2>1 DEF ThreadOK, DepthOK
    <2>3. Len(frames[t]) = Depth[p][i]
      <3>1. Len(p) \in 3..6
        BY <2>2, ProgramsAre
      <3>2. Depth[p][1] = 0
        BY <2>2, <3>1, Nested
      <3>3. Len(frames[t]) = 0
        BY <2>2
      <3> QED
        BY <2>2, <3>2, <3>3
    <2> QED
      BY <1>01, <2>1, <2>2, <2>3 DEF ThreadOK, FramesOK, DepthOK
  <1>3. CASE Connect(t)
    <2>1. /\ at[t] = "connect" /\ at'[t] = "opening" /\ opener'[c] = t /\ ~open'[c]
          /\ frames' = frames /\ work' = work /\ requests' = requests
      BY <1>0, <1>3 DEF Connect, GoTo
    <2> QED
      BY <1>01, <2>1 DEF ThreadOK, FramesOK, DepthOK
  <1>4. CASE BeginMigration(t)
    <2>1. /\ at[t] = "opening" /\ at'[t] = "migrating" /\ writer = None /\ writer' = c
          /\ Pending(c) # {} /\ saved' = saved /\ UNCHANGED opening
          /\ frames' = frames /\ work' = work /\ requests' = requests
      BY <1>0, <1>4 DEF BeginMigration, GoTo
    <2>2. saved = <<>>
      BY <2>1 DEF Placed
    <2> QED
      BY <1>01, <2>1, <2>2 DEF ThreadOK, FramesOK, DepthOK, Pending, opening
  <1>5. CASE CommitMigration(t)
    <2>1. /\ at[t] = "migrating" /\ at'[t] = "opening" /\ opener' = opener /\ open' = open
          /\ frames' = frames /\ work' = work /\ requests' = requests
      BY <1>0, <1>5 DEF CommitMigration, GoTo
    <2> QED
      BY <1>01, <2>1 DEF ThreadOK, FramesOK, DepthOK
  <1>6. CASE MigrationRaises(t)
    <2>1. /\ at[t] = "migrating" /\ frames' = frames /\ requests' = requests
          /\ at'[t] \in {"idle", "broken"}
      BY <1>0, <1>6, EndsTyped DEF MigrationRaises, GoTo
    <2>2. at'[t] = "broken" => work' = work
      BY <1>0, <1>6, EndsTyped DEF MigrationRaises
    <2> QED
      BY <1>01, <2>1, <2>2 DEF ThreadOK, FramesOK, DepthOK
  <1>7. CASE OpenRaises(t) \/ BeginGivesUp(t) \/ CommitRaises(t) \/ RollBack(t) \/ Answer(t)
    <2>1. at'[t] = "idle"
      BY <1>7, EndsTyped DEF OpenRaises, BeginGivesUp, CommitRaises, RollBack, Answer
    <2>2. frames'[t] = <<>>
      <3>1. CASE OpenRaises(t)
        BY <1>01, <3>1 DEF ThreadOK, OpenRaises
      <3>2. CASE BeginGivesUp(t)
        BY <1>01, <3>2 DEF ThreadOK, BeginGivesUp, OthersWrite
      <3>3. CASE CommitRaises(t) \/ RollBack(t)
        BY <1>0, <3>3 DEF CommitRaises, RollBack
      <3>4. CASE Answer(t)
        <4>1. at[t] = "run" /\ i > Len(p) /\ frames' = frames
          BY <3>4 DEF Answer
        <4> QED
          BY <1>0, <1>01, <4>1, AtTheEnd
      <3> QED
        BY <1>7, <3>1, <3>2, <3>3, <3>4
    <2> QED
      BY <2>1, <2>2 DEF ThreadOK, FramesOK, DepthOK
  <1>8. CASE TakeLock(t)
    <2>1. /\ at[t] = "run" /\ at'[t] = "begin" /\ lock'[c] = t /\ i <= Len(p) /\ p[i] = "enter"
          /\ frames' = frames /\ work' = work /\ requests' = requests
          /\ UNCHANGED <<storage, opening>>
      BY <1>0, <1>8 DEF TakeLock, GoTo, Runs, Token
    <2> QED
      BY <1>01, <2>1 DEF ThreadOK, FramesOK, DepthOK, storage, opening, Token
  <1>9. CASE Savepoint(t) \/ Begin(t)
    <2>1. /\ at[t] = "begin" /\ at'[t] = "run" /\ Advance(t) /\ writer' = c
          /\ requests' = requests /\ UNCHANGED <<opening, lock>>
      BY <1>0, <1>9 DEF Savepoint, Begin, GoTo
    <2>2. i <= Len(p) /\ p[i] = "enter" /\ p \in Programs /\ i \in 1..6
      BY <1>01, <2>1, AdvanceTyped DEF ThreadOK, Token
    <2>3. /\ work'[t].program = p /\ work'[t].pos = i + 1 /\ work'[t].pos \in 1..(Len(p) + 1)
          /\ work'[t].request = work[t].request
      <3>1. Len(p) \in 3..6
        BY <2>2, ProgramsAre
      <3>2. \A n \in 3..6 : \A j \in 1..6 : j <= n => j + 1 \in 1..(n + 1)
        OBVIOUS
      <3> QED
        BY <2>1, <2>2, <3>1, <3>2, AdvanceTyped
    <2>4. Depth[p][i + 1] = Depth[p][i] + 1
      BY <2>2, PosInProgram, Nested
    <2>5. Len(frames[t]) = Depth[p][i]
      BY <1>01, <2>1 DEF DepthOK
    <2>6. Len(frames'[t]) = Len(frames[t]) + 1 /\ FramesOK(t)'
      <3>1. CASE Begin(t)
        <4>1. writer = None /\ frames'[t] = <<0>>
          BY <1>0, <3>1 DEF Begin
        <4>2. frames[t] = <<>>
          BY <1>0, <1>01, <4>1 DEF ThreadOK
        <4>3. saved' = <<>>
          BY <3>1, <4>1 DEF Begin, Placed
        <4> QED
          BY <4>1, <4>2, <4>3 DEF FramesOK
      <3>2. CASE Savepoint(t)
        <4>1. /\ writer = c /\ saved' = Append(saved, draft)
              /\ frames'[t] = Append(frames[t], Len(saved) + 1)
          BY <1>0, <3>2 DEF Savepoint
        <4>2. frames[t] # <<>>
          BY <1>0, <1>01, <2>1, <4>1, InsideAlone DEF ThreadOK, Placed
        <4>3. frames[t] \in Seq(Nat) /\ Len(frames[t]) \in Nat /\ Len(frames[t]) >= 1
          BY <1>0, <4>2
        <4>4. Len(saved') = Len(saved) + 1 /\ Len(saved) \in Nat
          BY <1>0, <4>1
        <4>5. /\ Len(frames'[t]) = Len(frames[t]) + 1
              /\ \A j \in 1..Len(frames[t]) : frames'[t][j] = frames[t][j]
              /\ frames'[t][Len(frames[t]) + 1] = Len(saved) + 1
          BY <4>1, <4>3
        <4>6. /\ Len(saved) = Len(frames[t]) - 1
              /\ \A j \in 1..Len(frames[t]) : frames[t][j] = j - 1
          BY <1>01, <4>2 DEF FramesOK
        <4>7. /\ Len(saved') = Len(frames'[t]) - 1
              /\ \A j \in 1..Len(frames'[t]) : frames'[t][j] = j - 1
          <5>1. Len(saved') = Len(frames'[t]) - 1
            BY <4>3, <4>4, <4>5, <4>6
          <5>2. ASSUME NEW j \in 1..(Len(frames[t]) + 1)
                PROVE  frames'[t][j] = j - 1
            <6>1. CASE j \in 1..Len(frames[t])
              BY <4>5, <4>6, <6>1
            <6>2. CASE j = Len(frames[t]) + 1
              BY <4>3, <4>4, <4>5, <4>6, <6>2
            <6> QED
              BY <4>3, <5>2, <6>1, <6>2
          <5> QED
            BY <4>5, <5>1, <5>2
        <4> QED
          BY <4>5, <4>7 DEF FramesOK
      <3> QED
        BY <1>9, <3>1, <3>2
    <2>7. ThreadOK(t)'
      BY <1>01, <2>1 DEF ThreadOK, opening
    <2>8. DepthOK(t)'
      BY <1>01, <2>1, <2>2, <2>3, <2>4, <2>5, <2>6 DEF DepthOK
    <2> QED
      BY <2>6, <2>7, <2>8
  <1>10. CASE WriteRow(t)
    <2>1. /\ at[t] = "run" /\ at'[t] = "run" /\ Advance(t) /\ i <= Len(p) /\ p[i] = "write"
          /\ requests' = requests /\ UNCHANGED <<opening, lock, writer, saved, frames>>
      BY <1>10 DEF WriteRow, Runs, Token
    <2>2. p \in Programs /\ i \in 1..6
      BY <2>1, AdvanceTyped
    <2>3. Depth[p][i + 1] = Depth[p][i]
      BY <2>1, <2>2, PosInProgram, Nested
    <2>4. DepthOK(t)'
      BY <1>01, <2>1, <2>2, <2>3, PosInProgram, AdvanceTyped DEF DepthOK
    <2> QED
      BY <1>01, <2>1, <2>4 DEF ThreadOK, FramesOK, opening
  <1>11. CASE WriteRaises(t)
    <2>1. frames[t] # <<>>
      BY <1>11, RunsInside DEF WriteRaises
    <2>2. /\ at[t] = "run" /\ at'[t] = "raising" /\ requests' = requests
          /\ UNCHANGED <<storage, opening, lock, frames, work>>
      BY <1>0, <1>11 DEF WriteRaises, Runs, GoTo
    <2> QED
      BY <1>01, <2>1, <2>2 DEF ThreadOK, FramesOK, DepthOK, storage, opening
  <1>12. CASE Release(t) \/ RollBackTo(t)
    <2>1. /\ frames[t] # <<>> /\ Frame(t) > 0 /\ PopFrame(t)
          /\ saved' = SubSeq(saved, 1, Frame(t) - 1)
          /\ requests' = requests /\ UNCHANGED <<opening, lock, writer, at>>
      BY <1>12 DEF Release, RollBackTo
    <2>2. /\ Len(frames'[t]) = Len(frames[t]) - 1 /\ Len(frames[t]) > 1
          /\ Len(frames[t]) \in Nat
          /\ \A j \in 1..Len(frames'[t]) : frames'[t][j] = frames[t][j]
          /\ Len(saved') = Len(frames[t]) - 2
      <3>1. /\ Len(frames'[t]) = Len(frames[t]) - 1 /\ Len(frames[t]) > 1
            /\ Len(frames[t]) \in Nat
            /\ \A j \in 1..Len(frames'[t]) : frames'[t][j] = frames[t][j]
            /\ Frame(t) = Len(frames[t]) - 1 /\ Len(saved') = Frame(t) - 1
        BY <2>1, PopTyped
      <3> QED
        BY <3>1
    <2>21. \A j \in 1..Len(frames[t]) : frames[t][j] = j - 1
      BY <1>01, <2>1 DEF FramesOK
    <2>3. FramesOK(t)'
      BY <2>2, <2>21 DEF FramesOK
    <2>4. frames'[t] # <<>>
      BY <2>2
    <2>5. CASE Release(t)
      <3>1. at[t] = "run" /\ Advance(t) /\ i <= Len(p) /\ p[i] = "exit"
        BY <2>5 DEF Release, Runs, Token
      <3>2. p \in Programs /\ i \in 1..6
        BY <3>1, AdvanceTyped
      <3>21. i \in 1..Len(p) /\ i + 1 \in 1..(Len(p) + 1)
        BY <3>1, <3>2, PosInProgram
      <3>22. p[i] = "exit" => Depth[p][i] = Depth[p][i + 1] + 1
        BY <3>2, <3>21, Nested
      <3>23. Depth[p][i] \in Nat /\ Depth[p][i + 1] \in Nat
        BY <3>2, <3>21, Nested
      <3>3. Depth[p][i] = Depth[p][i + 1] + 1
        BY <3>1, <3>22, Zenon
      <3>31. Len(frames[t]) = Depth[p][i]
        BY <1>01, <3>1 DEF DepthOK
      <3>33. Len(frames'[t]) = Depth[p][i + 1]
        BY <2>2, <3>23, <3>3, <3>31
      <3>32. /\ work'[t].program = p /\ work'[t].pos = i + 1
             /\ work'[t].request = work[t].request
        BY <3>1, AdvanceTyped
      <3>4. DepthOK(t)'
        BY <1>01, <2>1, <3>1, <3>2, <3>21, <3>33, <3>32 DEF DepthOK
      <3> QED
        BY <1>01, <2>1, <2>3, <2>4, <3>1, <3>4 DEF ThreadOK, opening
    <2>6. CASE RollBackTo(t)
      <3>1. at[t] = "raising" /\ work' = work
        BY <2>6 DEF RollBackTo
      <3> QED
        BY <1>01, <2>1, <2>3, <2>4, <3>1 DEF ThreadOK, DepthOK, opening
    <2> QED
      BY <1>12, <2>5, <2>6
  <1>13. CASE Commit(t)
    <2>1. /\ at[t] = "run" /\ Advance(t) /\ i <= Len(p) /\ p[i] = "exit"
          /\ frames[t] # <<>> /\ Frame(t) = 0 /\ frames'[t] = <<>>
          /\ requests' = requests /\ UNCHANGED <<opening, at>>
      BY <1>0, <1>13 DEF Commit, Runs, Token
    <2>2. p \in Programs /\ i \in 1..6
      BY <2>1, AdvanceTyped
    <2>3. Len(frames[t]) = 1
      BY <1>0, <1>01, <2>1, OutermostIsFirst
    <2>4. Depth[p][i + 1] = 0
      BY <1>01, <2>1, <2>2, <2>3, PosInProgram, Nested DEF DepthOK
    <2>5. Len(frames'[t]) = 0
      BY <2>1
    <2>6. DepthOK(t)'
      BY <1>01, <2>1, <2>2, <2>4, <2>5, PosInProgram, AdvanceTyped DEF DepthOK
    <2> QED
      BY <1>01, <2>1, <2>6 DEF ThreadOK, FramesOK, opening
  <1> QED
    BY <1>1, <1>2, <1>3, <1>4, <1>5, <1>6, <1>7, <1>8, <1>9, <1>10, <1>11, <1>12, <1>13,
       Zenon DEF DatabaseStep, OpenStep, TransactionStep

\* A transaction that begins has a thread inside, one that ends leaves nothing.
LEMMA WriterStays ==
    ASSUME DatabaseTypeOK, Placed, NEW t \in Threads, Request(t) \/ DatabaseStep(t)
    PROVE  WriterOK' /\ (writer = None => saved = <<>>)'
  <1>1. OnlyMoves(t) /\ ThreadOK(t) /\ ThreadOK(t)' /\ WriterOK
    BY StepMoves, SelfStays DEF Placed
  <1>2. CASE writer' = None
    <2>1. saved' = <<>>
      BY <1>2, <1>1, ConnectionsAre DEF Placed, ThreadOK, Request, DatabaseStep, OpenStep,
         TransactionStep, FindOpen, Connect, BeginMigration, CommitMigration,
         MigrationRaises, Opened, OpenRaises, TakeLock, Savepoint, Begin, BeginGivesUp,
         WriteRow, WriteRaises, Release, Commit, CommitRaises, RollBackTo, RollBack, Answer,
         storage, Inside
    <2> QED
      BY <1>2, <2>1 DEF WriterOK
  <1>3. CASE writer' # None /\ writer' # writer
    <2>1. BeginMigration(t) \/ Begin(t)
      BY <1>3 DEF Request, DatabaseStep, OpenStep,
         TransactionStep, FindOpen, Connect, BeginMigration, CommitMigration,
         MigrationRaises, Opened, OpenRaises, TakeLock, Savepoint, Begin, BeginGivesUp,
         WriteRow, WriteRaises, Release, Commit, CommitRaises, RollBackTo, RollBack, Answer,
         storage
    <2>2. CASE BeginMigration(t)
      <3>1. at'[t] = "migrating" /\ writer' = Conn(t)
        BY <2>2 DEF BeginMigration, GoTo, DatabaseTypeOK
      <3> QED
        BY <1>3, <3>1 DEF WriterOK, Conn
    <2>3. CASE Begin(t)
      <3>1. frames'[t] = <<0>> /\ writer' = Conn(t)
        BY <2>3 DEF Begin, DatabaseTypeOK
      <3>2. frames'[t] # <<>>
        BY <3>1
      <3> QED
        BY <1>3, <3>1, <3>2 DEF WriterOK, Conn, Inside
    <2> QED
      BY <2>1, <2>2, <2>3
  <1>4. CASE writer' # None /\ writer' = writer
    <2>1. PICK u \in Threads : Conn(u) = writer /\ (at[u] = "migrating" \/ Inside(u))
      BY <1>1, <1>4 DEF WriterOK
    <2>2. CASE u # t
      <3>1. at'[u] = at[u] /\ frames'[u] = frames[u]
        BY <1>1, <2>2 DEF OnlyMoves
      <3> QED
        BY <1>4, <2>1, <3>1 DEF WriterOK, Inside, Conn
    <2>3. CASE u = t
      <3>1. at'[t] = "migrating" \/ Inside(t)'
        <4>1. CASE Release(t) \/ RollBackTo(t)
          <5>1. /\ Inside(t) /\ Frame(t) > 0 /\ PopFrame(t)
                /\ saved' = SubSeq(saved, 1, Frame(t) - 1)
            BY <4>1 DEF Release, RollBackTo
          <5>2. /\ Len(frames'[t]) = Len(frames[t]) - 1
                /\ Len(frames[t]) > 1 /\ Len(frames[t]) \in Nat
            BY <5>1, PopTyped
          <5>3. frames'[t] # <<>>
            BY <5>2
          <5> QED
            BY <5>3 DEF Inside
        <4>2. CASE Savepoint(t)
          <5>1. frames'[t] = Append(frames[t], Len(saved) + 1) /\ frames[t] \in Seq(Nat)
            BY <4>2 DEF Savepoint, DatabaseTypeOK
          <5>2. frames'[t] # <<>>
            BY <5>1
          <5> QED
            BY <5>2 DEF Inside
        <4>3. CASE ~(Release(t) \/ RollBackTo(t) \/ Savepoint(t))
          <5>1. /\ at[t] # "migrating" => Inside(t)
                /\ writer = Conn(t)
            BY <2>1, <2>3
          <5>2. frames' = frames
            BY <1>1, <1>4, <4>3, <5>1, ConnectionsAre DEF Request, DatabaseStep, OpenStep,
               TransactionStep, FindOpen, Connect, BeginMigration, CommitMigration,
               MigrationRaises, Opened, OpenRaises, TakeLock, Begin, BeginGivesUp,
               WriteRow, WriteRaises, Commit, CommitRaises, RollBack, Answer, ThreadOK
          <5>3. at[t] = "migrating" => at' = at
            BY <1>1, <1>4, <5>1, ConnectionsAre DEF Request, DatabaseStep, OpenStep,
               TransactionStep, FindOpen, Connect, BeginMigration, CommitMigration,
               MigrationRaises, Opened, OpenRaises, TakeLock, Savepoint, Begin,
               BeginGivesUp, WriteRow, WriteRaises, Release, Commit, CommitRaises,
               RollBackTo, RollBack, Answer, Runs
          <5> QED
            BY <5>1, <5>2, <5>3 DEF Inside
        <4> QED
          BY <4>1, <4>2, <4>3
      <3> QED
        BY <1>4, <2>1, <2>3, <3>1 DEF WriterOK, Conn
    <2> QED
      BY <2>2, <2>3
  <1> QED
    BY <1>2, <1>3, <1>4

-----------------------------------------------------------------------------
(* The schema.                                                                *)

\* A migration's transaction applies the next version, once.
LEMMA MigrationApplies ==
    ASSUME DatabaseTypeOK, Placed, SchemaInv, NEW t \in Threads, at[t] = "migrating"
    PROVE  LET c == Conn(t)
               v == NextVersion(c)
           IN  /\ ~Clashes(draft, v)
               /\ known[c] \cup {v} \subseteq Migrated(draft, v).schema
               /\ \E k \in 0..Versions : known[c] \cup {v} = 1..k
               /\ draft.schema \subseteq Migrated(draft, v).schema
               /\ Migrated(draft, v).tables = Migrated(draft, v).schema
               /\ \E n \in 0..Versions : Migrated(draft, v).schema = 1..n
               /\ Migrated(draft, v).rows = draft.rows
  <1> DEFINE c == Conn(t)
             v == NextVersion(c)
  <1>1. c \in Connections /\ Pending(c) # {} /\ writer # None
    BY ConnectionsAre DEF Placed, ThreadOK
  <1>2. PICK k \in 0..Versions : known[c] = 1..k
    BY <1>1 DEF Placed, KnownOK
  <1>3. v = k + 1 /\ k + 1 \in 1..Versions
    BY <1>1, <1>2, NextVersionIs
  <1>4. PICK n \in 0..Versions : file.schema = 1..n
    BY DEF SchemaInv, RecordedIsBuilt
  <1>5. draft.schema = 1..n /\ draft.tables = 1..n /\ 1..k \subseteq 1..n /\ Versions \in Nat
    BY <1>1, <1>2, <1>4, DatabaseAssumption
       DEF SchemaInv, RecordedIsBuilt, KnownIsRecorded, DraftsKeepSchema, SameSchema
  <1>6. k <= n
    <2>1. k = 0 \/ k \in 1..k
      BY <1>2
    <2> QED
      BY <1>2, <1>4, <1>5, <2>1
  <1>7. ~Clashes(draft, v)
    BY <1>5 DEF Clashes, Recorded
  <1>8. known[c] \cup {v} = 1..(k + 1)
    BY <1>2, <1>3
  <1> HIDE DEF v, c
  <1>9. CASE k + 1 <= n
    <2>1. Migrated(draft, v) = draft
      BY <1>3, <1>5, <1>9 DEF Migrated, Recorded
    <2> QED
      BY <1>3, <1>5, <1>7, <1>8, <1>9, <2>1 DEF v, c
  <1>10. CASE k = n
    <2>1. v \notin draft.schema
      BY <1>3, <1>5, <1>10
    <2>2. /\ Migrated(draft, v).schema = draft.schema \cup {v}
          /\ Migrated(draft, v).tables = draft.tables \cup {v}
          /\ Migrated(draft, v).rows = draft.rows
      BY <2>1 DEF Migrated, Recorded, DatabaseTypeOK, Files
    <2>3. draft.schema \cup {v} = 1..(n + 1) /\ n + 1 \in 0..Versions
      BY <1>3, <1>5, <1>10
    <2> QED
      BY <1>3, <1>5, <1>7, <1>8, <1>10, <2>2, <2>3 DEF v, c
  <1> QED
    BY <1>6, <1>9, <1>10

LEMMA SchemaStays ==
    ASSUME DatabaseTypeOK, Placed, SchemaInv, NEW t \in Threads,
           Request(t) \/ DatabaseStep(t)
    PROVE  SchemaInv' /\ \A c \in Connections : KnownOK(c)'
  <1> DEFINE c == Conn(t)
  <1>1. /\ OnlyMoves(t) /\ ThreadOK(t) /\ c \in Connections /\ c # None
        /\ RecordedIsBuilt /\ KnownIsRecorded /\ DraftsKeepSchema
        /\ NobodyBroke
        /\ \A d \in Connections : KnownOK(d)
        /\ writer = None => saved = <<>>
    BY StepMoves, ConnectionsAre DEF Placed, SchemaInv
  <1>2. /\ open \in [Connections -> BOOLEAN]
        /\ known \in [Connections -> SUBSET (1..Versions)]
        /\ at \in [Threads -> Places] /\ saved \in Seq(Files)
    BY DEF DatabaseTypeOK
  <1>3. ASSUME at'[t] # "broken"
        PROVE  NobodyBroke'
    BY <1>1, <1>3 DEF OnlyMoves, NobodyBroke
  <1>4. ASSUME UNCHANGED <<storage, opening>>, at'[t] # "broken"
        PROVE  SchemaInv' /\ \A d \in Connections : KnownOK(d)'
    BY <1>1, <1>3, <1>4
       DEF SchemaInv, RecordedIsBuilt, KnownIsRecorded, DraftsKeepSchema, SameSchema,
           KnownOK, storage, opening
  <1>5. CASE Request(t) \/ FindOpen(t) \/ TakeLock(t) \/ WriteRaises(t)
    BY <1>2, <1>4, <1>5 DEF Request, FindOpen, TakeLock, WriteRaises, GoTo
  <1>6. CASE BeginGivesUp(t) \/ Answer(t)
    BY <1>2, <1>4, <1>6, EndsTyped DEF BeginGivesUp, Answer
  <1> USE DEF SchemaInv
  <1>7. CASE Connect(t)
    <2>1. /\ UNCHANGED <<storage, open>> /\ known' = [known EXCEPT ![c] = file.schema]
          /\ at'[t] # "broken"
      BY <1>2, <1>7 DEF Connect, GoTo
    <2>2. \A d \in Connections : KnownOK(d)'
      BY <1>1, <1>2, <2>1 DEF KnownOK, RecordedIsBuilt
    <2> QED
      BY <1>1, <1>2, <1>3, <2>1, <2>2
         DEF RecordedIsBuilt, KnownIsRecorded, DraftsKeepSchema, SameSchema, storage
  <1>8. CASE BeginMigration(t) \/ Begin(t)
    <2>1. /\ UNCHANGED <<file, saved, opening>> /\ draft' = file /\ writer = None
          /\ at'[t] # "broken"
      BY <1>2, <1>8 DEF BeginMigration, Begin, GoTo
    <2>2. Len(saved) = 0
      BY <1>1, <2>1
    <2> QED
      BY <1>1, <1>3, <2>1, <2>2
         DEF RecordedIsBuilt, KnownIsRecorded, DraftsKeepSchema, SameSchema, KnownOK, opening
  <1>9. CASE CommitMigration(t)
    <2> DEFINE v == NextVersion(c)
    <2>1. /\ at[t] = "migrating" /\ at'[t] # "broken" /\ open' = open /\ writer' = None
          /\ file' = Migrated(draft, v) /\ known' = [known EXCEPT ![c] = @ \cup {v}]
      BY <1>2, <1>9 DEF CommitMigration, GoTo
    <2>2. /\ known[c] \cup {v} \subseteq file'.schema
          /\ \E k \in 0..Versions : known[c] \cup {v} = 1..k
          /\ draft.schema \subseteq file'.schema
          /\ file'.tables = file'.schema
          /\ \E n \in 0..Versions : file'.schema = 1..n
      BY <2>1, MigrationApplies
    <2>3. draft.schema = file.schema
      BY <1>1, <2>1 DEF DraftsKeepSchema, SameSchema, ThreadOK
    <2> HIDE DEF v
    <2>4. known'[c] = known[c] \cup {v} /\ \A d \in Connections \ {c} : known'[d] = known[d]
      BY <1>1, <1>2, <2>1
    <2>5. \A d \in Connections : KnownOK(d)'
      BY <1>1, <2>2, <2>4 DEF KnownOK
    <2>6. RecordedIsBuilt'
      BY <2>2 DEF RecordedIsBuilt
    <2>7. file.schema = 1..Versions => file'.schema = 1..Versions
      BY <2>2, <2>3, DatabaseAssumption
    <2>8. KnownIsRecorded'
      BY <1>1, <2>1, <2>2, <2>3, <2>4, <2>7 DEF KnownIsRecorded
    <2> QED
      BY <1>3, <2>1, <2>5, <2>6, <2>8 DEF DraftsKeepSchema
  <1>10. CASE MigrationRaises(t)
    <2>1. /\ writer' = None /\ UNCHANGED <<file, open, known>>
          /\ at[t] = "migrating" /\ ~Clashes(draft, NextVersion(c))
      BY <1>10, MigrationApplies DEF MigrationRaises
    <2>2. at'[t] # "broken"
      BY <1>10, <2>1, EndsTyped DEF MigrationRaises
    <2> QED
      BY <1>1, <1>3, <2>1, <2>2
         DEF RecordedIsBuilt, KnownIsRecorded, DraftsKeepSchema, KnownOK
  <1>11. CASE Opened(t)
    <2>1. /\ Pending(c) = {} /\ UNCHANGED <<storage, known>> /\ at'[t] # "broken"
          /\ \A d \in Connections \ {c} : open'[d] = open[d]
      BY <1>2, <1>11 DEF Opened, GoTo
    <2>2. known[c] = 1..Versions /\ known[c] \subseteq file.schema
      BY <1>1, <1>2, <2>1 DEF Pending, KnownIsRecorded
    <2>3. file.schema = 1..Versions
      BY <2>2 DEF DatabaseTypeOK, Files
    <2> QED
      BY <1>1, <1>3, <2>1, <2>3
         DEF RecordedIsBuilt, KnownIsRecorded, DraftsKeepSchema, SameSchema, KnownOK, storage
  <1>12. CASE OpenRaises(t)
    <2>1. UNCHANGED <<storage, open, known>> /\ at'[t] # "broken"
      BY <1>12, EndsTyped DEF OpenRaises
    <2> QED
      BY <1>1, <1>3, <2>1
         DEF RecordedIsBuilt, KnownIsRecorded, DraftsKeepSchema, SameSchema, KnownOK, storage
  <1>13. CASE Savepoint(t)
    <2>1. /\ UNCHANGED <<file, draft, writer, opening>> /\ at'[t] # "broken"
          /\ saved' = Append(saved, draft) /\ writer # None
      BY <1>1, <1>2, <1>13 DEF Savepoint, GoTo
    <2>2. \A i \in 1..Len(saved') :
             saved'[i] = draft \/ (i \in 1..Len(saved) /\ saved'[i] = saved[i])
      <3> HIDE DEF Files
      <3> QED
        BY <1>2, <2>1
    <2>3. DraftsKeepSchema'
      BY <1>1, <2>1, <2>2 DEF DraftsKeepSchema, SameSchema
    <2> QED
      BY <1>1, <1>3, <2>1, <2>3 DEF RecordedIsBuilt, KnownIsRecorded, KnownOK, opening
  <1>14. CASE WriteRow(t)
    <2>1. /\ UNCHANGED <<file, saved, writer, opening, at>> /\ writer = c
          /\ draft' = [draft EXCEPT !.rows = @ \cup {<<work[t].request, work[t].pos>>}]
      BY <1>14, RunsInside DEF WriteRow
    <2>2. SameSchema(draft', draft)
      BY <2>1 DEF DatabaseTypeOK, Files, SameSchema
    <2> QED
      BY <1>1, <1>3, <2>1, <2>2
         DEF RecordedIsBuilt, KnownIsRecorded, DraftsKeepSchema, SameSchema, KnownOK, opening,
             NobodyBroke
  <1>15. CASE Release(t) \/ RollBackTo(t)
    <2>1. /\ UNCHANGED <<file, writer, opening, at>> /\ Inside(t) /\ Frame(t) > 0
          /\ saved' = SubSeq(saved, 1, Frame(t) - 1) /\ PopFrame(t)
          /\ draft' = draft \/ draft' = saved[Frame(t)]
      BY <1>15 DEF Release, RollBackTo
    <2>2. /\ Frame(t) \in 1..Len(saved) /\ Len(saved') = Frame(t) - 1
          /\ \A i \in 1..(Frame(t) - 1) : saved'[i] = saved[i]
      BY <2>1, PopTyped
    <2>3. writer # None
      BY <1>1, <2>1 DEF ThreadOK
    <2>4. 1..(Frame(t) - 1) \subseteq 1..Len(saved)
      BY <1>2, <2>2
    <2>5. DraftsKeepSchema'
      BY <1>1, <2>1, <2>2, <2>3, <2>4 DEF DraftsKeepSchema, SameSchema
    <2> QED
      BY <1>1, <1>3, <2>1, <2>5
         DEF RecordedIsBuilt, KnownIsRecorded, KnownOK, opening, NobodyBroke
  <1>16. CASE Commit(t)
    <2>1. /\ UNCHANGED <<opening, at>> /\ file' = draft /\ writer' = None /\ Inside(t)
      BY <1>16 DEF Commit
    <2>2. SameSchema(file', file)
      BY <1>1, <2>1 DEF ThreadOK, DraftsKeepSchema
    <2> QED
      BY <1>1, <1>3, <2>1, <2>2
         DEF RecordedIsBuilt, KnownIsRecorded, DraftsKeepSchema, SameSchema, KnownOK, opening,
             NobodyBroke
  <1>17. CASE CommitRaises(t) \/ RollBack(t)
    <2>1. UNCHANGED <<file, opening>> /\ writer' = None /\ at'[t] # "broken"
      BY <1>17, EndsTyped DEF CommitRaises, RollBack
    <2> QED
      BY <1>1, <1>3, <2>1
         DEF RecordedIsBuilt, KnownIsRecorded, DraftsKeepSchema, KnownOK, opening
  <1> QED
    BY <1>5, <1>6, <1>7, <1>8, <1>9, <1>10, <1>11, <1>12, <1>13, <1>14, <1>15, <1>16,
       <1>17, Zenon DEF DatabaseStep, OpenStep, TransactionStep

-----------------------------------------------------------------------------
(* Together.                                                                  *)

DatabaseInv == DatabaseTypeOK /\ Placed /\ SchemaInv

LEMMA DatabaseInvInit == DatabaseInit => DatabaseInv
  <1> SUFFICES ASSUME DatabaseInit PROVE DatabaseInv
    OBVIOUS
  <1>1. Placed
    BY DatabaseAssumption DEF DatabaseInit, Placed, ThreadOK, FramesOK, DepthOK, WriterOK,
       KnownOK, Inside
  <1>2. SchemaInv
    BY DatabaseAssumption DEF DatabaseInit, SchemaInv, RecordedIsBuilt, KnownIsRecorded,
       DraftsKeepSchema, NobodyBroke, Empty
  <1> QED
    BY <1>1, <1>2, DatabaseInitTyped DEF DatabaseInv

\* A death takes whole connections, and the writer with its threads.
LEMMA DatabaseInvDies ==
    ASSUME DatabaseInv, NEW p, DatabaseDies(p)
    PROVE  Placed' /\ SchemaInv'
  <1>0. /\ DatabaseTypeOK
        /\ \A t \in Threads : ThreadOK(t) /\ FramesOK(t) /\ DepthOK(t)
        /\ RecordedIsBuilt /\ KnownIsRecorded /\ DraftsKeepSchema /\ NobodyBroke
    BY DEF DatabaseInv, Placed, SchemaInv
  <1>1. \A t \in Threads :
           IF InProcess(p, Conn(t))
           THEN at'[t] = "idle" /\ work'[t] = NoWork /\ frames'[t] = <<>>
           ELSE at'[t] = at[t] /\ work'[t] = work[t] /\ frames'[t] = frames[t]
    BY <1>0, DiedTyped
  <1>2. \A c \in Connections :
           IF InProcess(p, c)
           THEN ~open'[c] /\ known'[c] = {}
           ELSE /\ open'[c] = open[c] /\ opener'[c] = opener[c]
                /\ known'[c] = known[c] /\ lock'[c] = lock[c]
    BY DEF DatabaseDies, Down
  <1>3. /\ UNCHANGED <<file, requests>>
        /\ \/ UNCHANGED <<writer, draft, saved>> /\ ~(writer # None /\ InProcess(p, writer))
           \/ writer' = None /\ saved' = <<>> /\ InProcess(p, writer)
    BY DEF DatabaseDies
  <1>4. ASSUME NEW t \in Threads
        PROVE  ThreadOK(t)' /\ FramesOK(t)' /\ DepthOK(t)'
    <2>1. CASE InProcess(p, Conn(t))
      BY <1>1, <2>1 DEF ThreadOK, FramesOK, DepthOK, Inside, Conn
    <2>2. CASE ~InProcess(p, Conn(t))
      <3>1. Conn(t) \in Connections /\ Conn(t) # None
        BY ConnectionsAre
      <3>2. writer = Conn(t) => UNCHANGED <<writer, saved>>
        BY <1>3, <2>2
      <3>3. /\ at'[t] = at[t] /\ work'[t] = work[t] /\ frames'[t] = frames[t]
            /\ open'[Conn(t)] = open[Conn(t)] /\ opener'[Conn(t)] = opener[Conn(t)]
            /\ known'[Conn(t)] = known[Conn(t)] /\ lock'[Conn(t)] = lock[Conn(t)]
        BY <1>1, <1>2, <2>2, <3>1
      <3> QED
        BY <1>0, <1>3, <3>2, <3>3
           DEF ThreadOK, FramesOK, DepthOK, Inside, Token, Pending, Conn
    <2> QED
      BY <2>1, <2>2
  <1>5. WriterOK'
    <2>1. CASE writer' = None
      BY <2>1 DEF WriterOK
    <2>2. CASE writer' # None
      <3>1. PICK t \in Threads : Conn(t) = writer /\ (at[t] = "migrating" \/ Inside(t))
        BY <1>3, <2>2 DEF DatabaseInv, Placed, WriterOK
      <3>2. writer' = writer /\ ~InProcess(p, Conn(t))
        BY <1>3, <2>2, <3>1
      <3>3. at'[t] = at[t] /\ frames'[t] = frames[t]
        BY <1>1, <3>2
      <3> QED
        BY <3>1, <3>2, <3>3 DEF WriterOK, Inside, Conn
    <2> QED
      BY <2>1, <2>2
  <1>6. (writer = None => saved = <<>>)'
    BY <1>3 DEF DatabaseInv, Placed
  <1>7. \A c \in Connections : KnownOK(c)'
    <2>1. 0 \in 0..Versions /\ 1..0 = {}
      BY DatabaseAssumption
    <2>2. \A c \in Connections : KnownOK(c) /\ (known'[c] = {} \/ known'[c] = known[c])
      BY <1>2 DEF DatabaseInv, Placed
    <2> QED
      BY <2>1, <2>2 DEF KnownOK
  <1>8. SchemaInv'
    <2>1. NobodyBroke'
      BY <1>0, <1>1 DEF NobodyBroke
    <2>2. KnownIsRecorded'
      BY <1>0, <1>2, <1>3 DEF KnownIsRecorded
    <2> QED
      BY <1>0, <1>3, <2>1, <2>2
         DEF SchemaInv, RecordedIsBuilt, DraftsKeepSchema, SameSchema
  <1> QED
    BY <1>4, <1>5, <1>6, <1>7, <1>8 DEF Placed

LEMMA DatabaseInvStep ==
    ASSUME DatabaseInv, DatabaseNext
    PROVE  DatabaseInv'
  <1>1. DatabaseTypeOK'
    BY DatabaseStepTyped DEF DatabaseInv
  <1>2. ASSUME NEW t \in Threads, Request(t) \/ DatabaseStep(t)
        PROVE  Placed' /\ SchemaInv'
    <2>1. \A u \in Threads : ThreadOK(u)' /\ FramesOK(u)' /\ DepthOK(u)'
      BY <1>2, OthersStay, SelfStays DEF DatabaseInv
    <2>2. WriterOK' /\ (writer = None => saved = <<>>)'
      BY <1>2, WriterStays DEF DatabaseInv
    <2>3. SchemaInv' /\ \A c \in Connections : KnownOK(c)'
      BY <1>2, SchemaStays DEF DatabaseInv
    <2> QED
      BY <2>1, <2>2, <2>3 DEF Placed
  <1>3. CASE UNCHANGED databaseVars
    <2> USE <1>3 DEF databaseVars
    <2>1. ASSUME NEW t \in Threads
          PROVE  ThreadOK(t)' /\ FramesOK(t)' /\ DepthOK(t)'
      <3>1. ThreadOK(t) /\ FramesOK(t) /\ DepthOK(t)
        BY DEF DatabaseInv, Placed
      <3> QED
        BY <3>1 DEF ThreadOK, FramesOK, DepthOK, Inside, Token, Pending
    <2>2. WriterOK' /\ (writer = None => saved = <<>>)'
      BY DEF DatabaseInv, Placed, WriterOK, Inside
    <2>3. \A c \in Connections : KnownOK(c)'
      BY DEF DatabaseInv, Placed, KnownOK
    <2>4. SchemaInv'
      <3>1. UNCHANGED <<file, draft, writer, saved, open, known, at>> /\ SchemaInv
        BY DEF DatabaseInv
      <3>2. RecordedIsBuilt' /\ NobodyBroke'
        BY <3>1 DEF SchemaInv, RecordedIsBuilt, NobodyBroke
      <3>3. KnownIsRecorded'
        BY <3>1 DEF SchemaInv, KnownIsRecorded
      <3>4. DraftsKeepSchema'
        BY <3>1 DEF SchemaInv, DraftsKeepSchema, SameSchema
      <3> QED
        BY <3>2, <3>3, <3>4 DEF SchemaInv
    <2> QED
      BY <1>1, <2>1, <2>2, <2>3, <2>4 DEF Placed, DatabaseInv
  <1> QED
    BY <1>1, <1>2, <1>3, DatabaseInvDies DEF DatabaseNext, DatabaseInv

\* The invariant, for any threads, connections, processes and migrations.
THEOREM DatabaseInvHolds == Spec => []DatabaseInv
  <1>1. Init => DatabaseInv
    BY DatabaseInvInit DEF Init
  <1>2. DatabaseInv /\ [Next]_vars => DatabaseInv'
    BY StepOfDatabase, DatabaseInvStep
  <1> QED
    BY <1>1, <1>2, PTL DEF Spec

\* However many connections open the file at once, and wherever they die: what
\* is recorded is built, in order and without a gap, nobody builds what is
\* there, and a connection handed out finds all of it (database.py:390-421).
THEOREM SchemaIsAlwaysWhole == Spec => []SchemaIsWhole
  <1>1. DatabaseInv => SchemaIsWhole
    BY DEF DatabaseInv, SchemaInv, RecordedIsBuilt, KnownIsRecorded, NobodyBroke,
       SchemaIsWhole
  <1> QED
    BY <1>1, DatabaseInvHolds, PTL

-----------------------------------------------------------------------------
(* The answers.                                                               *)

\* The rows a request has written so far.
Written(w) ==
    {<<w.request, i>> : i \in {j \in 1..(w.pos - 1) : w.program[j] = "write"}}
Done(t) == at[t] = "run" /\ work[t].pos > Len(work[t].program)
Active(t) == at[t] # "idle"

\* Requests have numbers of their own; those answered are over.
NumbersAreOwn ==
    /\ \A t, u \in Threads :
         t # u /\ Active(t) /\ Active(u) => work[t].request # work[u].request
    /\ \A w \in acked \cup refused :
         /\ w.request \in 1..requests /\ w.program \in Programs
         /\ \A t \in Threads : Active(t) => work[t].request # w.request
    /\ \A row \in file.rows : row[1] \in 1..requests

\* The file has all of a request that is done and nothing of one under way, whose
\* rows are in the draft.
StoredOK(t) ==
    /\ Active(t) =>
         IF Done(t) THEN Own(file, work[t].request) = RowsOf(work[t].request, work[t].program)
         ELSE Own(file, work[t].request) = {}
    /\ Inside(t) /\ at[t] \in {"run", "begin"} =>
         Own(draft, work[t].request) = Written(work[t])

\* Of all requests that are not inside, the drafts have what the file has.
SameRows(f, g, r) == Own(f, r) = Own(g, r)
Outside(r) == \A t \in Threads : Inside(t) => work[t].request # r
OthersAreKept ==
    writer # None =>
        \A r \in 0..MaxRequests : Outside(r) =>
            /\ SameRows(draft, file, r)
            /\ \A i \in 1..Len(saved) : SameRows(saved[i], file, r)

AllOrNone(r) ==
    Own(file, r) = {} \/ \E p \in Programs : Own(file, r) = RowsOf(r, p)

AnswersInv ==
    /\ NumbersAreOwn
    /\ \A t \in Threads : StoredOK(t)
    /\ OthersAreKept
    /\ \A r \in 1..requests : AllOrNone(r)
    /\ \A w \in acked : RowsOf(w.request, w.program) \subseteq file.rows
    /\ \A w \in refused : RowsOf(w.request, w.program) \cap file.rows = {}

\* The rows of a program that is at its end are written.
LEMMA WrittenAtTheEnd ==
    ASSUME NEW w \in Works, w.program \in Programs, w.pos = Len(w.program),
           w.program[w.pos] = "exit"
    PROVE  Written(w) = RowsOf(w.request, w.program)
  <1>1. w.program \in Seq({"enter", "write", "exit"}) /\ Len(w.program) \in 3..6
    BY ProgramsAre
  <1>2. DOMAIN w.program = 1..Len(w.program)
    BY <1>1
  <1>3. ASSUME NEW j \in 1..Len(w.program), w.program[j] = "write"
        PROVE  j \in 1..(w.pos - 1)
    <2>1. j # Len(w.program)
      BY <1>3
    <2>2. \A n \in 3..6 : \A k \in 1..n : k # n => k \in 1..(n - 1)
      OBVIOUS
    <2> QED
      BY <1>1, <2>1, <2>2
  <1>4. 1..(w.pos - 1) \subseteq 1..Len(w.program)
    <2>1. \A n \in 3..6 : 1..(n - 1) \subseteq 1..n
      OBVIOUS
    <2> QED
      BY <1>1, <2>1
  <1>5. {j \in 1..(w.pos - 1) : w.program[j] = "write"}
          = {j \in DOMAIN w.program : w.program[j] = "write"}
    BY <1>2, <1>3, <1>4
  <1> QED
    BY <1>5 DEF Written, RowsOf

\* What the next statement adds to them.
LEMMA WrittenGrows ==
    ASSUME NEW w \in Works, NEW v \in Works, w.program \in Programs, w.pos \in 1..6,
           v.request = w.request, v.program = w.program, v.pos = w.pos + 1
    PROVE  Written(v) = IF w.program[w.pos] = "write"
                        THEN Written(w) \cup {<<w.request, w.pos>>}
                        ELSE Written(w)
  <1>1. 1..(v.pos - 1) = 1..(w.pos - 1) \cup {w.pos}
    OBVIOUS
  <1> QED
    BY <1>1 DEF Written

\* One thread is inside, or one migrates.
LEMMA OneInside ==
    ASSUME DatabaseTypeOK, Placed, NEW t \in Threads, NEW u \in Threads, Inside(u)
    PROVE  /\ Inside(t) => t = u
           /\ at[t] # "migrating"
  BY ConnectionsAre DEF Placed, ThreadOK

\* A step changes the rows of the file only by committing.
LEMMA FileRows ==
    ASSUME DatabaseInv, AnswersInv, NEW t \in Threads, Request(t) \/ DatabaseStep(t),
           NEW r \in 0..MaxRequests, ~Commit(t) \/ work[t].request # r
    PROVE  Own(file', r) = Own(file, r)
  <1>1. DatabaseTypeOK /\ Placed /\ SchemaInv /\ OthersAreKept /\ ThreadOK(t)
    BY DEF DatabaseInv, AnswersInv, Placed
  <1>2. CASE CommitMigration(t)
    <2>1. at[t] = "migrating" /\ file' = Migrated(draft, NextVersion(Conn(t)))
      BY <1>2 DEF CommitMigration
    <2>2. writer # None /\ Outside(r)
      BY <1>1, <2>1, OneInside, ConnectionsAre DEF ThreadOK, Outside
    <2>3. file'.rows = draft.rows
      BY <1>1, <2>1, MigrationApplies
    <2> QED
      BY <1>1, <2>2, <2>3 DEF OthersAreKept, SameRows, Own
  <1>3. CASE Commit(t)
    <2>1. Inside(t) /\ file' = draft /\ work[t].request # r
      BY <1>3 DEF Commit
    <2>2. writer # None /\ Outside(r)
      BY <1>1, <2>1, OneInside, ConnectionsAre DEF ThreadOK, Outside
    <2> QED
      BY <1>1, <2>1, <2>2 DEF OthersAreKept, SameRows
  <1>4. CASE ~(CommitMigration(t) \/ Commit(t))
    <2>1. file' = file
      BY <1>4 DEF Request, DatabaseStep, OpenStep, TransactionStep,
         FindOpen, Connect, BeginMigration, MigrationRaises, Opened,
         OpenRaises, TakeLock, Savepoint, Begin, BeginGivesUp, WriteRow, WriteRaises,
         Release, CommitRaises, RollBackTo, RollBack, Answer, storage
    <2> QED
      BY <2>1
  <1> QED
    BY <1>2, <1>3, <1>4

\* A commit stores what the request has written, and that is all of it.
LEMMA CommitStoresAll ==
    ASSUME DatabaseInv, AnswersInv, NEW t \in Threads, Commit(t)
    PROVE  /\ Own(file', work[t].request) = RowsOf(work[t].request, work[t].program)
           /\ work[t].pos = Len(work[t].program)
  <1> DEFINE p == work[t].program
             i == work[t].pos
  <1>1. /\ DatabaseTypeOK /\ FramesOK(t) /\ DepthOK(t) /\ StoredOK(t)
        /\ work[t] \in Works /\ frames[t] \in Seq(Nat)
    BY DEF DatabaseInv, AnswersInv, Placed, DatabaseTypeOK
  <1>2. /\ at[t] = "run" /\ Advance(t) /\ i <= Len(p) /\ p[i] = "exit"
        /\ Inside(t) /\ Frame(t) = 0 /\ file' = draft
    BY DEF Commit, Runs, Token
  <1>3. p \in Programs /\ i \in 1..6
    BY <1>1, <1>2, AdvanceTyped
  <1>4. i \in 1..Len(p)
    BY <1>2, <1>3, PosInProgram
  <1>5. Len(frames[t]) = 1
    BY <1>1, <1>2, OutermostIsFirst DEF Inside
  <1>6. Depth[p][i] = 1
    BY <1>1, <1>2, <1>5 DEF DepthOK
  <1>7. p[i] = "exit" /\ Depth[p][i] = 1 => i = Len(p)
    BY <1>3, <1>4, Nested
  <1>8. i = Len(p)
    BY <1>2, <1>6, <1>7, Zenon
  <1>9. Own(draft, work[t].request) = Written(work[t])
    BY <1>1, <1>2 DEF StoredOK
  <1>10. Written(work[t]) = RowsOf(work[t].request, p)
    BY <1>1, <1>2, <1>3, <1>8, WrittenAtTheEnd
  <1> QED
    BY <1>2, <1>8, <1>9, <1>10

\* A step takes a request, ends one, or goes on with one.
Takes(t) ==
    /\ ~Active(t) /\ at'[t] = "connect" /\ requests' = requests + 1
    /\ work'[t].request = requests + 1
    /\ UNCHANGED <<file, draft, writer, saved, frames, acked, refused>>
Ends(t) ==
    /\ Active(t) /\ at'[t] = "idle" /\ requests' = requests /\ file' = file
    /\ \/ acked' = acked \cup {work[t]} /\ refused' = refused /\ Done(t)
       \/ refused' = refused \cup {work[t]} /\ acked' = acked /\ ~Done(t)
GoesOn(t) ==
    /\ Active(t) /\ at'[t] # "idle" /\ requests' = requests
    /\ work'[t].request = work[t].request /\ work'[t].program = work[t].program
    /\ acked' = acked /\ refused' = refused

LEMMA StepKinds ==
    ASSUME DatabaseInv, NEW t \in Threads, Request(t) \/ DatabaseStep(t)
    PROVE  Takes(t) \/ Ends(t) \/ GoesOn(t)
  <1>1. /\ DatabaseTypeOK /\ Placed /\ SchemaInv
        /\ at \in [Threads -> Places] /\ work \in [Threads -> Works]
    BY DEF DatabaseInv, DatabaseTypeOK
  <1> USE DEF Active
  <1>2. CASE Request(t)
    <2>1. PICK q \in Programs : work' =
             [work EXCEPT ![t] = [request |-> requests + 1, program |-> q, pos |-> 1]]
      BY <1>2 DEF Request
    <2> QED
      BY <1>1, <1>2, <2>1 DEF Request, Takes, GoTo, storage, answers
  <1>3. CASE FindOpen(t) \/ Connect(t) \/ BeginMigration(t) \/ CommitMigration(t) \/ Opened(t)
    BY <1>1, <1>3 DEF FindOpen, Connect, BeginMigration, CommitMigration, Opened, GoTo,
       GoesOn, answers
  <1>4. CASE TakeLock(t) \/ WriteRaises(t) \/ RollBackTo(t)
    BY <1>1, <1>4 DEF TakeLock, WriteRaises, RollBackTo, Runs, GoTo, GoesOn, answers
  <1>5. CASE Savepoint(t) \/ Begin(t) \/ WriteRow(t) \/ Release(t) \/ Commit(t)
    <2>1. /\ Advance(t) /\ work[t].pos <= Len(work[t].program)
          /\ at[t] \in {"run", "begin"} /\ at'[t] = "run"
          /\ requests' = requests /\ UNCHANGED answers
      BY <1>1, <1>5 DEF Savepoint, Begin, WriteRow, Release, Commit, Runs, GoTo, Placed,
         ThreadOK
    <2> QED
      BY <1>1, <2>1, AdvanceTyped DEF GoesOn, answers
  <1>6. CASE MigrationRaises(t)
    <2>1. Refuse(t) /\ at[t] = "migrating" /\ UNCHANGED <<file, requests>>
      BY <1>1, <1>6, MigrationApplies DEF MigrationRaises
    <2> QED
      BY <1>1, <2>1, EndsTyped DEF Refuse, Ends, Done
  <1>7. CASE OpenRaises(t) \/ BeginGivesUp(t) \/ CommitRaises(t) \/ RollBack(t)
    <2>1. Refuse(t) /\ at[t] # "idle" /\ UNCHANGED <<file, requests>>
      BY <1>7 DEF OpenRaises, BeginGivesUp, CommitRaises, RollBack, Runs, storage
    <2>2. ~Done(t)
      <3>1. CASE CommitRaises(t)
        <4>1. work[t].pos <= Len(work[t].program)
          BY <3>1 DEF CommitRaises, Runs
        <4>2. work[t].program \in Programs \cup {<<>>} /\ work[t].pos \in 1..7
          BY <1>1 DEF Works
        <4>3. Len(work[t].program) \in 0..6
          <5>1. CASE work[t].program = <<>>
            <6>1. Len(work[t].program) = 0
              BY <5>1
            <6> QED
              BY <6>1
          <5>2. CASE work[t].program \in Programs
            <6>1. Len(work[t].program) \in 3..6
              BY <5>2, ProgramsAre
            <6> QED
              BY <6>1
          <5> QED
            BY <4>2, <5>1, <5>2
        <4>4. \A n \in 0..6 : \A j \in 1..7 : j <= n => ~(j > n)
          OBVIOUS
        <4> QED
          BY <4>1, <4>2, <4>3, <4>4 DEF Done
      <3>2. CASE OpenRaises(t) \/ BeginGivesUp(t) \/ RollBack(t)
        BY <3>2 DEF OpenRaises, BeginGivesUp, RollBack, Done
      <3> QED
        BY <1>7, <3>1, <3>2
    <2> QED
      BY <1>1, <2>1, <2>2, EndsTyped DEF Refuse, Ends
  <1>8. CASE Answer(t)
    <2>1. Acknowledge(t) /\ Done(t) /\ UNCHANGED <<file, requests>>
      BY <1>8 DEF Answer, Done, storage
    <2> QED
      BY <1>1, <2>1, EndsTyped DEF Acknowledge, Ends, Done
  <1> QED
    BY <1>2, <1>3, <1>4, <1>5, <1>6, <1>7, <1>8, Zenon
       DEF DatabaseStep, OpenStep, TransactionStep

\* Requests keep their numbers.
LEMMA NumbersStay ==
    ASSUME DatabaseInv, AnswersInv, DatabaseTypeOK', NEW t \in Threads,
           Request(t) \/ DatabaseStep(t)
    PROVE  NumbersAreOwn'
  <1>1. /\ OnlyMoves(t) /\ NumbersAreOwn /\ (\A u \in Threads : DepthOK(u))
        /\ requests \in Nat
    BY StepMoves DEF DatabaseInv, AnswersInv, Placed, DatabaseTypeOK
  <1>2. \A u \in Threads \ {t} : at'[u] = at[u] /\ work'[u] = work[u]
    BY <1>1 DEF OnlyMoves
  <1>3. \A u \in Threads : Active(u) => work[u].request \in 1..requests
    BY <1>1 DEF DepthOK, Active
  <1>4. \A row \in file'.rows : row[1] \in 1..requests'
    <2>1. SUFFICES ASSUME NEW row \in file'.rows PROVE row[1] \in 1..requests'
      OBVIOUS
    <2>2. row[1] \in 0..MaxRequests
      BY DEF DatabaseTypeOK, Files, Rows
    <2>3. requests' \in {requests, requests + 1}
      BY StepKinds DEF Takes, Ends, GoesOn
    <2>4. CASE Commit(t) /\ work[t].request = row[1]
      <3>1. Active(t)
        BY <2>4 DEF Commit, Runs, Active
      <3> QED
        BY <1>1, <1>3, <2>3, <2>4, <3>1
    <2>5. CASE ~Commit(t) \/ work[t].request # row[1]
      <3>1. row \in Own(file, row[1])
        BY <2>2, <2>5, FileRows DEF Own
      <3> QED
        BY <1>1, <2>3, <3>1 DEF Own, NumbersAreOwn
    <2> QED
      BY <2>4, <2>5
  <1>5. CASE Takes(t)
    BY <1>1, <1>2, <1>3, <1>4, <1>5 DEF NumbersAreOwn, Takes, Active
  <1>6. CASE Ends(t)
    <2>1. acked' \cup refused' = acked \cup refused \cup {work[t]}
      BY <1>6 DEF Ends
    <2>2. Active(t) /\ at'[t] = "idle" /\ requests' = requests
      BY <1>6 DEF Ends
    <2>3. work[t].program \in Programs
      BY <1>1, <2>2 DEF DepthOK, Active
    <2> QED
      BY <1>1, <1>2, <1>3, <1>4, <2>1, <2>2, <2>3 DEF NumbersAreOwn, Active
  <1>7. CASE GoesOn(t)
    BY <1>1, <1>2, <1>3, <1>4, <1>7 DEF NumbersAreOwn, GoesOn, Active
  <1> QED
    BY <1>5, <1>6, <1>7, StepKinds

\* What is stored of the others' requests.
LEMMA OthersStayStored ==
    ASSUME DatabaseInv, AnswersInv, NEW t \in Threads, Request(t) \/ DatabaseStep(t),
           NEW u \in Threads, u # t
    PROVE  StoredOK(u)'
  <1>1. /\ OnlyMoves(t) /\ NumbersAreOwn /\ DepthOK(u) /\ StoredOK(u) /\ ThreadOK(u)
        /\ work[u] \in Works
    BY StepMoves DEF DatabaseInv, AnswersInv, Placed, DatabaseTypeOK
  <1>2. at'[u] = at[u] /\ work'[u] = work[u] /\ frames'[u] = frames[u]
    BY <1>1 DEF OnlyMoves
  <1>3. Active(u) => Own(file', work[u].request) = Own(file, work[u].request)
    <2>1. SUFFICES ASSUME Active(u)
                   PROVE  Own(file', work[u].request) = Own(file, work[u].request)
      OBVIOUS
    <2>2. work[u].request \in 0..MaxRequests
      BY <1>1 DEF Works
    <2>3. Commit(t) => Active(t)
      BY DEF Commit, Runs, Active
    <2>4. ~Commit(t) \/ work[t].request # work[u].request
      BY <1>1, <2>1, <2>3 DEF NumbersAreOwn
    <2> QED
      BY <2>2, <2>4, FileRows
  <1>4. Inside(u) => draft' = draft
    BY InsideKeeps DEF DatabaseInv, storage
  <1> QED
    BY <1>1, <1>2, <1>3, <1>4 DEF StoredOK, Active, Done, Inside

\* Inside, a program is not at its end.
LEMMA InsideIsNotTheEnd ==
    ASSUME NEW p \in Programs, NEW j \in 1..(Len(p) + 1),
           NEW s \in Seq(Nat), s # <<>>, Len(s) = Depth[p][j]
    PROVE  j \in 1..Len(p) /\ ~(j > Len(p))
  <1>1. Len(p) \in 3..6
    BY ProgramsAre
  <1>2. 1 \in 1..Len(p)
    <2>1. \A n \in 3..6 : 1 \in 1..n
      OBVIOUS
    <2> QED
      BY <1>1, <2>1
  <1>3. Depth[p][Len(p) + 1] = 0
    BY <1>2, Nested
  <1>4. Len(s) # 0
    OBVIOUS
  <1>5. j # Len(p) + 1
    BY <1>3, <1>4
  <1>6. \A n \in 3..6 : \A k \in 1..(n + 1) : k # n + 1 => k \in 1..n /\ ~(k > n)
    OBVIOUS
  <1> QED
    BY <1>1, <1>5, <1>6

\* What is stored of its own.
LEMMA SelfStaysStored ==
    ASSUME DatabaseInv, AnswersInv, DatabaseTypeOK', Placed', NEW t \in Threads,
           Request(t) \/ DatabaseStep(t)
    PROVE  StoredOK(t)'
  <1> DEFINE p == work[t].program
             i == work[t].pos
             r == work[t].request
  <1>1. /\ DatabaseTypeOK /\ Placed /\ ThreadOK(t) /\ DepthOK(t) /\ StoredOK(t)
        /\ ThreadOK(t)' /\ DepthOK(t)' /\ NumbersAreOwn
        /\ work[t] \in Works /\ work'[t] \in Works /\ r \in 0..MaxRequests
        /\ at \in [Threads -> Places]
    BY DEF DatabaseInv, AnswersInv, Placed, DatabaseTypeOK, Works
  <1>2. CASE Takes(t)
    <2>1. at'[t] = "connect" /\ work'[t].request = requests + 1 /\ file' = file
      BY <1>2 DEF Takes
    <2>2. Own(file, requests + 1) = {}
      <3>1. requests + 1 \notin 1..requests
        BY <1>1 DEF DatabaseTypeOK
      <3> QED
        BY <1>1, <3>1 DEF NumbersAreOwn, Own
    <2> QED
      BY <1>1, <2>1, <2>2 DEF StoredOK, Done, ThreadOK
  <1>3. CASE Ends(t)
    BY <1>1, <1>3 DEF Ends, StoredOK, Active, ThreadOK
  <1>4. CASE GoesOn(t) /\ Commit(t)
    <2>1. Own(file', r) = RowsOf(r, p) /\ i = Len(p)
      BY <1>4, CommitStoresAll
    <2>2. at'[t] = "run" /\ Advance(t) /\ i <= Len(p) /\ frames'[t] = <<>>
      BY <1>4 DEF Commit, Runs, DatabaseInv, DatabaseTypeOK
    <2>3. work'[t].pos = i + 1 /\ work'[t].program = p /\ work'[t].request = r /\ i \in 1..6
      BY <1>1, <2>2, AdvanceTyped
    <2>4. work'[t].pos > Len(p)
      <3>1. \A j \in 1..6 : j + 1 > j
        OBVIOUS
      <3> QED
        BY <2>1, <2>3, <3>1
    <2> QED
      BY <2>1, <2>2, <2>3, <2>4 DEF StoredOK, Done, Inside
  <1>5. CASE GoesOn(t) /\ ~Commit(t)
    <2>1. /\ Active(t) /\ work'[t].request = r /\ work'[t].program = p
          /\ Own(file', r) = Own(file, r) /\ at'[t] # "idle"
      BY <1>1, <1>5, FileRows DEF GoesOn
    <2>2. CASE at[t] \in {"connect", "opening", "migrating"}
      <3>1. frames'[t] = frames[t] /\ work' = work
        BY <1>1, <1>5, <2>1, <2>2, EndsTyped
           DEF Request, DatabaseStep, OpenStep, TransactionStep,
           FindOpen, Connect, BeginMigration, CommitMigration, MigrationRaises, Opened,
           OpenRaises, TakeLock, Savepoint, Begin, BeginGivesUp, WriteRow, WriteRaises,
           Release, Commit, CommitRaises, RollBackTo, RollBack, Answer, Runs
      <3>2. ~Inside(t)' /\ ~Done(t)
        BY <1>1, <2>2, <3>1 DEF ThreadOK, Done, Inside
      <3>3. ~Done(t)'
        <4>1. i = 1 /\ p \in Programs
          BY <1>1, <2>1, <2>2 DEF DepthOK, Active
        <4>2. ~(i > Len(p))
          <5>1. Len(p) \in 3..6
            BY <4>1, ProgramsAre
          <5>2. \A n \in 3..6 : ~(1 > n)
            OBVIOUS
          <5> QED
            BY <4>1, <5>1, <5>2
        <4> QED
          BY <3>1, <4>2 DEF Done
      <3> QED
        BY <1>1, <2>1, <3>2, <3>3 DEF StoredOK
    <2>3. CASE WriteRaises(t) \/ RollBackTo(t) \/ TakeLock(t)
      <3>1. work' = work /\ at'[t] \in {"raising", "begin"}
        BY <1>1, <2>3 DEF WriteRaises, RollBackTo, TakeLock, GoTo
      <3>2. ~Done(t)
        <4>1. CASE RollBackTo(t)
          BY <4>1 DEF RollBackTo, Done
        <4>2. CASE WriteRaises(t) \/ TakeLock(t)
          <5>1. i <= Len(p) /\ p \in Programs /\ at[t] = "run"
            BY <1>1, <4>2 DEF WriteRaises, TakeLock, Runs, DepthOK
          <5>2. Len(p) \in 3..6 /\ i \in 1..7
            BY <1>1, <5>1, ProgramsAre DEF Works
          <5>3. \A n \in 3..6 : \A j \in 1..7 : j <= n => ~(j > n)
            OBVIOUS
          <5> QED
            BY <5>1, <5>2, <5>3 DEF Done
        <4> QED
          BY <2>3, <4>1, <4>2
      <3>3. TakeLock(t) => draft' = draft /\ frames' = frames /\ at[t] = "run"
        BY DEF TakeLock, storage, Runs
      <3>4. at'[t] = "begin" => TakeLock(t)
        BY <1>1, <2>3 DEF WriteRaises, RollBackTo, GoTo
      <3> QED
        BY <1>1, <2>1, <3>1, <3>2, <3>3, <3>4 DEF StoredOK, Done, Inside
    <2>4. CASE Savepoint(t) \/ Begin(t) \/ WriteRow(t) \/ Release(t)
      <3>1. /\ Advance(t) /\ i <= Len(p) /\ at[t] \in {"run", "begin"} /\ at'[t] = "run"
            /\ p[i] \in {"enter", "write", "exit"} /\ (p[i] = "write" <=> WriteRow(t))
        BY <1>1, <2>4 DEF Savepoint, Begin, WriteRow, Release, Runs, Token, GoTo, ThreadOK
      <3>2. p \in Programs /\ i \in 1..6 /\ work'[t].pos = i + 1
        BY <1>1, <3>1, AdvanceTyped
      <3>3. Written(work'[t]) = IF p[i] = "write" THEN Written(work[t]) \cup {<<r, i>>}
                                ELSE Written(work[t])
        BY <1>1, <2>1, <3>2, WrittenGrows
      <3>4. ~Done(t)
        <4>1. i \in 1..Len(p) /\ Len(p) \in 3..6
          BY <3>1, <3>2, PosInProgram, ProgramsAre
        <4>2. \A n \in 3..6 : \A j \in 1..n : ~(j > n)
          OBVIOUS
        <4> QED
          BY <4>1, <4>2 DEF Done
      <3>5. Own(draft', r) = Written(work'[t])
        <4>1. CASE Begin(t)
          <5>1. draft' = file /\ frames[t] = <<>> /\ at[t] = "begin"
            BY <1>1, <4>1, ConnectionsAre DEF Begin, ThreadOK, Inside
          <5>2. Depth[p][i] = 0
            BY <1>1, <5>1 DEF DepthOK
          <5>3. i = 1
            BY <3>1, <3>2, <5>2, PosInProgram, Nested
          <5>4. Written(work[t]) = {}
            BY <5>3 DEF Written
          <5> QED
            BY <1>1, <2>1, <3>1, <3>3, <3>4, <4>1, <5>1, <5>4
               DEF StoredOK, Begin, WriteRow, Runs
        <4>2. CASE Savepoint(t) \/ Release(t)
          <5>1. draft' = draft /\ Inside(t) /\ ~WriteRow(t)
            <6>1. CASE Savepoint(t)
              <7>1. draft' = draft /\ writer = Conn(t) /\ at[t] = "begin"
                BY <6>1 DEF Savepoint
              <7>2. Inside(t)
                BY <1>1, <7>1, InsideAlone, ConnectionsAre DEF ThreadOK, Placed
              <7> QED
                BY <7>1, <7>2 DEF WriteRow, Runs
            <6>2. CASE Release(t)
              BY <6>2 DEF Release, WriteRow, Runs
            <6> QED
              BY <4>2, <6>1, <6>2
          <5> QED
            BY <1>1, <3>1, <3>3, <5>1 DEF StoredOK
        <4>3. CASE WriteRow(t)
          <5>1. /\ draft' = [draft EXCEPT !.rows = @ \cup {<<r, i>>}]
                /\ Inside(t) /\ draft \in Files
            BY <1>1, <4>3, RunsInside DEF WriteRow, DatabaseTypeOK
          <5>2. draft'.rows = draft.rows \cup {<<r, i>>}
            BY <5>1 DEF Files
          <5>3. Own(draft', r) = Own(draft, r) \cup {<<r, i>>}
            BY <5>2 DEF Own
          <5> QED
            BY <1>1, <3>1, <3>3, <4>3, <5>1, <5>3 DEF StoredOK
        <4> QED
          BY <2>4, <4>1, <4>2, <4>3
      <3>6. ~Done(t)'
        <4>1. Inside(t)'
          <5>1. CASE Savepoint(t) \/ Begin(t)
            <6>1. \/ frames'[t] = <<0>>
                  \/ frames[t] \in Seq(Nat) /\ frames'[t] = Append(frames[t], Len(saved) + 1)
              BY <1>1, <5>1 DEF Savepoint, Begin, DatabaseTypeOK
            <6>2. frames'[t] # <<>>
              BY <6>1
            <6> QED
              BY <6>2 DEF Inside
          <5>2. CASE WriteRow(t)
            BY <1>1, <5>2, RunsInside DEF WriteRow, Inside
          <5>3. CASE Release(t)
            <6>1. /\ Inside(t) /\ Frame(t) > 0 /\ PopFrame(t)
                  /\ saved' = SubSeq(saved, 1, Frame(t) - 1)
              BY <5>3 DEF Release
            <6>2. /\ Len(frames'[t]) = Len(frames[t]) - 1
                  /\ Len(frames[t]) > 1 /\ Len(frames[t]) \in Nat
              BY <1>1, <6>1, PopTyped
            <6>3. frames'[t] # <<>>
              BY <6>2
            <6> QED
              BY <6>3 DEF Inside
          <5> QED
            BY <2>4, <5>1, <5>2, <5>3
        <4>2. frames'[t] \in Seq(Nat)
          BY DEF DatabaseTypeOK
        <4>3. Len(frames'[t]) = Depth[p][i + 1] /\ i + 1 \in 1..(Len(p) + 1)
          BY <1>1, <2>1, <3>1, <3>2 DEF DepthOK
        <4>4. ~(i + 1 > Len(p))
          BY <3>2, <4>1, <4>2, <4>3, InsideIsNotTheEnd DEF Inside
        <4> QED
          BY <2>1, <3>2, <4>4 DEF Done
      <3> QED
        BY <1>1, <2>1, <3>4, <3>5, <3>6 DEF StoredOK
    <2> QED
      BY <1>1, <1>5, <2>1, <2>2, <2>3, <2>4, EndsTyped
         DEF Request, DatabaseStep, OpenStep, TransactionStep,
         FindOpen, Connect, BeginMigration, CommitMigration, MigrationRaises, Opened,
         OpenRaises, BeginGivesUp, CommitRaises, RollBack, Answer, GoesOn, Active
  <1> QED
    BY <1>2, <1>3, <1>4, <1>5, StepKinds

\* While the transaction lasts the thread stays inside, with its request.
LEMMA StaysInside ==
    ASSUME DatabaseTypeOK, Placed, NEW t \in Threads, Request(t) \/ DatabaseStep(t),
           Inside(t), writer' # None
    PROVE  Inside(t)' /\ work'[t].request = work[t].request
  <1>1. /\ at[t] \in {"run", "begin", "raising"} /\ writer = Conn(t) /\ writer # None
        /\ frames[t] \in Seq(Nat) /\ ThreadOK(t) /\ at \in [Threads -> Places]
    BY ConnectionsAre DEF Placed, ThreadOK, DatabaseTypeOK
  <1>2. ~Answer(t)
    BY AtTheEnd DEF Answer, Inside
  <1>3. \/ TakeLock(t) \/ WriteRaises(t) \/ WriteRow(t)
        \/ Savepoint(t) \/ Release(t) \/ RollBackTo(t)
    BY <1>1, <1>2 DEF Request, DatabaseStep, OpenStep, TransactionStep,
       FindOpen, Connect, BeginMigration, CommitMigration, MigrationRaises, Opened,
       OpenRaises, Begin, BeginGivesUp, Commit, CommitRaises, RollBack, OthersWrite
  <1>4. CASE TakeLock(t) \/ WriteRaises(t)
    BY <1>4 DEF TakeLock, WriteRaises, Inside
  <1>5. CASE WriteRow(t)
    BY <1>5, AdvanceTyped DEF WriteRow, Runs, Inside
  <1>6. CASE Savepoint(t)
    <2>1. frames'[t] = Append(frames[t], Len(saved) + 1)
      BY <1>6 DEF Savepoint, DatabaseTypeOK
    <2>2. frames'[t] # <<>>
      BY <1>1, <2>1
    <2> QED
      BY <1>1, <1>6, <2>2, AdvanceTyped DEF Savepoint, ThreadOK, Inside
  <1>7. CASE Release(t) \/ RollBackTo(t)
    <2>1. Frame(t) > 0 /\ PopFrame(t) /\ saved' = SubSeq(saved, 1, Frame(t) - 1)
      BY <1>7 DEF Release, RollBackTo
    <2>2. /\ Len(frames'[t]) = Len(frames[t]) - 1
          /\ Len(frames[t]) > 1 /\ Len(frames[t]) \in Nat
      BY <2>1, PopTyped
    <2>3. frames'[t] # <<>>
      BY <2>2
    <2>4. work' = work \/ (Advance(t) /\ work[t].pos <= Len(work[t].program))
      BY <1>7 DEF Release, RollBackTo, Runs
    <2> QED
      BY <2>3, <2>4, AdvanceTyped DEF Inside
  <1> QED
    BY <1>3, <1>4, <1>5, <1>6, <1>7

\* What is outside after a step was outside before, unless the writer changed.
LEMMA OutsideWas ==
    ASSUME DatabaseInv, NEW t \in Threads, Request(t) \/ DatabaseStep(t),
           writer # None, writer' # None, NEW r, Outside(r)'
    PROVE  Outside(r)
  <1>1. DatabaseTypeOK /\ Placed /\ OnlyMoves(t) /\ ThreadOK(t)
    BY StepMoves DEF DatabaseInv, Placed
  <1>2. SUFFICES ASSUME NEW u \in Threads, Inside(u) PROVE work[u].request # r
    BY DEF Outside
  <1>3. CASE u # t
    BY <1>1, <1>2, <1>3 DEF OnlyMoves, Outside, Inside
  <1>4. CASE u = t
    <2>1. Inside(t) /\ at[t] \in {"run", "begin", "raising"} /\ writer = Conn(t)
      BY <1>1, <1>2, <1>4 DEF ThreadOK
    <2>2. Inside(t)' /\ work'[t].request = work[t].request
      BY <1>1, <2>1, StaysInside
    <2> QED
      BY <1>4, <2>2 DEF Outside
  <1> QED
    BY <1>3, <1>4

\* The drafts keep the others' rows.
LEMMA OthersAreStillKept ==
    ASSUME DatabaseInv, AnswersInv, NEW t \in Threads, Request(t) \/ DatabaseStep(t)
    PROVE  OthersAreKept'
  <1>1. /\ DatabaseTypeOK /\ Placed /\ OthersAreKept /\ saved \in Seq(Files)
        /\ ThreadOK(t) /\ (writer = None => saved = <<>>)
    BY DEF DatabaseInv, AnswersInv, Placed, DatabaseTypeOK
  <1> SUFFICES ASSUME writer' # None, NEW r \in 0..MaxRequests, Outside(r)'
               PROVE  /\ SameRows(draft', file', r)
                      /\ \A i \in 1..Len(saved') : SameRows(saved'[i], file', r)
    BY DEF OthersAreKept, SameRows
  <1>2. CASE BeginMigration(t) \/ Begin(t)
    <2>1. draft' = file /\ file' = file /\ saved' = saved /\ writer = None
      BY <1>2 DEF BeginMigration, Begin
    <2>2. Len(saved') = 0
      BY <1>1, <2>1
    <2> QED
      BY <2>1, <2>2 DEF SameRows
  <1>3. CASE ~(BeginMigration(t) \/ Begin(t))
    <2>1. writer # None /\ file' = file
      BY <1>3, <1>1 DEF Request, DatabaseStep, OpenStep, TransactionStep,
         FindOpen, Connect, CommitMigration, MigrationRaises, Opened,
         OpenRaises, TakeLock, Savepoint, BeginGivesUp, WriteRow, WriteRaises,
         Release, Commit, CommitRaises, RollBackTo, RollBack, Answer, storage
    <2>2. /\ SameRows(draft, file, r)
          /\ \A i \in 1..Len(saved) : SameRows(saved[i], file, r)
      BY <1>1, <2>1, OutsideWas DEF OthersAreKept
    <2>3. CASE Savepoint(t)
      <3>1. saved' = Append(saved, draft) /\ draft' = draft
        BY <2>3 DEF Savepoint
      <3>2. \A i \in 1..Len(saved') :
               saved'[i] = draft \/ (i \in 1..Len(saved) /\ saved'[i] = saved[i])
        BY <1>1, <3>1
      <3> QED
        BY <2>1, <2>2, <3>1, <3>2
    <2>4. CASE WriteRow(t)
      <3>1. /\ draft' = [draft EXCEPT !.rows = @ \cup {<<work[t].request, work[t].pos>>}]
            /\ draft \in Files /\ saved' = saved /\ Inside(t)
        BY <1>1, <2>4, RunsInside DEF WriteRow, DatabaseTypeOK
      <3>2. draft'.rows = draft.rows \cup {<<work[t].request, work[t].pos>>}
        BY <3>1 DEF Files
      <3>3. work[t].request # r
        BY <1>1, <2>1, <3>1, OutsideWas DEF Outside
      <3>4. Own(draft', r) = Own(draft, r)
        BY <3>2, <3>3 DEF Own
      <3> QED
        BY <2>1, <2>2, <3>1, <3>4 DEF SameRows
    <2>5. CASE Release(t) \/ RollBackTo(t)
      <3>1. /\ Inside(t) /\ Frame(t) > 0 /\ PopFrame(t)
            /\ saved' = SubSeq(saved, 1, Frame(t) - 1)
            /\ draft' = draft \/ draft' = saved[Frame(t)]
        BY <2>5 DEF Release, RollBackTo
      <3>2. /\ Frame(t) \in 1..Len(saved) /\ Len(saved') = Frame(t) - 1
            /\ \A i \in 1..(Frame(t) - 1) : saved'[i] = saved[i]
        BY <1>1, <3>1, PopTyped
      <3>3. 1..(Frame(t) - 1) \subseteq 1..Len(saved)
        BY <1>1, <3>2
      <3> QED
        BY <2>1, <2>2, <3>1, <3>2, <3>3
    <2>6. CASE ~(Savepoint(t) \/ WriteRow(t) \/ Release(t) \/ RollBackTo(t))
      <3>1. draft' = draft /\ saved' = saved
        BY <1>3, <2>6 DEF Request, DatabaseStep, OpenStep, TransactionStep,
           FindOpen, Connect, CommitMigration, MigrationRaises, Opened, OpenRaises,
           TakeLock, BeginGivesUp, WriteRaises, Commit, CommitRaises, RollBack, Answer,
           storage
      <3> QED
        BY <2>1, <2>2, <3>1
    <2> QED
      BY <2>3, <2>4, <2>5, <2>6
  <1> QED
    BY <1>2, <1>3

\* What was answered stays so.
LEMMA AnswersStay ==
    ASSUME DatabaseInv, AnswersInv, NumbersAreOwn', DatabaseTypeOK', NEW t \in Threads,
           Request(t) \/ DatabaseStep(t)
    PROVE  /\ \A r \in 1..requests' : AllOrNone(r)'
           /\ \A w \in acked' : RowsOf(w.request, w.program) \subseteq file'.rows
           /\ \A w \in refused' : RowsOf(w.request, w.program) \cap file'.rows = {}
  <1>1. /\ NumbersAreOwn /\ StoredOK(t) /\ DepthOK(t) /\ requests \in 0..MaxRequests
        /\ \A r \in 1..requests : AllOrNone(r)
        /\ \A w \in acked : RowsOf(w.request, w.program) \subseteq file.rows
        /\ \A w \in refused : RowsOf(w.request, w.program) \cap file.rows = {}
        /\ MaxRequests \in Nat
    BY DatabaseAssumption DEF DatabaseInv, AnswersInv, Placed, DatabaseTypeOK
  <1>2. /\ work[t].request \in 0..MaxRequests
        /\ Commit(t) => Active(t)
        /\ Active(t) => work[t].program \in Programs
    BY <1>1 DEF DatabaseInv, DatabaseTypeOK, Works, Commit, Runs, Active, DepthOK
  <1>3. ASSUME NEW r \in 1..requests' PROVE AllOrNone(r)'
    <2>1. r \in 0..MaxRequests
      BY <1>1, DatabaseAssumption DEF DatabaseTypeOK
    <2>2. CASE Commit(t) /\ r = work[t].request
      BY <1>2, <2>2, CommitStoresAll DEF AllOrNone
    <2>3. CASE ~Commit(t) \/ r # work[t].request
      <3>1. Own(file', r) = Own(file, r)
        BY <2>1, <2>3, FileRows
      <3>2. CASE r \in 1..requests
        BY <1>1, <3>1, <3>2 DEF AllOrNone
      <3>3. CASE r \notin 1..requests
        <4>1. Own(file, r) = {}
          BY <1>1, <3>3 DEF NumbersAreOwn, Own
        <4> QED
          BY <3>1, <4>1 DEF AllOrNone
      <3> QED
        BY <3>2, <3>3
    <2> QED
      BY <2>2, <2>3
  <1>4. \A w \in acked \cup refused :
           Own(file', w.request) = Own(file, w.request)
    <2>1. SUFFICES ASSUME NEW w \in acked \cup refused
                   PROVE  Own(file', w.request) = Own(file, w.request)
      OBVIOUS
    <2>2. w.request \in 0..MaxRequests
      BY <1>1 DEF NumbersAreOwn
    <2>3. ~Commit(t) \/ work[t].request # w.request
      BY <1>1, <1>2 DEF NumbersAreOwn
    <2> QED
      BY <2>2, <2>3, FileRows
  <1>5. \A f, r, q : /\ RowsOf(r, q) \subseteq f.rows <=> RowsOf(r, q) \subseteq Own(f, r)
                     /\ RowsOf(r, q) \cap f.rows = {} <=> RowsOf(r, q) \cap Own(f, r) = {}
    BY DEF RowsOf, Own
  <1>6. /\ \A w \in acked : RowsOf(w.request, w.program) \subseteq file'.rows
        /\ \A w \in refused : RowsOf(w.request, w.program) \cap file'.rows = {}
    <2>1. \A w \in acked : RowsOf(w.request, w.program) \subseteq Own(file, w.request)
      BY <1>1, <1>5
    <2>2. \A w \in refused : RowsOf(w.request, w.program) \cap Own(file, w.request) = {}
      BY <1>1, <1>5
    <2> QED
      BY <1>4, <1>5, <2>1, <2>2
  <1>7. CASE Takes(t) \/ GoesOn(t)
    <2>1. acked' = acked /\ refused' = refused
      BY <1>7 DEF Takes, GoesOn
    <2> QED
      BY <1>3, <1>6, <2>1
  <1>8. CASE Ends(t)
    <2>1. Active(t) /\ file' = file
      BY <1>8 DEF Ends
    <2>2. Done(t) => RowsOf(work[t].request, work[t].program) \subseteq file'.rows
      BY <1>1, <2>1 DEF StoredOK, Own
    <2>3. ~Done(t) => RowsOf(work[t].request, work[t].program) \cap file'.rows = {}
      <3>1. SUFFICES ASSUME ~Done(t)
                     PROVE  RowsOf(work[t].request, work[t].program) \cap file'.rows = {}
        OBVIOUS
      <3>2. Own(file', work[t].request) = {}
        BY <1>1, <2>1, <3>1 DEF StoredOK
      <3> QED
        BY <1>5, <3>2
    <2> QED
      BY <1>3, <1>6, <1>8, <2>2, <2>3 DEF Ends
  <1> QED
    BY <1>7, <1>8, StepKinds

LEMMA AnswersInvStep ==
    ASSUME DatabaseInv, AnswersInv, DatabaseNext, DatabaseInv'
    PROVE  AnswersInv'
  <1>0. DatabaseTypeOK' /\ Placed'
    BY DEF DatabaseInv
  <1>1. ASSUME NEW t \in Threads, Request(t) \/ DatabaseStep(t)
        PROVE  AnswersInv'
    <2>1. NumbersAreOwn'
      BY <1>0, <1>1, NumbersStay
    <2>2. \A u \in Threads : StoredOK(u)'
      BY <1>0, <1>1, OthersStayStored, SelfStaysStored
    <2>3. OthersAreKept'
      BY <1>1, OthersAreStillKept
    <2> QED
      BY <1>0, <1>1, <2>1, <2>2, <2>3, AnswersStay DEF AnswersInv
  <1>2. ASSUME NEW p, DatabaseDies(p)
        PROVE  AnswersInv'
    <2>1. \A t \in Threads :
             \/ at'[t] = "idle" /\ frames'[t] = <<>> /\ InProcess(p, Conn(t))
             \/ at'[t] = at[t] /\ work'[t] = work[t] /\ frames'[t] = frames[t]
      BY <1>2, DiedTyped DEF DatabaseInv
    <2>2. /\ UNCHANGED <<file, requests, acked, refused>>
          /\ writer' # None => UNCHANGED <<writer, draft, saved>> /\ ~InProcess(p, writer)
      BY <1>2 DEF DatabaseDies, answers
    <2>3. NumbersAreOwn'
      BY <2>1, <2>2 DEF AnswersInv, NumbersAreOwn, Active
    <2>4. \A t \in Threads : Inside(t) => writer = Conn(t)
      BY DEF DatabaseInv, Placed, ThreadOK
    <2>5. ASSUME NEW t \in Threads PROVE StoredOK(t)'
      <3>1. StoredOK(t)
        BY DEF AnswersInv
      <3>2. CASE at'[t] = "idle" /\ frames'[t] = <<>>
        BY <3>2 DEF StoredOK, Active, Inside
      <3>3. CASE ~InProcess(p, Conn(t)) \/ ~(at'[t] = "idle" /\ frames'[t] = <<>>)
        <4>1. /\ at'[t] = at[t] /\ work'[t] = work[t] /\ frames'[t] = frames[t]
              /\ ~InProcess(p, Conn(t))
          BY <1>2, <2>1, <3>3, DiedTyped DEF DatabaseInv
        <4>2. Inside(t) => draft' = draft
          BY <1>2, <2>4, <4>1, ConnectionsAre DEF DatabaseDies
        <4> QED
          BY <2>2, <3>1, <4>1, <4>2 DEF StoredOK, Active, Done, Inside
      <3> QED
        BY <3>2, <3>3
    <2>6. OthersAreKept'
      <3>1. SUFFICES ASSUME writer' # None, NEW r \in 0..MaxRequests, Outside(r)'
                     PROVE  /\ SameRows(draft', file', r)
                            /\ \A i \in 1..Len(saved') : SameRows(saved'[i], file', r)
        BY DEF OthersAreKept, SameRows
      <3>2. Outside(r)
        BY <2>1, <2>2, <2>4, <3>1 DEF Outside, Inside
      <3> QED
        BY <2>2, <3>1, <3>2 DEF AnswersInv, OthersAreKept, SameRows
    <2> QED
      BY <2>2, <2>3, <2>5, <2>6 DEF AnswersInv, AllOrNone
  <1>3. CASE UNCHANGED databaseVars
    <2> USE <1>3 DEF databaseVars
    <2>1. NumbersAreOwn'
      BY DEF AnswersInv, NumbersAreOwn, Active
    <2>2. ASSUME NEW t \in Threads PROVE StoredOK(t)'
      BY DEF AnswersInv, StoredOK, Active, Done, Inside
    <2>3. OthersAreKept'
      BY DEF AnswersInv, OthersAreKept, Outside, SameRows, Inside
    <2> QED
      BY <2>1, <2>2, <2>3 DEF AnswersInv, AllOrNone
  <1> QED
    BY <1>1, <1>2, <1>3 DEF DatabaseNext

LEMMA AnswersInvInit == DatabaseInit => AnswersInv
  BY DatabaseAssumption DEF DatabaseInit, AnswersInv, NumbersAreOwn, StoredOK, OthersAreKept,
     AllOrNone, Own, Active, Inside, Empty

\* What a call has written is in the file when it is answered, nothing of a call
\* that raised is, and of every call all rows are there or none, whatever other
\* threads do on the same connection and wherever the process dies
\* (database.py:364-388).
AnsweredIsStored ==
    /\ \A w \in acked : RowsOf(w.request, w.program) \subseteq file.rows
    /\ \A w \in refused : RowsOf(w.request, w.program) \cap file.rows = {}
    /\ \A r \in 1..requests :
         {row \in file.rows : row[1] = r}
           \in {{}} \cup {RowsOf(r, p) : p \in Programs}

\* So it is, for any threads, connections and requests (database.py:364-388).
THEOREM AnsweredIsAlwaysStored == Spec => []AnsweredIsStored
  <1>1. Init => DatabaseInv /\ AnswersInv
    BY DatabaseInvInit, AnswersInvInit DEF Init
  <1>2. DatabaseInv /\ AnswersInv /\ [Next]_vars => (DatabaseInv /\ AnswersInv)'
    BY StepOfDatabase, DatabaseInvStep, AnswersInvStep
  <1>3. AnswersInv => AnsweredIsStored
    BY DEF AnswersInv, AnsweredIsStored, AllOrNone, Own
  <1> QED
    BY <1>1, <1>2, <1>3, PTL DEF Spec

-----------------------------------------------------------------------------
(* The file and the answers implement AtomicStore.                            *)

Contents == [r \in 1..MaxRequests |-> Own(file, r)]
Succeeded ==
    {[request |-> w.request, rows |-> RowsOf(w.request, w.program)] : w \in acked}
Failed == {w.request : w \in refused}

\* A migration leaves the schema as it is or adds the next version.
LEMMA MigrationAddsOne ==
    ASSUME DatabaseTypeOK, Placed, SchemaInv, NEW t \in Threads, CommitMigration(t)
    PROVE  \/ file'.schema = file.schema
           \/ \E v \in 1..Versions : file.schema = 1..(v - 1) /\ file'.schema = 1..v
  <1> DEFINE v == NextVersion(Conn(t))
  <1>1. at[t] = "migrating" /\ file' = Migrated(draft, v) /\ writer # None
    BY ConnectionsAre DEF CommitMigration, Placed, ThreadOK
  <1>2. PICK m \in 0..Versions : Migrated(draft, v).schema = 1..m
    BY <1>1, MigrationApplies
  <1>3. PICK n \in 0..Versions : file.schema = 1..n /\ draft.schema = 1..n
    BY <1>1 DEF SchemaInv, RecordedIsBuilt, DraftsKeepSchema, SameSchema
  <1>4. /\ draft.schema \subseteq Migrated(draft, v).schema
        /\ Migrated(draft, v).schema \subseteq draft.schema \cup {v}
    BY <1>1, MigrationApplies DEF Migrated, DatabaseTypeOK, Files
  <1>5. 1..n \subseteq 1..m /\ 1..m \subseteq 1..n \cup {v} /\ Versions \in Nat
    BY <1>2, <1>3, <1>4, DatabaseAssumption
  <1> HIDE DEF v
  <1>6. m = n \/ m = n + 1
    <2>1. n = 0 \/ n \in 1..m
      BY <1>5
    <2>2. m < n + 2 \/ (n + 1 \in 1..m /\ n + 2 \in 1..m)
      BY <1>2, <1>3, <1>5
    <2>3. ~(n + 1 \in 1..m /\ n + 2 \in 1..m)
      BY <1>2, <1>3, <1>5
    <2> QED
      BY <1>2, <1>3, <1>5, <2>1, <2>2, <2>3
  <1>7. CASE m = n
    BY <1>1, <1>2, <1>3, <1>7
  <1>8. CASE m = n + 1
    <2>1. m \in 1..Versions /\ n = m - 1
      BY <1>2, <1>3, <1>5, <1>8
    <2> QED
      BY <1>1, <1>2, <1>3, <2>1
  <1> QED
    BY <1>6, <1>7, <1>8

LEMMA StoreInit == DatabaseInit => Store!Init
  BY DEF DatabaseInit, Store!Init, Empty, Own

\* What changes neither the schema, nor any rows, nor the answers is a stutter.
LEMMA StoreStutter ==
    ASSUME file'.schema = file.schema, Contents' = Contents, acked' = acked,
           refused' = refused
    PROVE  UNCHANGED Store!storeVars
  BY DEF Store!storeVars, Contents

\* A commit stores the request, when the schema is whole and nobody was answered.
LEMMA CommitIsStore ==
    ASSUME DatabaseInv, AnswersInv, NEW t \in Threads, Commit(t)
    PROVE  Store!Next
  <1> DEFINE r == work[t].request
             p == work[t].program
  <1>1. /\ DatabaseTypeOK /\ Placed /\ SchemaInv /\ ThreadOK(t) /\ DepthOK(t)
        /\ StoredOK(t) /\ NumbersAreOwn /\ Conn(t) \in Connections
    BY ConnectionsAre DEF DatabaseInv, AnswersInv, Placed
  <1>2. /\ at[t] = "run" /\ work[t].pos = Len(p) /\ Active(t) /\ file' = draft
        /\ Inside(t) /\ acked' = acked /\ refused' = refused
    BY CommitStoresAll DEF Commit, Runs, Active, answers
  <1>3. r \in 1..requests /\ p \in Programs /\ requests \in 0..MaxRequests
    BY <1>1, <1>2 DEF DepthOK, DatabaseTypeOK
  <1>4. r \in 1..MaxRequests
    BY <1>3, DatabaseAssumption
  <1>5. writer # None /\ file'.schema = file.schema
    BY <1>1, <1>2, ConnectionsAre DEF ThreadOK, SchemaInv, DraftsKeepSchema, SameSchema
  <1>6. file.schema = 1..Versions
    BY <1>1, <1>2 DEF ThreadOK, SchemaInv, KnownIsRecorded
  <1>7. Store!Open(r)
    BY <1>1, <1>2 DEF Store!Open, NumbersAreOwn
  <1>8. Contents[r] = {}
    <2>1. Len(p) \in 3..6
      BY <1>3, ProgramsAre
    <2>2. ~Done(t)
      BY <1>2, <2>1 DEF Done
    <2> QED
      BY <1>1, <1>2, <1>4, <2>2 DEF StoredOK, Contents
  <1>9. Contents' = [Contents EXCEPT ![r] = RowsOf(r, p)]
    <2>1. Own(file', r) = RowsOf(r, p)
      BY CommitStoresAll
    <2>2. \A q \in 1..MaxRequests : q # r => Own(file', q) = Own(file, q)
      BY FileRows DEF DatabaseStep, TransactionStep
    <2> QED
      BY <1>4, <2>1, <2>2 DEF Contents
  <1> HIDE DEF r, p
  <1>10. Store!Store(r)
    BY <1>2, <1>3, <1>4, <1>5, <1>6, <1>7, <1>8, <1>9 DEF Store!Store, Contents
  <1> QED
    BY <1>4, <1>10 DEF Store!Next

\* An answer is a success when the rows are there and a failure when none is.
LEMMA EndIsAnswer ==
    ASSUME DatabaseInv, AnswersInv, NEW t \in Threads, Ends(t)
    PROVE  Store!Next
  <1> DEFINE p == work[t].program
  <1>1. /\ DatabaseTypeOK /\ DepthOK(t) /\ StoredOK(t) /\ NumbersAreOwn
        /\ Active(t) /\ file' = file
    BY DEF DatabaseInv, AnswersInv, Placed, Ends
  <1>2. work[t].request \in 1..MaxRequests /\ p \in Programs
    BY <1>1, DatabaseAssumption DEF DepthOK, DatabaseTypeOK, Active
  <1>3. PICK r \in 1..MaxRequests : r = work[t].request
    BY <1>2
  <1>4. Store!Open(r) /\ Contents' = Contents
    BY <1>1, <1>3 DEF Store!Open, NumbersAreOwn, Contents
  <1>5. CASE acked' = acked \cup {work[t]} /\ refused' = refused /\ Done(t)
    <2>1. Contents[r] = RowsOf(r, p)
      BY <1>1, <1>3, <1>5 DEF StoredOK, Contents
    <2>2. Succeeded' = Succeeded \cup {[request |-> r, rows |-> RowsOf(r, p)]}
      BY <1>3, <1>5 DEF Succeeded
    <2>3. Store!Succeed(r)
      BY <1>1, <1>2, <1>4, <1>5, <2>1, <2>2 DEF Store!Succeed, Contents, Succeeded, Failed
    <2> QED
      BY <2>3 DEF Store!Next
  <1>6. CASE refused' = refused \cup {work[t]} /\ acked' = acked /\ ~Done(t)
    <2>1. Contents[r] = {}
      BY <1>1, <1>3, <1>6 DEF StoredOK, Contents
    <2>2. Failed' = Failed \cup {r} /\ Succeeded' = Succeeded
      BY <1>3, <1>6 DEF Succeeded, Failed
    <2>3. Store!Fail(r)
      BY <1>1, <1>4, <2>1, <2>2 DEF Store!Fail, Contents, Succeeded, Failed
    <2> QED
      BY <2>3 DEF Store!Next
  <1> QED
    BY <1>5, <1>6 DEF Ends

LEMMA StoreStep ==
    ASSUME DatabaseInv, AnswersInv, DatabaseNext
    PROVE  [Store!Next]_(Store!storeVars)
  <1>1. ASSUME NEW t \in Threads, Request(t) \/ DatabaseStep(t)
        PROVE  [Store!Next]_(Store!storeVars)
    <2>1. CASE Commit(t)
      BY <2>1, CommitIsStore
    <2>2. CASE Ends(t)
      BY <2>2, EndIsAnswer
    <2>3. CASE CommitMigration(t)
      <3>1. acked' = acked /\ refused' = refused /\ ~Commit(t)
        BY <2>3 DEF CommitMigration, Commit, Runs, answers
      <3>2. Contents' = Contents
        BY <1>1, <3>1, FileRows DEF Contents
      <3>3. CASE file'.schema = file.schema
        BY <3>1, <3>2, <3>3, StoreStutter
      <3>4. CASE \E v \in 1..Versions : file.schema = 1..(v - 1) /\ file'.schema = 1..v
        <4>1. Store!Migrate
          BY <3>1, <3>2, <3>4 DEF Store!Migrate, Contents
        <4> QED
          BY <4>1 DEF Store!Next
      <3> QED
        BY <2>3, <3>3, <3>4, MigrationAddsOne DEF DatabaseInv
    <2>4. CASE ~(Commit(t) \/ CommitMigration(t) \/ Ends(t))
      <3>1. file' = file
        BY <1>1, <2>4 DEF Request, DatabaseStep, OpenStep, TransactionStep,
           FindOpen, Connect, BeginMigration, MigrationRaises, Opened,
           OpenRaises, TakeLock, Savepoint, Begin, BeginGivesUp, WriteRow, WriteRaises,
           Release, CommitRaises, RollBackTo, RollBack, Answer, storage
      <3>2. acked' = acked /\ refused' = refused
        BY <1>1, <2>4, StepKinds DEF Takes, GoesOn
      <3> QED
        BY <3>1, <3>2, StoreStutter DEF Contents
    <2> QED
      BY <2>1, <2>2, <2>3, <2>4
  <1>2. CASE (\E p : DatabaseDies(p)) \/ UNCHANGED databaseVars
    <2>1. file' = file /\ acked' = acked /\ refused' = refused
      BY <1>2 DEF DatabaseDies, databaseVars, answers
    <2> QED
      BY <2>1, StoreStutter DEF Contents
  <1> QED
    BY <1>1, <1>2 DEF DatabaseNext

\* Whatever connections, threads and processes do and wherever they fail, every
\* call is one step of the file and the answers that happens or does not, at the
\* full schema, and none is stored after it was said to have failed
\* (database.py:364-421).
THEOREM DatabaseIsAtomic == Spec => ImplementsAtomicStore
  <1>1. Init => DatabaseInv /\ AnswersInv /\ Store!Init
    BY DatabaseInvInit, AnswersInvInit, StoreInit DEF Init
  <1>2. DatabaseInv /\ AnswersInv /\ [Next]_vars => (DatabaseInv /\ AnswersInv)'
    BY StepOfDatabase, DatabaseInvStep, AnswersInvStep
  <1>3. DatabaseInv /\ AnswersInv /\ [Next]_vars => [Store!Next]_(Store!storeVars)
    BY StepOfDatabase, StoreStep
  <1> QED
    BY <1>1, <1>2, <1>3, PTL DEF Spec, ImplementsAtomicStore, Store!Spec

-----------------------------------------------------------------------------
(* Nobody is stuck.                                                           *)

\* A lock is held by a thread that is where it needs it.
OpenersAreThere ==
    \A c \in Connections : opener[c] # None =>
        Conn(opener[c]) = c /\ at[opener[c]] \in {"opening", "migrating"}
HoldersAreThere ==
    \A c \in Connections : lock[c] # None =>
        Conn(lock[c]) = c /\ (at[lock[c]] = "begin" \/ Inside(lock[c]))

HeldInv == OpenersAreThere /\ HoldersAreThere

\* Who opens a connection stays there, or leaves it.
LEMMA OpenersStay ==
    ASSUME DatabaseInv, HeldInv, NEW t \in Threads, Request(t) \/ DatabaseStep(t)
    PROVE  OpenersAreThere'
  <1>1. /\ DatabaseTypeOK /\ OnlyMoves(t) /\ ThreadOK(t) /\ Conn(t) \in Connections
        /\ at \in [Threads -> Places] /\ opener \in [Connections -> Threads \cup {None}]
        /\ OpenersAreThere /\ Conn(t) # None /\ t # None
    BY StepMoves, ConnectionsAre DEF DatabaseInv, DatabaseTypeOK, Placed, HeldInv
  <1> SUFFICES ASSUME NEW c \in Connections, opener'[c] # None
               PROVE  Conn(opener'[c]) = c /\ at'[opener'[c]] \in {"opening", "migrating"}
    BY DEF OpenersAreThere, Conn
  <1>2. CASE opener'[c] = t
    <2>1. c = Conn(t)
      BY <1>1, <1>2 DEF OnlyMoves, OpenersAreThere
    <2>2. CASE Connect(t) \/ BeginMigration(t) \/ CommitMigration(t)
      BY <1>1, <1>2, <2>1, <2>2 DEF Connect, BeginMigration, CommitMigration, GoTo
    <2>3. CASE MigrationRaises(t) \/ Opened(t) \/ OpenRaises(t)
      BY <1>1, <1>2, <2>1, <2>3 DEF MigrationRaises, Opened, OpenRaises
    <2>4. CASE Request(t) \/ FindOpen(t) \/ TransactionStep(t)
      <3>1. opener' = opener /\ at[t] \notin {"opening", "migrating"}
        BY <2>4 DEF Request, FindOpen, TransactionStep, TakeLock, Savepoint, Begin,
           BeginGivesUp, WriteRow, WriteRaises, Release, Commit, CommitRaises, RollBackTo,
           RollBack, Answer, Runs, opening
      <3> QED
        BY <1>1, <1>2, <3>1 DEF OpenersAreThere
    <2> QED
      BY <2>2, <2>3, <2>4 DEF DatabaseStep, OpenStep
  <1>3. CASE opener'[c] # t
    <2>1. opener'[c] = opener[c]
      <3>1. CASE c # Conn(t)
        BY <1>1, <3>1 DEF OnlyMoves
      <3>2. CASE c = Conn(t)
        BY <1>1, <1>3, <3>2 DEF Request, DatabaseStep, OpenStep, TransactionStep,
           FindOpen, Connect, BeginMigration, CommitMigration, MigrationRaises, Opened,
           OpenRaises, TakeLock, Savepoint, Begin, BeginGivesUp, WriteRow, WriteRaises,
           Release, Commit, CommitRaises, RollBackTo, RollBack, Answer, opening
      <3> QED
        BY <3>1, <3>2
    <2>2. opener[c] \in Threads \ {t}
      BY <1>1, <1>3, <2>1
    <2> QED
      BY <1>1, <2>1, <2>2 DEF OnlyMoves, OpenersAreThere
  <1> QED
    BY <1>2, <1>3

\* Who has a connection's lock stays in its transaction, or gives it back.
LEMMA HoldersStay ==
    ASSUME DatabaseInv, HeldInv, NEW t \in Threads, Request(t) \/ DatabaseStep(t)
    PROVE  HoldersAreThere'
  <1>1. /\ DatabaseTypeOK /\ Placed /\ OnlyMoves(t) /\ ThreadOK(t)
        /\ Conn(t) \in Connections /\ at \in [Threads -> Places]
        /\ lock \in [Connections -> Threads \cup {None}]
        /\ frames \in [Threads -> Seq(Nat)]
        /\ HoldersAreThere /\ Conn(t) # None /\ t # None
    BY StepMoves, ConnectionsAre DEF DatabaseInv, DatabaseTypeOK, Placed, HeldInv
  <1> SUFFICES ASSUME NEW c \in Connections, lock'[c] # None
               PROVE  /\ Conn(lock'[c]) = c
                      /\ at'[lock'[c]] = "begin" \/ frames'[lock'[c]] # <<>>
    BY DEF HoldersAreThere, Conn, Inside
  <1>2. CASE lock'[c] = t
    <2>1. c = Conn(t)
      BY <1>1, <1>2 DEF OnlyMoves, HoldersAreThere
    <2>2. CASE TakeLock(t)
      BY <1>1, <1>2, <2>1, <2>2 DEF TakeLock, GoTo
    <2>3. CASE Savepoint(t) \/ Begin(t)
      <3>1. frames'[t] = Append(frames[t], Len(saved) + 1) \/ frames'[t] = <<0>>
        BY <1>1, <2>3 DEF Savepoint, Begin
      <3>2. Len(saved) + 1 \in Nat /\ frames[t] \in Seq(Nat)
        BY <1>1 DEF DatabaseTypeOK
      <3>3. \A s \in Seq(Nat) : \A n \in Nat : Append(s, n) # <<>> /\ <<n>> # <<>>
        OBVIOUS
      <3>4. frames'[t] # <<>>
        BY <3>1, <3>2, <3>3
      <3> QED
        BY <1>2, <2>1, <3>4
    <2>4. CASE BeginGivesUp(t) \/ Commit(t) \/ CommitRaises(t) \/ RollBack(t)
      BY <1>1, <1>2, <2>1, <2>4 DEF BeginGivesUp, Commit, CommitRaises, RollBack
    <2>5. CASE Release(t) \/ RollBackTo(t)
      <3>1. /\ Inside(t) /\ Frame(t) > 0 /\ PopFrame(t)
            /\ saved' = SubSeq(saved, 1, Frame(t) - 1)
        BY <2>5 DEF Release, RollBackTo
      <3>2. /\ Len(frames'[t]) = Len(frames[t]) - 1
            /\ Len(frames[t]) > 1 /\ Len(frames[t]) \in Nat
        BY <1>1, <3>1, PopTyped
      <3>3. frames'[t] # <<>>
        BY <3>2
      <3> QED
        BY <1>2, <2>1, <3>3
    <2>6. CASE Answer(t)
      <3>1. lock' = lock /\ at[t] = "run" /\ ~Inside(t)
        BY <1>1, <2>6, AtTheEnd DEF Answer, Inside
      <3> QED
        BY <1>1, <1>2, <2>1, <3>1 DEF HoldersAreThere
    <2>7. CASE WriteRow(t) \/ WriteRaises(t)
      BY <1>1, <1>2, <2>1, <2>7, RunsInside DEF WriteRow, WriteRaises, Inside
    <2>8. CASE Request(t) \/ OpenStep(t)
      <3>1. /\ lock' = lock /\ frames' = frames
            /\ at[t] \in {"idle", "connect", "opening", "migrating"}
        BY <2>8 DEF Request, OpenStep, FindOpen, Connect, BeginMigration, CommitMigration,
           MigrationRaises, Opened, OpenRaises
      <3>2. ~Inside(t)
        BY <1>1, <3>1 DEF ThreadOK
      <3> QED
        BY <1>1, <1>2, <2>1, <3>1, <3>2 DEF HoldersAreThere
    <2> QED
      BY <2>2, <2>3, <2>4, <2>5, <2>6, <2>7, <2>8 DEF DatabaseStep, TransactionStep
  <1>3. CASE lock'[c] # t
    <2>1. lock'[c] = lock[c]
      <3>1. CASE c # Conn(t)
        BY <1>1, <3>1 DEF OnlyMoves
      <3>2. CASE c = Conn(t)
        BY <1>1, <1>3, <3>2 DEF Request, DatabaseStep, OpenStep, TransactionStep,
           FindOpen, Connect, BeginMigration, CommitMigration, MigrationRaises, Opened,
           OpenRaises, TakeLock, Savepoint, Begin, BeginGivesUp, WriteRow, WriteRaises,
           Release, Commit, CommitRaises, RollBackTo, RollBack, Answer
      <3> QED
        BY <3>1, <3>2
    <2>2. lock[c] \in Threads \ {t}
      BY <1>1, <1>3, <2>1
    <2> QED
      BY <1>1, <2>1, <2>2 DEF OnlyMoves, HoldersAreThere, Inside
  <1> QED
    BY <1>2, <1>3

LEMMA HeldInvStep ==
    ASSUME DatabaseInv, HeldInv, DatabaseNext
    PROVE  HeldInv'
  <1>1. ASSUME NEW t \in Threads, Request(t) \/ DatabaseStep(t)
        PROVE  HeldInv'
    BY <1>1, OpenersStay, HoldersStay DEF HeldInv
  <1>2. ASSUME NEW p, DatabaseDies(p)
        PROVE  HeldInv'
    <2>1. \A u \in Threads : ~InProcess(p, Conn(u)) =>
             at'[u] = at[u] /\ frames'[u] = frames[u]
      BY <1>2, DiedTyped DEF DatabaseInv
    <2>2. \A c \in Connections :
             /\ opener'[c] = IF InProcess(p, c) THEN None ELSE opener[c]
             /\ lock'[c] = IF InProcess(p, c) THEN None ELSE lock[c]
      BY <1>2 DEF DatabaseDies, Down
    <2>3. \A c \in Connections :
             opener[c] \in Threads \cup {None} /\ lock[c] \in Threads \cup {None}
      BY DEF DatabaseInv, DatabaseTypeOK
    <2>4. OpenersAreThere'
      BY <2>1, <2>2, <2>3 DEF HeldInv, OpenersAreThere, Conn
    <2>5. HoldersAreThere'
      BY <2>1, <2>2, <2>3 DEF HeldInv, HoldersAreThere, Conn, Inside
    <2> QED
      BY <2>4, <2>5 DEF HeldInv
  <1>3. CASE UNCHANGED databaseVars
    BY <1>3 DEF databaseVars, HeldInv, OpenersAreThere, HoldersAreThere, Inside, Conn
  <1> QED
    BY <1>1, <1>2, <1>3 DEF DatabaseNext

\* Who is in a transaction, or migrates, can go on.
LEMMA WriterGoesOn ==
    ASSUME DatabaseInv, NEW t \in Threads, at[t] = "migrating" \/ Inside(t)
    PROVE  CanGoOn(t)
  <1>1. DatabaseTypeOK /\ Placed /\ SchemaInv /\ ThreadOK(t) /\ DepthOK(t)
    BY DEF DatabaseInv, Placed
  <1>2. CASE at[t] = "migrating"
    BY <1>1, <1>2, MigrationApplies DEF CanGoOn
  <1>3. CASE Inside(t) /\ at[t] = "raising"
    BY <1>3 DEF CanGoOn
  <1>4. CASE Inside(t) /\ at[t] = "begin"
    BY <1>1, <1>4 DEF CanGoOn, ThreadOK, OthersWrite
  <1>5. CASE Inside(t) /\ at[t] = "run"
    <2>1. work[t].program \in Programs /\ work[t].pos \in 1..(Len(work[t].program) + 1)
      BY <1>1, <1>5 DEF DepthOK
    <2>2. Len(work[t].program) \in 3..6
      BY <2>1, ProgramsAre
    <2>3. work[t].pos > Len(work[t].program) \/ work[t].pos \in 1..Len(work[t].program)
      BY <2>1, <2>2
    <2>4. CASE work[t].pos > Len(work[t].program)
      BY <1>5, <2>4 DEF CanGoOn
    <2>5. CASE work[t].pos \in 1..Len(work[t].program)
      <3>1. Token(t) \in {"enter", "write", "exit"}
        BY <2>1, <2>5, Nested DEF Token
      <3>2. Runs(t, Token(t))
        BY <1>5, <2>2, <2>5 DEF Runs
      <3> QED
        BY <1>1, <1>5, <3>1, <3>2 DEF CanGoOn, ThreadOK
    <2> QED
      BY <2>3, <2>4, <2>5
  <1> QED
    BY <1>1, <1>2, <1>3, <1>4, <1>5 DEF ThreadOK

\* Who opens, or has the lock and begins, can go on or waits for the writer.
LEMMA HolderGoesOn ==
    ASSUME DatabaseInv, NEW t \in Threads, at[t] \in {"opening", "begin"}
    PROVE  CanGoOn(t) \/ \E v \in Threads : WaitsFor(t, v) /\ CanGoOn(v)
  <1>1. DatabaseTypeOK /\ Placed /\ ThreadOK(t) /\ Conn(t) \in Connections
    BY ConnectionsAre DEF DatabaseInv, Placed
  <1>2. CASE writer = None
    BY <1>2 DEF CanGoOn, OthersWrite
  <1>3. CASE writer # None
    <2>1. PICK v \in Threads : Conn(v) = writer /\ (at[v] = "migrating" \/ Inside(v))
      BY <1>1, <1>3 DEF Placed, WriterOK
    <2>2. CanGoOn(v)
      BY <2>1, WriterGoesOn
    <2>3. CASE writer = Conn(t)
      <3>1. ThreadOK(v)
        BY <1>1 DEF Placed
      <3>2. at[t] # "opening"
        BY <1>1, <2>1, <2>3, <3>1 DEF ThreadOK
      <3> QED
        BY <2>3, <3>2 DEF CanGoOn, OthersWrite
    <2>4. CASE writer # Conn(t)
      BY <1>3, <2>1, <2>2, <2>4 DEF WaitsFor, OthersWrite
    <2> QED
      BY <2>3, <2>4
  <1> QED
    BY <1>2, <1>3

LEMMA EverybodyGoesOn ==
    ASSUME DatabaseInv, HeldInv
    PROVE  NobodyIsStuck
  <1> SUFFICES ASSUME NEW t \in Threads, at[t] # "idle"
               PROVE  \/ CanGoOn(t)
                      \/ \E u \in Threads :
                            /\ WaitsFor(t, u)
                            /\ CanGoOn(u) \/ \E v \in Threads : WaitsFor(u, v) /\ CanGoOn(v)
    BY DEF NobodyIsStuck
  <1>1. /\ DatabaseTypeOK /\ Placed /\ DepthOK(t) /\ ThreadOK(t) /\ NobodyBroke
        /\ Conn(t) \in Connections /\ at[t] \in Places
        /\ opener[Conn(t)] \in Threads \cup {None} /\ lock[Conn(t)] \in Threads \cup {None}
    BY ConnectionsAre DEF DatabaseInv, DatabaseTypeOK, Placed, SchemaInv
  <1>2. CASE at[t] = "connect"
    <2>1. CASE open[Conn(t)] \/ opener[Conn(t)] = None
      BY <1>2, <2>1 DEF CanGoOn
    <2>2. CASE opener[Conn(t)] # None
      <3> DEFINE u == opener[Conn(t)]
      <3>1. u \in Threads /\ at[u] \in {"opening", "migrating"}
        BY <1>1, <2>2 DEF HeldInv, OpenersAreThere
      <3>2. WaitsFor(t, u)
        BY <1>2 DEF WaitsFor
      <3>3. CanGoOn(u) \/ \E v \in Threads : WaitsFor(u, v) /\ CanGoOn(v)
        BY <3>1, HolderGoesOn, WriterGoesOn
      <3> HIDE DEF u
      <3> QED
        BY <3>1, <3>2, <3>3
    <2> QED
      BY <2>1, <2>2
  <1>3. CASE at[t] \in {"opening", "begin"}
    BY <1>3, HolderGoesOn DEF CanGoOn
  <1>4. CASE at[t] = "migrating" \/ at[t] = "raising"
    BY <1>1, <1>4, WriterGoesOn DEF DepthOK
  <1>5. CASE at[t] = "run"
    <2>1. CASE Inside(t)
      BY <2>1, WriterGoesOn
    <2>2. CASE ~Inside(t)
      <3>1. /\ work[t].program \in Programs /\ frames[t] = <<>>
            /\ work[t].pos \in 1..(Len(work[t].program) + 1)
            /\ Depth[work[t].program][work[t].pos] = 0
        BY <1>1, <1>5, <2>2 DEF DepthOK, Inside
      <3>2. Len(work[t].program) \in 3..6
        BY <3>1, ProgramsAre
      <3>3. CASE work[t].pos > Len(work[t].program)
        BY <1>5, <3>3 DEF CanGoOn
      <3>4. CASE work[t].pos \in 1..Len(work[t].program)
        <4>0. \A p \in Programs : \A i \in 1..Len(p) : Depth[p][i] = 0 => p[i] = "enter"
          <5> SUFFICES ASSUME NEW p \in Programs, NEW i \in 1..Len(p), Depth[p][i] = 0
                       PROVE  p[i] = "enter"
            OBVIOUS
          <5>1. p[i] \in {"enter", "write", "exit"} /\ p[i] # "write"
            BY Nested
          <5>2. p[i] = "exit" => Depth[p][i] = Depth[p][i + 1] + 1 /\ Depth[p][i + 1] \in Nat
            BY Nested
          <5> QED
            BY <5>1, <5>2
        <4>1. Token(t) = "enter"
          BY <3>1, <3>4, <4>0 DEF Token
        <4>2. Runs(t, "enter")
          BY <1>5, <3>2, <3>4, <4>1 DEF Runs
        <4>3. CASE lock[Conn(t)] \in {None, t}
          BY <4>2, <4>3 DEF CanGoOn
        <4>4. CASE lock[Conn(t)] \notin {None, t}
          <5> DEFINE u == lock[Conn(t)]
          <5>1. u \in Threads /\ (at[u] = "begin" \/ Inside(u))
            BY <1>1, <4>4 DEF HeldInv, HoldersAreThere
          <5>2. WaitsFor(t, u)
            BY <4>2 DEF WaitsFor
          <5>3. CanGoOn(u) \/ \E v \in Threads : WaitsFor(u, v) /\ CanGoOn(v)
            BY <5>1, HolderGoesOn, WriterGoesOn
          <5> HIDE DEF u
          <5> QED
            BY <5>1, <5>2, <5>3
        <4> QED
          BY <4>3, <4>4
      <3> QED
        BY <3>1, <3>2, <3>3, <3>4
    <2> QED
      BY <2>1, <2>2
  <1> QED
    BY <1>1, <1>2, <1>3, <1>4, <1>5 DEF Places, NobodyBroke

LEMMA HeldInvInit == DatabaseInit => HeldInv
  BY DEF DatabaseInit, HeldInv, OpenersAreThere, HoldersAreThere

\* Nobody waits in a circle or for a lock whose holder has left: who cannot go on
\* waits for one who can or who waits for the file, and who has the file can go
\* on (app.py:182-198, database.py:364-388).
THEOREM NobodyIsEverStuck == Spec => []NobodyIsStuck
  <1>1. Init => DatabaseInv /\ HeldInv
    BY DatabaseInvInit, HeldInvInit DEF Init
  <1>2. DatabaseInv /\ HeldInv /\ [Next]_vars => (DatabaseInv /\ HeldInv)'
    BY StepOfDatabase, DatabaseInvStep, HeldInvStep
  <1>3. DatabaseInv /\ HeldInv => NobodyIsStuck
    BY EverybodyGoesOn
  <1> QED
    BY <1>1, <1>2, <1>3, PTL DEF Spec

=============================================================================
