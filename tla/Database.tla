------------------------------ MODULE Database ------------------------------
(* l4/database.py and the lazy opening of app.py: Database objects             *)
(* ("connections") of one SQLite file, in one or several processes.            *)
(* A connection is opened by the first thread that needs it and applies the    *)
(* migrations; transaction() is a re-entrant lock per connection around one    *)
(* BEGIN IMMEDIATE, and a savepoint when the connection is in a transaction    *)
(* already.  The file (SQLite in WAL mode, external) keeps what was committed, *)
(* has one writer at a time, and gives a waiting BEGIN up after 30 seconds.    *)
(*                                                                             *)
(* A request is the program of one repository call: its contexts entered and   *)
(* left and its rows written.  Any write may raise.                            *)
EXTENDS WebThreads, Naturals, Sequences

CONSTANTS
    ConnectionOf,   \* thread of any process -> the Database object it uses
    ProcessOf,      \* the process each connection lives in
    Versions,       \* DEFAULT_MIGRATIONS is 1..Versions
    MaxRequests     \* bound: requests there are in all

Threads == DOMAIN ConnectionOf

ASSUME DatabaseAssumption ==
    /\ Web \subseteq Threads /\ None \notin Threads
    /\ None \notin {ConnectionOf[t] : t \in Threads}
    /\ Versions \in Nat /\ MaxRequests \in Nat
    /\ \A t \in Threads : ConnectionOf[t] \in DOMAIN ProcessOf

Connections == {ConnectionOf[t] : t \in Threads}

\* ContextEventRepository.append: one transaction, one row.  An event whose key is
\* there already has another recorded_at, and so another hash: append raises
\* (WriteRaises), it never returns the row that is there.
AppendOne == <<"enter", "write", "exit">>

\* SourceCatalog.import_yaml: the repository calls inside the import's
\* transaction enter transaction() again.
ImportAll == <<"enter", "enter", "write", "exit", "write", "exit">>

\* What requests do.
Programs == {AppendOne, ImportAll}

VARIABLES
    file,      \* what is committed: recorded versions, built tables, rows
    draft,     \* what the writer has made of it since BEGIN
    writer,    \* the connection in a transaction, or None
    saved,     \* the drafts at the writer's savepoints, innermost last
    open,      \* connection -> whether app.state holds it
    opener,    \* connection -> the thread inside l4_database_lock, or None
    known,     \* connection -> versions apply_migrations need not look at
    lock,      \* connection -> the thread that holds Database._lock, or None
    at,        \* thread -> where it is
    work,      \* thread -> the request it serves: number, program, position
    frames,    \* thread -> the contexts it is in: 0 for BEGIN, n for savepoint n
    requests,  \* how many requests there were
    acked,     \* requests answered with success
    refused    \* requests answered with an error

databaseVars == <<file, draft, writer, saved, open, opener, known, lock, at, work, frames,
          requests, acked, refused>>

opening == <<open, opener, known>>
storage == <<file, draft, writer, saved>>
answers == <<acked, refused>>

Empty == [schema |-> {}, tables |-> {}, rows |-> {}]
Places == {"idle", "connect", "opening", "migrating", "run", "begin", "raising",
           "broken"}
NoWork == [request |-> 0, program |-> <<>>, pos |-> 1]

\* A row is named by its request and its place in the program.
RowsOf(r, program) == {<<r, i>> : i \in {j \in DOMAIN program : program[j] = "write"}}

DatabaseInit ==
    /\ file = Empty /\ draft = Empty
    /\ writer = None /\ saved = <<>>
    /\ open = [c \in Connections |-> FALSE]
    /\ opener = [c \in Connections |-> None]
    /\ known = [c \in Connections |-> {}]
    /\ lock = [c \in Connections |-> None]
    /\ at = [t \in Threads |-> "idle"]
    /\ work = [t \in Threads |-> NoWork]
    /\ frames = [t \in Threads |-> <<>>]
    /\ requests = 0 /\ acked = {} /\ refused = {}

Conn(t) == ConnectionOf[t]
GoTo(t, place) == at' = [at EXCEPT ![t] = place]
OthersWrite(t) == writer \notin {None, Conn(t)}

\* The answer ends the request.
Acknowledge(t) ==
    /\ acked' = acked \cup {work[t]}
    /\ UNCHANGED refused
    /\ GoTo(t, "idle") /\ work' = [work EXCEPT ![t] = NoWork]
Refuse(t) ==
    /\ refused' = refused \cup {work[t]}
    /\ UNCHANGED acked
    /\ GoTo(t, "idle") /\ work' = [work EXCEPT ![t] = NoWork]

Request(t) ==
    /\ at[t] = "idle" /\ requests < MaxRequests
    /\ requests' = requests + 1
    /\ \E p \in Programs :
         work' = [work EXCEPT ![t] = [request |-> requests + 1, program |-> p, pos |-> 1]]
    /\ GoTo(t, "connect")
    /\ UNCHANGED <<storage, opening, lock, frames, answers>>

\* _l4_database: the state is read without the lock, and again with it.
FindOpen(t) ==
    /\ at[t] = "connect" /\ open[Conn(t)]
    /\ GoTo(t, "run")
    /\ UNCHANGED <<storage, opening, lock, work, frames, requests, answers>>

\* Nobody has it open: connect and read which migrations were applied.
Connect(t) ==
    /\ at[t] = "connect" /\ ~open[Conn(t)] /\ opener[Conn(t)] = None
    /\ opener' = [opener EXCEPT ![Conn(t)] = t]
    /\ known' = [known EXCEPT ![Conn(t)] = file.schema]
    /\ GoTo(t, "opening")
    /\ UNCHANGED <<storage, open, lock, work, frames, requests, answers>>

Pending(c) == (1..Versions) \ known[c]
NextVersion(c) == CHOOSE v \in Pending(c) : \A u \in Pending(c) : v <= u

\* The question a migration asks again inside its transaction; and one that
\* trusts what was read before.
RecordedBefore(f, v) == FALSE
Recorded(f, v) == v \in f.schema

\* The body of that transaction: build and record; building what is there raises.
Migrated(f, v) ==
    IF Recorded(f, v) THEN f
    ELSE [f EXCEPT !.tables = @ \cup {v}, !.schema = @ \cup {v}]
Clashes(f, v) == ~Recorded(f, v) /\ v \in f.tables

BeginMigration(t) ==
    LET c == Conn(t) IN
    /\ at[t] = "opening" /\ Pending(c) # {} /\ writer = None
    /\ writer' = c
    /\ draft' = file
    /\ GoTo(t, "migrating")
    /\ UNCHANGED <<file, saved, opening, lock, work, frames, requests, answers>>

CommitMigration(t) ==
    LET c == Conn(t)
        v == NextVersion(c)
    IN
    /\ at[t] = "migrating"
    /\ ~Clashes(draft, v)
    /\ file' = Migrated(draft, v)
    /\ draft' = Empty
    /\ writer' = None
    /\ known' = [known EXCEPT ![c] = @ \cup {v}]
    /\ GoTo(t, "opening")
    /\ UNCHANGED <<saved, open, opener, lock, work, frames, requests, answers>>

\* A statement of the migration raises, for want of space or because it builds
\* what is there: MigrationError, rolled back, the connection is not handed out.
MigrationRaises(t) ==
    /\ at[t] = "migrating"
    /\ draft' = Empty
    /\ writer' = None
    /\ opener' = [opener EXCEPT ![Conn(t)] = None]
    /\ IF Clashes(draft, NextVersion(Conn(t)))
       THEN GoTo(t, "broken") /\ UNCHANGED <<work, answers>>
       ELSE Refuse(t)
    /\ UNCHANGED <<file, saved, open, known, lock, frames, requests>>

Opened(t) ==
    LET c == Conn(t) IN
    /\ at[t] = "opening" /\ Pending(c) = {}
    /\ open' = [open EXCEPT ![c] = TRUE]
    /\ opener' = [opener EXCEPT ![c] = None]
    /\ GoTo(t, "run")
    /\ UNCHANGED <<storage, known, lock, work, frames, requests, answers>>

\* Opening raises: a PRAGMA or the check of the file, the table of the versions,
\* or a file that stays locked for longer than a connection waits.
OpenRaises(t) ==
    /\ at[t] = "opening"
    /\ opener' = [opener EXCEPT ![Conn(t)] = None]
    /\ Refuse(t)
    /\ UNCHANGED <<storage, open, known, lock, frames, requests>>

-----------------------------------------------------------------------------
(* transaction(), and the statements inside it.                               *)

Token(t) == work[t].program[work[t].pos]
Runs(t, token) ==
    at[t] = "run" /\ work[t].pos <= Len(work[t].program) /\ Token(t) = token
Advance(t) == work' = [work EXCEPT ![t].pos = @ + 1]
Inside(t) == frames[t] # <<>>
Frame(t) == frames[t][Len(frames[t])]
PopFrame(t) ==
    frames' = [frames EXCEPT ![t] = SubSeq(@, 1, Len(@) - 1)]

\* A lock its holder cannot take again.
TakeLockOnce(t) ==
    /\ Runs(t, "enter") /\ lock[Conn(t)] = None
    /\ lock' = [lock EXCEPT ![Conn(t)] = t]
    /\ GoTo(t, "begin")
    /\ UNCHANGED <<storage, opening, work, frames, requests, answers>>

\* `with self._lock`: the holder may come in again.
TakeLock(t) ==
    /\ Runs(t, "enter") /\ lock[Conn(t)] \in {None, t}
    /\ lock' = [lock EXCEPT ![Conn(t)] = t]
    /\ GoTo(t, "begin")
    /\ UNCHANGED <<storage, opening, work, frames, requests, answers>>

\* connection.in_transaction: SAVEPOINT.
Savepoint(t) ==
    /\ at[t] = "begin" /\ writer = Conn(t)
    /\ saved' = Append(saved, draft)
    /\ frames' = [frames EXCEPT ![t] = Append(@, Len(saved) + 1)]
    /\ Advance(t) /\ GoTo(t, "run")
    /\ UNCHANGED <<file, draft, writer, opening, lock, requests, answers>>

\* BEGIN IMMEDIATE waits for the writer of another connection.
Begin(t) ==
    /\ at[t] = "begin" /\ writer = None
    /\ writer' = Conn(t)
    /\ draft' = file
    /\ frames' = [frames EXCEPT ![t] = <<0>>]
    /\ Advance(t) /\ GoTo(t, "run")
    /\ UNCHANGED <<file, saved, opening, lock, requests, answers>>

\* "database is locked", raised by BEGIN before any frame is there.
BeginGivesUp(t) ==
    /\ at[t] = "begin" /\ OthersWrite(t)
    /\ lock' = [lock EXCEPT ![Conn(t)] = None]
    /\ Refuse(t)
    /\ UNCHANGED <<storage, opening, frames, requests>>

WriteRow(t) ==
    /\ Runs(t, "write")
    /\ draft' = [draft EXCEPT !.rows = @ \cup {<<work[t].request, work[t].pos>>}]
    /\ Advance(t)
    /\ UNCHANGED <<file, writer, saved, opening, lock, at, frames, requests, answers>>

\* A constraint, a trigger or the code between two statements raises.
WriteRaises(t) ==
    /\ Runs(t, "write")
    /\ GoTo(t, "raising")
    /\ UNCHANGED <<storage, opening, lock, work, frames, requests, answers>>

\* The inner context is left: RELEASE keeps what it wrote, undecided.
Release(t) ==
    /\ Runs(t, "exit") /\ Inside(t) /\ Frame(t) > 0
    /\ saved' = SubSeq(saved, 1, Frame(t) - 1)
    /\ PopFrame(t) /\ Advance(t)
    /\ UNCHANGED <<file, draft, writer, opening, lock, at, requests, answers>>

Commit(t) ==
    /\ Runs(t, "exit") /\ Inside(t) /\ Frame(t) = 0
    /\ file' = draft /\ draft' = Empty
    /\ writer' = None /\ saved' = <<>>
    /\ lock' = [lock EXCEPT ![Conn(t)] = None]
    /\ frames' = [frames EXCEPT ![t] = <<>>] /\ Advance(t)
    /\ UNCHANGED <<opening, at, requests, answers>>

\* COMMIT fails for want of space: SQLite has rolled back, the call raises.
CommitRaises(t) ==
    /\ Runs(t, "exit") /\ Inside(t) /\ Frame(t) = 0
    /\ draft' = Empty /\ writer' = None /\ saved' = <<>>
    /\ lock' = [lock EXCEPT ![Conn(t)] = None]
    /\ frames' = [frames EXCEPT ![t] = <<>>] /\ Refuse(t)
    /\ UNCHANGED <<file, opening, requests>>

\* A caller that catches what an inner call raised and goes on.
RollBackToAndGoOn(t) ==
    /\ at[t] = "raising" /\ Inside(t) /\ Frame(t) > 0
    /\ draft' = saved[Frame(t)]
    /\ saved' = SubSeq(saved, 1, Frame(t) - 1)
    /\ PopFrame(t)
    /\ work' = [work EXCEPT ![t].pos = @ + 2] /\ GoTo(t, "run")
    /\ UNCHANGED <<file, writer, opening, lock, requests, answers>>

\* An exception passes a nested context: ROLLBACK TO, RELEASE, raise.
RollBackTo(t) ==
    /\ at[t] = "raising" /\ Inside(t) /\ Frame(t) > 0
    /\ draft' = saved[Frame(t)]
    /\ saved' = SubSeq(saved, 1, Frame(t) - 1)
    /\ PopFrame(t)
    /\ UNCHANGED <<file, writer, opening, lock, at, work, requests, answers>>

\* A lock that is not freed when the body raises.
RollBackHoldingLock(t) ==
    /\ at[t] = "raising" /\ Inside(t) /\ Frame(t) = 0
    /\ draft' = Empty /\ writer' = None /\ saved' = <<>>
    /\ frames' = [frames EXCEPT ![t] = <<>>] /\ Refuse(t)
    /\ UNCHANGED <<file, opening, lock, requests>>

\* It passes the outermost one: rollback, the lock is free, 500.
RollBack(t) ==
    /\ at[t] = "raising" /\ Inside(t) /\ Frame(t) = 0
    /\ draft' = Empty /\ writer' = None /\ saved' = <<>>
    /\ lock' = [lock EXCEPT ![Conn(t)] = None]
    /\ frames' = [frames EXCEPT ![t] = <<>>] /\ Refuse(t)
    /\ UNCHANGED <<file, opening, requests>>

Answer(t) ==
    /\ at[t] = "run" /\ work[t].pos > Len(work[t].program)
    /\ Acknowledge(t)
    /\ UNCHANGED <<storage, opening, lock, frames, requests>>

-----------------------------------------------------------------------------
(* A process dies: its transactions with it, its locks, its connections.      *)

InProcess(p, c) == ProcessOf[c] = p
Down(p, f, value) ==
    [c \in Connections |-> IF InProcess(p, c) THEN value ELSE f[c]]
Gone(p, f, value) ==
    [t \in Threads |-> IF InProcess(p, Conn(t)) THEN value ELSE f[t]]

DatabaseDies(p) ==
    /\ open' = Down(p, open, FALSE)
    /\ opener' = Down(p, opener, None)
    /\ known' = Down(p, known, {})
    /\ lock' = Down(p, lock, None)
    /\ at' = Gone(p, at, "idle")
    /\ work' = Gone(p, work, NoWork)
    /\ frames' = Gone(p, frames, <<>>)
    /\ IF writer # None /\ InProcess(p, writer)
       THEN writer' = None /\ draft' = Empty /\ saved' = <<>>
       ELSE UNCHANGED <<writer, draft, saved>>
    /\ UNCHANGED <<file, requests, answers>>

OpenStep(t) ==
    \/ FindOpen(t) \/ Connect(t) \/ BeginMigration(t) \/ CommitMigration(t)
    \/ MigrationRaises(t) \/ Opened(t) \/ OpenRaises(t)

TransactionStep(t) ==
    \/ TakeLock(t) \/ Savepoint(t) \/ Begin(t) \/ BeginGivesUp(t)
    \/ WriteRow(t) \/ WriteRaises(t) \/ Release(t) \/ Commit(t) \/ CommitRaises(t)
    \/ RollBackTo(t) \/ RollBack(t) \/ Answer(t)

DatabaseStep(t) == OpenStep(t) \/ TransactionStep(t)

-----------------------------------------------------------------------------
(* Properties                                                                 *)

Rows == (0..MaxRequests) \X (1..6)
Files == [schema : SUBSET (1..Versions), tables : SUBSET (1..Versions), rows : SUBSET Rows]
Works == [request : 0..MaxRequests, program : Programs \cup {<<>>}, pos : 1..7]

\* The state of the connections has its type.
DatabaseTypeOK ==
    /\ file \in Files /\ draft \in Files
    /\ writer \in Connections \cup {None}
    /\ saved \in Seq(Files)
    /\ open \in [Connections -> BOOLEAN]
    /\ opener \in [Connections -> Threads \cup {None}]
    /\ known \in [Connections -> SUBSET (1..Versions)]
    /\ lock \in [Connections -> Threads \cup {None}]
    /\ at \in [Threads -> Places]
    /\ work \in [Threads -> Works]
    /\ frames \in [Threads -> Seq(Nat)]
    /\ requests \in 0..MaxRequests
    /\ acked \subseteq Works /\ refused \subseteq Works

\* However many connections open the file at once, and wherever they die: what
\* is recorded is built, in order and without a gap, nobody builds what is
\* there, and a connection that is handed out finds all of it
\* (database.py:390-421, app.py:182-198).
SchemaIsWhole ==
    /\ file.tables = file.schema
    /\ \E n \in 0..Versions : file.schema = 1..n
    /\ \A c \in Connections : open[c] => file.schema = 1..Versions
    /\ \A t \in Threads : at[t] # "broken"

\* The next step of a request: what it needs to take it without anybody giving up.
CanGoOn(t) ==
    \/ at[t] = "connect" /\ (open[Conn(t)] \/ opener[Conn(t)] = None)
    \/ at[t] = "opening" /\ (Pending(Conn(t)) = {} \/ writer = None)
    \/ at[t] = "migrating" /\ ~Clashes(draft, NextVersion(Conn(t)))
    \/ at[t] = "begin" /\ ~OthersWrite(t)
    \/ at[t] = "raising" /\ Inside(t)
    \/ at[t] = "run" /\ work[t].pos > Len(work[t].program)
    \/ Runs(t, "enter") /\ lock[Conn(t)] \in {None, t}
    \/ Runs(t, "write")
    \/ Runs(t, "exit") /\ Inside(t)

\* Whom it waits for: the thread that opens the connection, the one that has its
\* lock, one in the transaction that has the file.
WaitsFor(t, u) ==
    \/ at[t] = "connect" /\ u = opener[Conn(t)]
    \/ Runs(t, "enter") /\ u = lock[Conn(t)]
    \/ at[t] \in {"opening", "begin"} /\ OthersWrite(t)
         /\ Conn(u) = writer /\ (at[u] = "migrating" \/ Inside(u))

\* Nobody waits in a circle or for a lock whose holder has left, whichever of the
\* three a thread holds while it waits for the next: who cannot go on waits for
\* one who can or who waits for the file, and who has the file can go on.  The
\* thirty seconds after which a waiting BEGIN is given up are not needed for it
\* (app.py:182-198, database.py:364-388).
NobodyIsStuck ==
    \A t \in Threads : at[t] # "idle" =>
        \/ CanGoOn(t)
        \/ \E u \in Threads :
              /\ WaitsFor(t, u)
              /\ CanGoOn(u) \/ \E v \in Threads : WaitsFor(u, v) /\ CanGoOn(v)

\* The rows of one request in a file.
Own(f, r) == {row \in f.rows : row[1] = r}

\* What the repositories make of the file, as AtomicStore has it.
Store == INSTANCE AtomicStore WITH
    Requests <- 1..MaxRequests,
    Effects <- [r \in 1..MaxRequests |-> {RowsOf(r, p) : p \in Programs}],
    schema <- file.schema,
    content <- [r \in 1..MaxRequests |-> Own(file, r)],
    succeeded <- {[request |-> w.request, rows |-> RowsOf(w.request, w.program)]
                    : w \in acked},
    failed <- {w.request : w \in refused}

\* Whatever connections, threads and processes do and wherever they fail, to a
\* reader of the file and of the answers every call is one step that happens or
\* does not, at the full schema, and is never said to have failed when it is
\* stored afterwards (database.py:364-421).
ImplementsAtomicStore == Store!Spec

=============================================================================
