----------------------------- MODULE AtomicStore -----------------------------
(* What the repositories promise the rest of the system about l4.db, with none *)
(* of the connections, locks, savepoints and deaths that bring it about.       *)
(*                                                                             *)
(* The schema grows one version at a time, and nothing is stored before it is  *)
(* whole.  A request stores all its rows at once or never, nobody changes them *)
(* later, and it is answered at most once: with success when they are there,   *)
(* with an error when they are not and never will be.  It may be stored and    *)
(* never answered.                                                             *)
EXTENDS Naturals

CONSTANTS
    Requests,
    Versions,    \* the schema is whole when it is 1..Versions
    Effects      \* request -> the sets of rows it may mean to store

VARIABLES
    schema,      \* the versions that are recorded
    content,     \* request -> its rows that are there
    succeeded,   \* requests answered with success, each with what it stored
    failed       \* requests answered with an error

storeVars == <<schema, content, succeeded, failed>>

Open(r) == r \notin failed /\ \A answer \in succeeded : answer.request # r

Init ==
    /\ schema = {}
    /\ content = [r \in Requests |-> {}]
    /\ succeeded = {} /\ failed = {}

Migrate ==
    /\ \E v \in 1..Versions : schema = 1..(v - 1) /\ schema' = 1..v
    /\ UNCHANGED <<content, succeeded, failed>>

Store(r) ==
    /\ schema = 1..Versions
    /\ Open(r) /\ content[r] = {}
    /\ \E rows \in Effects[r] : content' = [content EXCEPT ![r] = rows]
    /\ UNCHANGED <<schema, succeeded, failed>>

Succeed(r) ==
    /\ Open(r) /\ content[r] \in Effects[r]
    /\ succeeded' = succeeded \cup {[request |-> r, rows |-> content[r]]}
    /\ UNCHANGED <<schema, content, failed>>

Fail(r) ==
    /\ Open(r) /\ content[r] = {}
    /\ failed' = failed \cup {r}
    /\ UNCHANGED <<schema, content, succeeded>>

Next == Migrate \/ \E r \in Requests : Store(r) \/ Succeed(r) \/ Fail(r)

Spec == Init /\ [][Next]_storeVars
=============================================================================
