------------------------- MODULE ProfileLoop_proofs -------------------------
(***************************************************************************)
(* Proofs about ProfileLoop for any events, any supersession between them  *)
(* (cycles included) and any number of threads.                            *)
(***************************************************************************)
EXTENDS ProfileLoop, TLAPS

\* What no event of a set supersedes stays active when the set is reduced to it:
\* build_input and compile may both apply active_events.
LEMMA ActiveOfTwice ==
    ASSUME NEW events
    PROVE  /\ ActiveOf(events) \subseteq events
           /\ ActiveOf(ActiveOf(events)) = ActiveOf(events)
  BY DEF ActiveOf

\* An event that is in the log and not active is superseded by one in the log.
LEMMA InactiveIsSuperseded ==
    ASSUME NEW events, NEW e \in events, e \notin ActiveOf(events)
    PROVE  \E f \in events : e \in Supersedes[f]
  BY DEF ActiveOf

\* The events of the log that were there when it was n long.
Cut(n) == {log[i] : i \in 1..n}
IsCut(events) == \E n \in 0..Len(log) : events = ActiveOf(Cut(n))

\* Every snapshot is based on exactly the events that were active at one moment
\* of the log: none that one of its time superseded, none missing.
SnapshotsAreCuts ==
    \A s \in snapshots : IsCut(s.basedOn)

\* The log as a set is its longest cut.
LEMMA LogIsACut ==
    ASSUME log \in Seq(Events)
    PROVE  /\ LogSet = Cut(Len(log))
           /\ IsCut(ActiveOf(LogSet))
           /\ LogSet \subseteq Events
  <1>1. /\ Len(log) \in Nat
        /\ DOMAIN log = 1..Len(log)
        /\ \A i \in DOMAIN log : log[i] \in Events
    OBVIOUS
  <1>2. LogSet = Cut(Len(log))
    BY <1>1 DEF LogSet, Cut
  <1>3. Len(log) \in 0..Len(log)
    BY <1>1
  <1>4. IsCut(ActiveOf(LogSet))
    BY <1>2, <1>3 DEF IsCut
  <1>5. LogSet \subseteq Events
    BY <1>1 DEF LogSet
  <1> QED
    BY <1>2, <1>4, <1>5

\* An append leaves every earlier cut as it was.
LEMMA CutsStay ==
    ASSUME log \in Seq(Events), NEW e \in Events, log' = Append(log, e)
    PROVE  /\ \A events : IsCut(events) => IsCut(events)'
           /\ LogSet' = LogSet \cup {e}
  <1>1. /\ Len(log) \in Nat
        /\ Len(log') = Len(log) + 1
        /\ DOMAIN log = 1..Len(log)
        /\ DOMAIN log' = 1..(Len(log) + 1)
        /\ \A i \in 1..Len(log) : log'[i] = log[i]
        /\ log'[Len(log) + 1] = e
    OBVIOUS
  <1>2. ASSUME NEW n \in 0..Len(log)
        PROVE  {log'[i] : i \in 1..n} = {log[i] : i \in 1..n}
    BY <1>1
  <1>3. ASSUME NEW n \in 0..Len(log)
        PROVE  n \in 0..Len(log')
    BY <1>1
  <1>4. ASSUME NEW events, IsCut(events)
        PROVE  IsCut(events)'
    <2>1. PICK n \in 0..Len(log) : events = ActiveOf({log[i] : i \in 1..n})
      BY <1>4 DEF IsCut, Cut
    <2>2. events = ActiveOf({log'[i] : i \in 1..n})
      BY <2>1, <1>2
    <2> QED
      BY <2>1, <2>2, <1>3 DEF IsCut, Cut, ActiveOf
  <1>5. LogSet' = LogSet \cup {e}
    <2>1. ASSUME NEW i \in 1..(Len(log) + 1)
          PROVE  i \in 1..Len(log) \/ i = Len(log) + 1
      BY <1>1
    <2>2. /\ Len(log) + 1 \in 1..(Len(log) + 1)
          /\ 1..Len(log) \subseteq 1..(Len(log) + 1)
      BY <1>1
    <2> QED
      BY <1>1, <2>1, <2>2 DEF LogSet
  <1> QED
    BY <1>4, <1>5

-----------------------------------------------------------------------------
(* The type invariant *)

\* The refresh is no thread, so the labels of the two stay apart.
LEMMA ActorsApart ==
    /\ Refresh \in Actors /\ Refresh \notin Threads
    /\ \A t \in Threads : t \in Actors /\ t # Refresh
    /\ \A a \in Actors : a = Refresh \/ a \in Threads
  BY LoopAssumption DEF Actors

LEMMA TypeInit == Init => TypeOK
  <1> SUFFICES ASSUME Init PROVE TypeOK
    OBVIOUS
  <1>1. <<>> \in Seq(Events) /\ DOMAIN <<>> = 1..0
    OBVIOUS
  <1> QED
    BY <1>1, ActorsApart DEF Init, TypeOK, Labels, Snapshot

LEMMA TypeStep == TypeOK /\ [Next]_vars => TypeOK'
  <1> SUFFICES ASSUME TypeOK, [Next]_vars PROVE TypeOK'
    OBVIOUS
  <1> USE DEF TypeOK, store, refreshVars, Goto, Labels
  <1>0. LogSet \subseteq Events
    BY LogIsACut
  <1>1. ASSUME NEW t \in Threads, PostEvent(t)
        PROVE  TypeOK'
    <2>1. PICK e \in Events \ LogSet :
             /\ log' = Append(log, e)
             /\ post' = [post EXCEPT ![t] = e]
      BY <1>1 DEF PostEvent
    <2>2. log' \in Seq(Events)
      BY <2>1
    <2>3. \A i, j \in DOMAIN log' : log'[i] = log'[j] => i = j
      <3>1. /\ Len(log) \in Nat
            /\ DOMAIN log = 1..Len(log)
            /\ DOMAIN log' = 1..(Len(log) + 1)
            /\ \A i \in 1..Len(log) : log'[i] = log[i]
            /\ log'[Len(log) + 1] = e
        BY <2>1
      <3>2. \A i \in 1..Len(log) : log[i] # e
        BY <2>1, <3>1 DEF LogSet
      <3>3. \A i \in 1..(Len(log) + 1) : i \in 1..Len(log) \/ i = Len(log) + 1
        BY <3>1
      <3> QED
        BY <3>1, <3>2, <3>3
    <2> QED
      BY <1>1, <2>1, <2>2, <2>3, ActorsApart DEF PostEvent
  <1>2. ASSUME NEW t \in Threads, Answer(t)
        PROVE  TypeOK'
    BY <1>2, ActorsApart DEF Answer, Forget
  <1>3. ASSUME NEW a \in Actors, ReadEvents(a)
        PROVE  TypeOK'
    <2>1. BuildInput \subseteq Events
      BY <1>0, ActiveOfTwice DEF BuildInput
    <2> QED
      BY <1>3, <2>1, ActorsApart DEF ReadEvents
  <1>4. ASSUME NEW a \in Actors, RunModel(a)
        PROVE  TypeOK'
    BY <1>4, ActorsApart DEF RunModel
  <1>5. ASSUME NEW a \in Actors, Activate(a)
        PROVE  TypeOK'
    <2> DEFINE draft == [basedOn |-> ActiveOf(seen[a]), ownAudit |-> (lastAudit = a)]
    <2>1. ActiveOf(seen[a]) \subseteq Events
      BY ActiveOfTwice
    <2>2. draft \in Snapshot
      BY <2>1 DEF Snapshot
    <2>3. snapshots' = snapshots \cup {draft} /\ active' = draft
      BY <1>5 DEF Activate
    <2>4. /\ snapshots' \subseteq Snapshot
          /\ active' \in snapshots' \cup {None}
          /\ previous \in snapshots' \cup {None}
          /\ profile \in snapshots' \cup {None}
      BY <2>2, <2>3
    <2> HIDE DEF draft
    <2> QED
      BY <1>5, <2>4, ActorsApart DEF Activate
  <1>6. ASSUME NEW a \in Actors, CompileFails(a)
        PROVE  TypeOK'
    BY <1>6, ActorsApart DEF CompileFails, Forget
  <1>7. CASE RefreshLists
    <2>1. ActiveOf(LogSet) \subseteq Events
      BY <1>0, ActiveOfTwice
    <2> QED
      BY <1>7, <2>1, ActorsApart DEF RefreshLists
  <1>8. CASE RefreshCompares
    BY <1>8, ActorsApart DEF RefreshCompares
  <1>9. CASE RefreshResolves
    BY <1>9, ActorsApart DEF RefreshResolves
  <1>10. CASE RefreshReadRaises
    BY <1>10, ActorsApart DEF RefreshReadRaises
  <1>11. CASE RefreshReturns
    BY <1>11, ActorsApart DEF RefreshReturns
  <1>12. CASE Rollback
    BY <1>12 DEF Rollback
  <1>13. CASE Crash
    BY <1>13, ActorsApart DEF Crash
  <1>14. CASE UNCHANGED vars
    BY <1>14 DEF vars
  <1> QED
    BY <1>1, <1>2, <1>3, <1>4, <1>5, <1>6, <1>7, <1>8, <1>9, <1>10, <1>11, <1>12,
       <1>13, <1>14 DEF Next

\* Every variable keeps its type; in particular no event is in the log twice
\* and the active pointer always points to a stored snapshot.
THEOREM TypeCorrect == Spec => []TypeOK
  BY TypeInit, TypeStep, PTL DEF Spec

-----------------------------------------------------------------------------
(* The inductive invariant.  What a snapshot is based on was read long before *)
(* it is stored, so the invariant says what every compilation holds meanwhile. *)

Compiling == {"model", "activate", "compiled"}

\* What a compilation has read is a cut of the log.
ReadsAreCuts ==
    \A a \in Actors : pc[a] \in Compiling => IsCut(seen[a])

\* A posted event is in the log, and the compilation that follows knows it, or
\* the log has an event that supersedes it.
PostsAreLogged ==
    \A t \in Threads : pc[t] \in {"read"} \cup Compiling => post[t] \in LogSet
Covered(t) == post[t] \in seen[t] \/ \E e \in LogSet : post[t] \in Supersedes[e]
ReadsCoverPosts ==
    \A t \in Threads : pc[t] \in Compiling => Covered(t)

\* What a thread has compiled is stored.
CompiledIsStored ==
    \A t \in Threads : pc[t] = "compiled" => \E s \in snapshots : s.basedOn = seen[t]

\* A pointer that was set once stays set.
PointerStays == previous # None => active # None

Inv ==
    /\ TypeOK
    /\ SnapshotsAreCuts /\ ReadsAreCuts
    /\ PostsAreLogged /\ ReadsCoverPosts /\ CompiledIsStored
    /\ PointerStays /\ ContextIsNotLost

\* Only an append changes what a cut is.
LEMMA NoAppendNoChange ==
    ASSUME log' = log
    PROVE  /\ \A events : IsCut(events)' <=> IsCut(events)
           /\ LogSet' = LogSet
  BY DEF IsCut, Cut, LogSet, ActiveOf

\* Reducing a cut to its active events changes nothing: what compile bases its
\* snapshot on is what build_input has read.
LEMMA CutsAreReduced ==
    ASSUME NEW events, IsCut(events)
    PROVE  ActiveOf(events) = events
  BY ActiveOfTwice DEF IsCut

\* No snapshot is the absence of one.
LEMMA NoneIsNoSnapshot == None \notin Snapshot
  BY LoopAssumption DEF Snapshot

LEMMA InvInit == Init => Inv
  <1> SUFFICES ASSUME Init PROVE Inv
    OBVIOUS
  <1>1. TypeOK
    BY TypeInit
  <1>2. /\ \A a \in Actors : pc[a] = "idle"
        /\ snapshots = {} /\ previous = None
    BY DEF Init
  <1> QED
    BY <1>1, <1>2, ActorsApart DEF Inv, SnapshotsAreCuts, ReadsAreCuts, PostsAreLogged,
       ReadsCoverPosts, CompiledIsStored, PointerStays, ContextIsNotLost, Compiling

\* Steps that neither append, nor store, nor read keep what compilations hold.
Bookkeeping ==
    /\ log' = log
    /\ snapshots' = snapshots
    /\ \A a \in Actors : pc'[a] \in Compiling =>
          pc[a] \in Compiling /\ seen'[a] = seen[a]
    /\ \A t \in Threads : pc'[t] \in {"read"} \cup Compiling =>
          pc[t] \in {"read"} \cup Compiling /\ post'[t] = post[t]
    /\ \A t \in Threads : pc'[t] = "compiled" => pc[t] = "compiled"

CompilationInv ==
    /\ SnapshotsAreCuts /\ ReadsAreCuts
    /\ PostsAreLogged /\ ReadsCoverPosts /\ CompiledIsStored

LEMMA BookkeepingKeeps == CompilationInv /\ Bookkeeping => CompilationInv'
  <1> SUFFICES ASSUME CompilationInv, Bookkeeping PROVE CompilationInv'
    OBVIOUS
  <1> USE DEF CompilationInv, Bookkeeping
  <1>0. /\ \A events : IsCut(events)' <=> IsCut(events)
        /\ LogSet' = LogSet
    BY NoAppendNoChange
  <1>1. SnapshotsAreCuts'
    BY <1>0 DEF SnapshotsAreCuts
  <1>2. ReadsAreCuts'
    BY <1>0 DEF ReadsAreCuts
  <1>3. PostsAreLogged'
    BY <1>0 DEF PostsAreLogged
  <1>4. ReadsCoverPosts'
    <2> SUFFICES ASSUME NEW t \in Threads, pc'[t] \in Compiling PROVE Covered(t)'
      BY DEF ReadsCoverPosts
    <2>1. /\ pc[t] \in Compiling
          /\ seen'[t] = seen[t] /\ post'[t] = post[t]
      BY ActorsApart
    <2> QED
      BY <1>0, <2>1 DEF ReadsCoverPosts, Covered
  <1>5. CompiledIsStored'
    BY ActorsApart DEF CompiledIsStored, Compiling
  <1> QED
    BY <1>1, <1>2, <1>3, <1>4, <1>5

LEMMA CompilationStep == TypeOK /\ CompilationInv /\ [Next]_vars => CompilationInv'
  <1> SUFFICES ASSUME TypeOK, CompilationInv, [Next]_vars PROVE CompilationInv'
    OBVIOUS
  <1> USE DEF store, refreshVars, Goto
  <1>T. /\ log \in Seq(Events)
        /\ pc \in [Actors -> Labels]
        /\ post \in [Threads -> Events \cup {None}]
        /\ seen \in [Actors -> SUBSET Events]
        /\ pc[Refresh] # "compiled"
    BY DEF TypeOK
  <1>1. ASSUME NEW t \in Threads, PostEvent(t)
        PROVE  CompilationInv'
    <2>1. PICK e \in Events :
             /\ log' = Append(log, e)
             /\ post' = [post EXCEPT ![t] = e]
      BY <1>1 DEF PostEvent
    <2>2. /\ \A events : IsCut(events) => IsCut(events)'
          /\ LogSet' = LogSet \cup {e}
      BY <1>T, <2>1, CutsStay
    <2>3. /\ snapshots' = snapshots /\ seen' = seen
          /\ \A a \in Actors : pc'[a] = IF a = t THEN "read" ELSE pc[a]
          /\ \A u \in Threads : post'[u] = IF u = t THEN e ELSE post[u]
      BY <1>1, <1>T, <2>1 DEF PostEvent
    <2>4. SnapshotsAreCuts' /\ ReadsAreCuts'
      BY <2>2, <2>3 DEF CompilationInv, SnapshotsAreCuts, ReadsAreCuts, Compiling
    <2>5. PostsAreLogged'
      BY <2>2, <2>3, ActorsApart DEF CompilationInv, PostsAreLogged
    <2>6. ReadsCoverPosts'
      <3> SUFFICES ASSUME NEW u \in Threads, pc'[u] \in Compiling PROVE Covered(u)'
        BY DEF ReadsCoverPosts
      <3>1. u # t /\ pc[u] \in Compiling /\ post'[u] = post[u]
        BY <2>3, ActorsApart DEF Compiling
      <3> QED
        BY <3>1, <2>2, <2>3 DEF CompilationInv, ReadsCoverPosts, Covered
    <2>7. CompiledIsStored'
      BY <2>3, ActorsApart DEF CompilationInv, CompiledIsStored
    <2> QED
      BY <2>4, <2>5, <2>6, <2>7 DEF CompilationInv
  <1>2. ASSUME NEW a \in Actors, ReadEvents(a)
        PROVE  CompilationInv'
    <2>1. /\ log' = log /\ snapshots' = snapshots /\ post' = post
          /\ pc[a] = "read"
          /\ \A b \in Actors : pc'[b] = IF b = a THEN "model" ELSE pc[b]
          /\ \A b \in Actors : seen'[b] = IF b = a THEN BuildInput ELSE seen[b]
      BY <1>2, <1>T DEF ReadEvents
    <2>2. /\ \A events : IsCut(events)' <=> IsCut(events)
          /\ LogSet' = LogSet
      BY <2>1, NoAppendNoChange
    <2>3. IsCut(BuildInput)
      BY <1>T, LogIsACut DEF BuildInput
    <2>4. SnapshotsAreCuts' /\ ReadsAreCuts'
      BY <2>1, <2>2, <2>3 DEF CompilationInv, SnapshotsAreCuts, ReadsAreCuts
    <2>5. PostsAreLogged'
      BY <2>1, <2>2, ActorsApart DEF CompilationInv, PostsAreLogged, Compiling
    <2>6. ReadsCoverPosts'
      <3> SUFFICES ASSUME NEW t \in Threads, pc'[t] \in Compiling PROVE Covered(t)'
        BY DEF ReadsCoverPosts
      <3>1. CASE t = a
        <4>1. post[t] \in LogSet
          BY <2>1, <3>1 DEF CompilationInv, PostsAreLogged
        <4>2. post[t] \in BuildInput \/ \E e \in LogSet : post[t] \in Supersedes[e]
          BY <4>1, InactiveIsSuperseded DEF BuildInput
        <4>3. seen'[t] = BuildInput
          BY <2>1, <3>1, ActorsApart
        <4> QED
          BY <2>1, <2>2, <4>2, <4>3 DEF Covered
      <3>2. CASE t # a
        <4>1. pc[t] \in Compiling /\ seen'[t] = seen[t]
          BY <2>1, <3>2, ActorsApart
        <4> QED
          BY <4>1, <2>1, <2>2 DEF CompilationInv, ReadsCoverPosts, Covered
      <3> QED
        BY <3>1, <3>2
    <2>7. CompiledIsStored'
      BY <2>1, ActorsApart DEF CompilationInv, CompiledIsStored
    <2> QED
      BY <2>4, <2>5, <2>6, <2>7 DEF CompilationInv
  <1>3. ASSUME NEW a \in Actors, Activate(a)
        PROVE  CompilationInv'
    <2> DEFINE draft == [basedOn |-> ActiveOf(seen[a]), ownAudit |-> (lastAudit = a)]
    <2>1. /\ log' = log /\ post' = post /\ seen' = seen
          /\ pc[a] = "activate"
          /\ \A b \in Actors : b # a => pc'[b] = pc[b]
          /\ a # Refresh => pc'[a] = "compiled"
          /\ a = Refresh => pc'[a] = "resolve"
          /\ snapshots' = snapshots \cup {draft}
      BY <1>3, <1>T DEF Activate
    <2>2. /\ \A events : IsCut(events)' <=> IsCut(events)
          /\ LogSet' = LogSet
      BY <2>1, NoAppendNoChange
    <2>3. IsCut(seen[a])
      BY <2>1 DEF CompilationInv, ReadsAreCuts, Compiling
    <2>4. draft.basedOn = seen[a]
      BY <2>3, CutsAreReduced
    <2> HIDE DEF draft
    <2>5. SnapshotsAreCuts'
      BY <2>1, <2>2, <2>3, <2>4 DEF CompilationInv, SnapshotsAreCuts
    <2>6. ReadsAreCuts'
      BY <2>1, <2>2 DEF CompilationInv, ReadsAreCuts, Compiling
    <2>7. PostsAreLogged'
      BY <2>1, <2>2, ActorsApart DEF CompilationInv, PostsAreLogged, Compiling
    <2>8. ReadsCoverPosts'
      <3> SUFFICES ASSUME NEW t \in Threads, pc'[t] \in Compiling PROVE Covered(t)'
        BY DEF ReadsCoverPosts
      <3>1. pc[t] \in Compiling
        BY <2>1, ActorsApart DEF Compiling
      <3> QED
        BY <3>1, <2>1, <2>2 DEF CompilationInv, ReadsCoverPosts, Covered
    <2>9. CompiledIsStored'
      BY <2>1, <2>4, ActorsApart DEF CompilationInv, CompiledIsStored
    <2> QED
      BY <2>5, <2>6, <2>7, <2>8, <2>9 DEF CompilationInv
  <1>4. ASSUME NEW t \in Threads, Answer(t)
        PROVE  Bookkeeping
    BY <1>4, <1>T, ActorsApart DEF Answer, Forget, Bookkeeping, Compiling
  <1>5. ASSUME NEW a \in Actors, RunModel(a)
        PROVE  Bookkeeping
    BY <1>5, <1>T, ActorsApart DEF RunModel, Bookkeeping, Compiling
  <1>6. ASSUME NEW a \in Actors, CompileFails(a)
        PROVE  Bookkeeping
    <2>1. CASE a = Refresh
      BY <1>6, <2>1, <1>T, ActorsApart DEF CompileFails, Bookkeeping, Compiling
    <2>2. CASE a # Refresh
      BY <1>6, <2>2, <1>T, ActorsApart DEF CompileFails, Forget, Bookkeeping, Compiling
    <2> QED
      BY <2>1, <2>2
  <1>7. ASSUME RefreshLists PROVE Bookkeeping
    BY <1>7, <1>T, ActorsApart DEF RefreshLists, Bookkeeping, Compiling
  <1>8. ASSUME RefreshCompares PROVE Bookkeeping
    BY <1>8, <1>T, ActorsApart DEF RefreshCompares, Bookkeeping, Compiling
  <1>9. ASSUME RefreshResolves PROVE Bookkeeping
    BY <1>9, <1>T, ActorsApart DEF RefreshResolves, Bookkeeping, Compiling
  <1>10. ASSUME RefreshReadRaises PROVE Bookkeeping
    BY <1>10, <1>T, ActorsApart DEF RefreshReadRaises, Bookkeeping, Compiling
  <1>11. ASSUME RefreshReturns PROVE Bookkeeping
    BY <1>11, <1>T, ActorsApart DEF RefreshReturns, Bookkeeping, Compiling
  <1>12. ASSUME Rollback PROVE Bookkeeping
    BY <1>12 DEF Rollback, Bookkeeping
  <1>13. ASSUME Crash PROVE Bookkeeping
    BY <1>13, <1>T, ActorsApart DEF Crash, Bookkeeping, Compiling
  <1>14. ASSUME UNCHANGED vars PROVE Bookkeeping
    BY <1>14 DEF vars, Bookkeeping
  <1> QED
    BY BookkeepingKeeps, <1>1, <1>2, <1>3, <1>4, <1>5, <1>6, <1>7, <1>8, <1>9, <1>10,
       <1>11, <1>12, <1>13, <1>14 DEF Next

LEMMA ContextStep ==
    TypeOK /\ PointerStays /\ ContextIsNotLost /\ [Next]_vars
        => PointerStays' /\ ContextIsNotLost'
  <1> SUFFICES ASSUME TypeOK, PointerStays, ContextIsNotLost, [Next]_vars
               PROVE  PointerStays' /\ ContextIsNotLost'
    OBVIOUS
  <1> USE DEF store, refreshVars, Goto, PointerStays, ContextIsNotLost
  <1>T. /\ pc \in [Actors -> Labels]
        /\ snapshots \subseteq Snapshot
        /\ seen \in [Actors -> SUBSET Events]
    BY DEF TypeOK
  <1>1. ASSUME NEW t \in Threads, PostEvent(t)
        PROVE  PointerStays' /\ ContextIsNotLost'
    BY <1>1, <1>T, ActorsApart DEF PostEvent
  <1>2. ASSUME NEW t \in Threads, Answer(t)
        PROVE  PointerStays' /\ ContextIsNotLost'
    BY <1>2, <1>T, ActorsApart DEF Answer
  <1>3. ASSUME NEW a \in Actors, ReadEvents(a)
        PROVE  PointerStays' /\ ContextIsNotLost'
    BY <1>3, <1>T, ActorsApart DEF ReadEvents
  <1>4. ASSUME NEW a \in Actors, RunModel(a)
        PROVE  PointerStays' /\ ContextIsNotLost'
    BY <1>4, <1>T, ActorsApart DEF RunModel
  <1>5. ASSUME NEW a \in Actors, Activate(a)
        PROVE  PointerStays' /\ ContextIsNotLost'
    <2> DEFINE draft == [basedOn |-> ActiveOf(seen[a]), ownAudit |-> (lastAudit = a)]
    <2>1. draft \in Snapshot
      BY <1>T, ActiveOfTwice DEF Snapshot
    <2>2. active' = draft
      BY <1>5 DEF Activate
    <2> HIDE DEF draft
    <2> QED
      BY <1>5, <1>T, <2>1, <2>2, NoneIsNoSnapshot, ActorsApart DEF Activate
  <1>6. ASSUME NEW a \in Actors, CompileFails(a)
        PROVE  PointerStays' /\ ContextIsNotLost'
    BY <1>6, <1>T, ActorsApart DEF CompileFails, Forget
  <1>7. CASE RefreshLists
    BY <1>7, <1>T, ActorsApart DEF RefreshLists
  <1>8. CASE RefreshCompares
    BY <1>8, <1>T, ActorsApart DEF RefreshCompares
  <1>9. CASE RefreshResolves
    BY <1>9, <1>T, ActorsApart DEF RefreshResolves
  <1>10. CASE RefreshReadRaises
    BY <1>10, <1>T, ActorsApart DEF RefreshReadRaises
  <1>11. CASE RefreshReturns
    BY <1>11, <1>T, ActorsApart DEF RefreshReturns
  <1>12. CASE Rollback
    BY <1>12, <1>T, NoneIsNoSnapshot DEF Rollback
  <1>13. CASE Crash
    BY <1>13, <1>T, ActorsApart DEF Crash
  <1>14. CASE UNCHANGED vars
    BY <1>14 DEF vars
  <1> QED
    BY <1>1, <1>2, <1>3, <1>4, <1>5, <1>6, <1>7, <1>8, <1>9, <1>10, <1>11, <1>12,
       <1>13, <1>14 DEF Next

LEMMA InvStep == Inv /\ [Next]_vars => Inv'
  BY TypeStep, CompilationStep, ContextStep DEF Inv, CompilationInv

\* The inductive invariant holds.
THEOREM InvHolds == Spec => []Inv
  BY InvInit, InvStep, PTL DEF Spec

-----------------------------------------------------------------------------
(* What it gives *)

\* However compilations, appends, rollbacks and crashes interleave, every stored
\* snapshot is based on exactly the events active at one moment of the log.
THEOREM SnapshotsAreWhole == Spec => []SnapshotsAreCuts
  <1>1. Inv => SnapshotsAreCuts
    BY DEF Inv
  <1> QED
    BY <1>1, InvHolds, PTL

\* A thread that answers "compiled" has stored a snapshot that knows its event.
THEOREM AnswersAreEarned == Spec => []AnswerCoversPost
  <1>1. Inv => AnswerCoversPost
    BY DEF Inv, AnswerCoversPost, ReadsCoverPosts, CompiledIsStored, Covered, Compiling
  <1> QED
    BY <1>1, InvHolds, PTL

\* A refresh that found an active profile does not end without one, unless its
\* step degrades to the neutral profile because the database cannot be read.
THEOREM ContextIsKept == Spec => []ContextIsNotLost
  <1>1. Inv => ContextIsNotLost
    BY DEF Inv
  <1> QED
    BY <1>1, InvHolds, PTL

-----------------------------------------------------------------------------
(* The store implements ProfileHistory *)

\* The events of an abstract moment are those of the cut.
LEMMA MomentsAreCuts ==
    ASSUME log \in Seq(Events), NEW n \in 0..Len(log)
    PROVE  History!ActiveAt(n) = ActiveOf(Cut(n))
  BY DEF History!ActiveAt, ActiveOf, Cut

\* The snapshot in use, as the history has it.
LEMMA CurrentIs ==
    ASSUME NEW s, s # None
    PROVE  {r.basedOn : r \in {s} \ {None}} = {s.basedOn}
  OBVIOUS

LEMMA HistoryInit == Init => History!Init
  BY DEF Init, History!Init

LEMMA PostIsPost ==
    ASSUME TypeOK, NEW t \in Threads, PostEvent(t)
    PROVE  \E e \in Events : History!Post(e)
  <1>1. PICK e \in Events \ LogSet : log' = Append(log, e)
    BY DEF PostEvent
  <1>2. \A i \in 1..Len(log) : log[i] # e
    BY <1>1 DEF TypeOK, LogSet
  <1>3. snapshots' = snapshots /\ active' = active
    BY DEF PostEvent
  <1> QED
    BY <1>1, <1>2, <1>3 DEF History!Post

LEMMA ActivateIsCompile ==
    ASSUME TypeOK, ReadsAreCuts, NEW a \in Actors, Activate(a)
    PROVE  History!Compile
  <1> DEFINE draft == [basedOn |-> ActiveOf(seen[a]), ownAudit |-> (lastAudit = a)]
  <1>1. log' = log /\ snapshots' = snapshots \cup {draft} /\ active' = draft
    BY DEF Activate
  <1>2. PICK n \in 0..Len(log) : seen[a] = ActiveOf(Cut(n))
    BY DEF Activate, ReadsAreCuts, Compiling, IsCut
  <1>3. draft.basedOn = History!ActiveAt(n) /\ draft # None
    <2>1. ActiveOf(seen[a]) = History!ActiveAt(n)
      BY <1>2, ActiveOfTwice, MomentsAreCuts DEF TypeOK
    <2>2. draft \in Snapshot
      BY ActiveOfTwice DEF TypeOK, Snapshot
    <2> QED
      BY <2>1, <2>2, NoneIsNoSnapshot
  <1> HIDE DEF draft
  <1>4. {s.basedOn : s \in {active'} \ {None}} = {History!ActiveAt(n)}
    BY <1>1, <1>3, CurrentIs
  <1>5. {s.basedOn : s \in snapshots'}
          = {s.basedOn : s \in snapshots} \cup {s.basedOn : s \in {active'} \ {None}}
    BY <1>1, <1>3
  <1> QED
    BY <1>1, <1>2, <1>4, <1>5 DEF History!Compile

LEMMA RollbackIsReturn ==
    ASSUME TypeOK, Rollback
    PROVE  History!Return
  <1>1. PICK s \in snapshots : active' = s
    BY DEF Rollback
  <1>2. log' = log /\ snapshots' = snapshots /\ s # None
    BY NoneIsNoSnapshot DEF Rollback, TypeOK
  <1>3. {r.basedOn : r \in {active'} \ {None}} = {s.basedOn}
    BY <1>1, <1>2, CurrentIs
  <1> QED
    BY <1>1, <1>2, <1>3 DEF History!Return

LEMMA HistoryStep ==
    ASSUME TypeOK, ReadsAreCuts, [Next]_vars
    PROVE  [History!Next]_History!historyVars
  <1> USE DEF store
  <1>1. ASSUME NEW t \in Threads, PostEvent(t) PROVE History!Next
    BY <1>1, PostIsPost DEF History!Next
  <1>2. ASSUME NEW a \in Actors, Activate(a) PROVE History!Next
    BY <1>2, ActivateIsCompile DEF History!Next
  <1>3. CASE Rollback
    BY <1>3, RollbackIsReturn DEF History!Next
  <1>4. ASSUME UNCHANGED store PROVE UNCHANGED History!historyVars
    BY <1>4 DEF History!historyVars
  <1>5. ASSUME NEW t \in Threads, Answer(t) PROVE UNCHANGED store
    BY <1>5 DEF Answer
  <1>6. ASSUME NEW a \in Actors, ReadEvents(a) \/ RunModel(a) \/ CompileFails(a)
        PROVE  UNCHANGED store
    BY <1>6 DEF ReadEvents, RunModel, CompileFails
  <1>7. CASE RefreshLists \/ RefreshCompares \/ RefreshResolves \/ RefreshReadRaises
               \/ RefreshReturns
    BY <1>4, <1>7 DEF RefreshLists, RefreshCompares, RefreshResolves, RefreshReadRaises,
                      RefreshReturns
  <1>8. CASE Crash \/ UNCHANGED vars
    BY <1>4, <1>8 DEF Crash, vars
  <1> QED
    BY <1>1, <1>2, <1>3, <1>4, <1>5, <1>6, <1>7, <1>8 DEF Next

\* However threads, a refresh, rollbacks and crashes interleave, each change of
\* the store is one step of a history of profiles: an event is added, a profile
\* of one moment is stored and made current at once, or an old one returned to
\* (repositories.py:52-83, 107-161, 190-205).
THEOREM LoopIsAHistory == Spec => ImplementsHistory
  <1>1. Inv => TypeOK /\ ReadsAreCuts
    BY DEF Inv
  <1> QED
    BY <1>1, HistoryInit, HistoryStep, InvHolds, PTL DEF Spec, ImplementsHistory, History!Spec

-----------------------------------------------------------------------------
(* Why the profile stays current *)

\* The profile is based on the active events, and so is what is being compiled.
Settled ==
    /\ Current
    /\ \A a \in Actors : pc[a] \in {"model", "activate"} => seen[a] = ActiveOf(LogSet)

LEMMA SettledStep ==
    TypeOK /\ [Next]_vars => (Settled /\ NoRollback /\ log' = log => Settled')
  <1> SUFFICES ASSUME TypeOK, [Next]_vars, Settled, NoRollback, log' = log PROVE Settled'
    OBVIOUS
  <1> USE DEF store, refreshVars, Goto
  <1>T. pc \in [Actors -> Labels] /\ seen \in [Actors -> SUBSET Events]
    BY DEF TypeOK
  <1>0. ActiveOf(LogSet)' = ActiveOf(LogSet)
    BY NoAppendNoChange DEF ActiveOf
  \* Nothing is activated, and what is being compiled was before or is new.
  <1> DEFINE Harmless ==
          /\ active' = active
          /\ \A a \in Actors : pc'[a] \in {"model", "activate"} =>
                \/ pc[a] \in {"model", "activate"} /\ seen'[a] = seen[a]
                \/ seen'[a] = ActiveOf(LogSet)
  <1>H. ASSUME Harmless PROVE Settled'
    BY <1>0, <1>H DEF Settled, Current
  <1>1. ASSUME NEW t \in Threads, PostEvent(t) PROVE FALSE
    <2>1. PICK e \in Events : log' = Append(log, e)
      BY <1>1 DEF PostEvent
    <2>2. Len(log') = Len(log) + 1 /\ Len(log) \in Nat
      BY <2>1 DEF TypeOK
    <2> QED
      BY <2>2
  <1>2. ASSUME NEW t \in Threads, Answer(t) PROVE Harmless
    BY <1>2, <1>T, ActorsApart DEF Answer, Forget
  <1>3. ASSUME NEW a \in Actors, ReadEvents(a) PROVE Harmless
    BY <1>3, <1>T DEF ReadEvents, BuildInput
  <1>4. ASSUME NEW a \in Actors, RunModel(a) PROVE Harmless
    BY <1>4, <1>T DEF RunModel
  <1>5. ASSUME NEW a \in Actors, Activate(a) PROVE Settled'
    <2> DEFINE draft == [basedOn |-> ActiveOf(seen[a]), ownAudit |-> (lastAudit = a)]
    <2>1. active' = draft /\ seen' = seen /\ pc[a] = "activate"
      BY <1>5 DEF Activate
    <2>2. draft.basedOn = ActiveOf(LogSet)
      BY <2>1, ActiveOfTwice DEF Settled
    <2>3. draft # None
      <3>1. draft \in Snapshot
        BY <1>T, ActiveOfTwice DEF Snapshot
      <3> QED
        BY <3>1, NoneIsNoSnapshot
    <2> HIDE DEF draft
    <2>4. Current'
      BY <1>0, <2>1, <2>2, <2>3 DEF Current
    <2>5. \A b \in Actors : pc'[b] \in {"model", "activate"} =>
             pc[b] \in {"model", "activate"}
      BY <1>5, <1>T DEF Activate
    <2> QED
      BY <1>0, <2>1, <2>4, <2>5 DEF Settled
  <1>6. ASSUME NEW a \in Actors, CompileFails(a) PROVE Harmless
    BY <1>6, <1>T, ActorsApart DEF CompileFails, Forget
  <1>7. CASE RefreshLists \/ RefreshCompares \/ RefreshResolves \/ RefreshReadRaises
    <2>1. Harmless
      BY <1>7, <1>T, ActorsApart
         DEF RefreshLists, RefreshCompares, RefreshResolves, RefreshReadRaises
    <2> QED
      BY <1>H, <2>1
  <1>8. CASE RefreshReturns
    <2>1. Harmless
      BY <1>8, <1>T, ActorsApart DEF RefreshReturns
    <2> QED
      BY <1>H, <2>1
  <1>9. CASE Rollback
    <2>1. Harmless
      BY <1>9 DEF Rollback, NoRollback
    <2> QED
      BY <1>H, <2>1
  <1>10. CASE Crash
    <2>1. Harmless
      BY <1>10, <1>T DEF Crash
    <2> QED
      BY <1>H, <2>1
  <1>11. CASE UNCHANGED vars
    <2>1. Harmless
      BY <1>11 DEF vars
    <2> QED
      BY <1>H, <2>1
  <1> HIDE DEF Harmless
  <1> QED
    BY <1>H, <1>1, <1>2, <1>3, <1>4, <1>5, <1>6, <1>7, <1>8, <1>9, <1>10, <1>11 DEF Next

\* Once the profile is current and no compilation of older events is under way,
\* only a new event or a rollback can change that: no thread, refresh, failure
\* or crash does.  This is the "stays so" of ProfileConverges.
THEOREM CurrentStays == Spec => [][Settled /\ NoRollback /\ log' = log => Settled']_vars
  <1>1. TypeOK /\ [Next]_vars => [Settled /\ NoRollback /\ log' = log => Settled']_vars
    BY SettledStep
  <1> QED
    BY <1>1, TypeCorrect, PTL DEF Spec

=============================================================================
