--------------------------- MODULE Sources_proofs ---------------------------
(***************************************************************************)
(* Proofs about Sources for any sources, texts, entries and profiles, and  *)
(* for any bound on the inputs.                                            *)
(***************************************************************************)
EXTENDS Sources, TLAPS

USE DEF rows, evidence, pointer, drawing, cadence, history

\* What is said of sources is a word, and leaves the other sources alone.
LEMMA SayTyped ==
    ASSUME word \in [Sources -> Words], asked \in [Sources -> Words],
           NEW sources, NEW what \in [Sources -> Words], Say(sources, what)
    PROVE  /\ word' \in [Sources -> Words]
           /\ asked' \in [Sources -> Words]
           /\ \A s \in Sources : s \in sources => word'[s] = what[s] /\ asked'[s] = "open"
           /\ \A s \in Sources :
                 s \notin sources => word'[s] = word[s] /\ asked'[s] = asked[s]
  BY DEF Say, Words

\* What a toggle does when it answers.
LEMMA ToggleEndsTyped ==
    ASSUME TypeOK, NEW clean \in BOOLEAN, ToggleEnds(clean)
    PROVE  /\ word' \in [Sources -> Words] /\ asked' \in [Sources -> Words]
           /\ toggle' = NoToggle
           /\ at' \in [Actors -> Labels] /\ at'[Loop] = "idle"
           /\ \A other \in Actors \ {Loop} : at'[other] = at[other]
           /\ \A s \in Sources : word'[s] =
                 IF s # toggle.source THEN word[s]
                 ELSE IF ~clean THEN "open" ELSE IF toggle.enable THEN "on" ELSE "off"
           /\ \A s \in Sources : asked'[s] = IF s # toggle.source THEN asked[s] ELSE "open"
  <1> DEFINE says == [s \in Sources |->
                        IF ~clean THEN "open" ELSE IF toggle.enable THEN "on" ELSE "off"]
  <1>1. Say({toggle.source}, says) /\ says \in [Sources -> Words]
    BY DEF ToggleEnds, Words
  <1>2. word \in [Sources -> Words] /\ asked \in [Sources -> Words]
    BY DEF TypeOK
  <1> HIDE DEF says
  <1>3. /\ word' \in [Sources -> Words] /\ asked' \in [Sources -> Words]
        /\ \A s \in Sources : s = toggle.source => word'[s] = says[s] /\ asked'[s] = "open"
        /\ \A s \in Sources :
              s # toggle.source => word'[s] = word[s] /\ asked'[s] = asked[s]
    BY <1>1, <1>2, SayTyped
  <1>4. /\ at' \in [Actors -> Labels] /\ at'[Loop] = "idle"
        /\ \A other \in Actors \ {Loop} : at'[other] = at[other]
    BY DEF ToggleEnds, Goto, TypeOK, Labels, Actors
  <1> QED
    BY <1>3, <1>4 DEF ToggleEnds, says

-----------------------------------------------------------------------------
(* Type correctness *)

LEMMA InitTyped == Init => TypeOK
  <1> SUFFICES ASSUME Init PROVE TypeOK
    OBVIOUS
  <1>1. /\ status \in [Sources -> Statuses]
        /\ at \in [Actors -> Labels]
        /\ text \in [Importers -> Versions \cup {None}]
        /\ word \in [Sources -> Words]
        /\ asked \in [Sources -> Words]
    BY DEF Init, Statuses, Labels, Words
  <1>2. /\ active \in [set : BOOLEAN, snapshot : SUBSET Rows, pinned : BOOLEAN]
        /\ toggle \in [source : Sources \cup {None}, enable : BOOLEAN,
                        todo : SUBSET bound, clean : BOOLEAN]
        /\ lastRun \in [any : BOOLEAN, profile : Profiles \cup {None}]
        /\ due \in [now : BOOLEAN, late : BOOLEAN]
    BY DEF Init, Unset, NoToggle, NoRun, Quiet
  <1>3. at[Loop] = "idle" /\ at[Refresh] = "idle" /\ at[Observer] = "idle"
    BY DEF Init, Actors
  <1>4. /\ anchored \in BOOLEAN
        /\ profile \in Profiles \cup {None} /\ searched \in Profiles \cup {None}
        /\ using \in Profiles \cup {None} /\ found \in Found \cup {None}
    BY DEF Init
  <1>5. inputs \in 0..MaxInputs
    BY SourcesAssumption DEF Init
  <1>6. goal = "none" /\ listed = {} /\ drawn = {} /\ bound = {} /\ on = {}
           /\ snapshots = {} /\ imports = {} /\ shared = {}
    BY DEF Init
  <1>7. /\ observed \in [Sources -> Seq(Observations)]
        /\ decision \in [source : Sources \cup {None}, next : Statuses]
    BY DEF Init, NoDecision, Statuses
  <1> QED
    BY <1>1, <1>2, <1>3, <1>4, <1>5, <1>6, <1>7 DEF TypeOK

\* What is decided of a target, if anything, is a status and not that it is absent.
LEMMA DecidedTyped ==
    ASSUME NEW s, Decided(s) # status[s]
    PROVE  Decided(s) \in Statuses \ {"absent"}
  BY DEF Decided, Statuses

LEMMA DecidesTyped ==
    ASSUME TypeOK, DecidesLifecycle
    PROVE  TypeOK'
  <1> USE SourcesAssumption
  <1>1. at[Observer] = "observed" /\ decision.source \in Sources
    BY DEF TypeOK, DecidesLifecycle, Sources
  <1>2. Decided(decision.source) # status[decision.source]
           => Decided(decision.source) \in Statuses \ {"absent"}
    BY DecidedTyped
  <1>3. CASE Decided(decision.source) = status[decision.source]
    BY <1>1, <1>3 DEF DecidesLifecycle, TypeOK, Goto, NoDecision, Statuses, Labels, Actors
  <1>4. CASE Decided(decision.source) # status[decision.source]
    <2>1. /\ decision' = [decision EXCEPT !.next = Decided(decision.source)]
          /\ Goto(Observer, "transition")
      BY <1>4 DEF DecidesLifecycle
    <2>2. /\ decision' \in [source : Sources \cup {None}, next : Statuses]
          /\ decision'.source # None /\ decision'.next # "absent"
      BY <1>1, <1>2, <1>4, <2>1 DEF TypeOK
    <2>3. /\ at' \in [Actors -> Labels]
          /\ at'[Loop] = at[Loop] /\ at'[Refresh] = at[Refresh]
      BY <2>1 DEF TypeOK, Goto, Labels, Actors
    <2> QED
      BY <2>2, <2>3 DEF DecidesLifecycle, TypeOK
  <1> QED
    BY <1>3, <1>4

\* What a transition writes, and what it says.
LEMMA TransitionSays ==
    ASSUME TypeOK, Transitions
    PROVE  /\ word' \in [Sources -> Words] /\ asked' \in [Sources -> Words]
           /\ decision.source \in Sources /\ decision.next \in Statuses \ {"absent"}
           /\ status' = [status EXCEPT ![decision.source] = decision.next]
           /\ \A s \in Sources : s # decision.source =>
                 status'[s] = status[s] /\ word'[s] = word[s] /\ asked'[s] = asked[s]
           /\ word'[decision.source] = IF word[decision.source] = "none" THEN "none"
                                       ELSE "open"
           /\ asked'[decision.source] = "open"
  <1> DEFINE says == [s \in Sources |-> IF word[s] = "none" THEN "none" ELSE "open"]
  <1>1. Say({decision.source}, says) /\ says \in [Sources -> Words]
    BY DEF Transitions, Words
  <1>2. word \in [Sources -> Words] /\ asked \in [Sources -> Words]
    BY DEF TypeOK
  <1>3. decision.source \in Sources /\ decision.next \in Statuses \ {"absent"}
    BY DEF TypeOK, Transitions
  <1>4. status' = [status EXCEPT ![decision.source] = decision.next]
    BY DEF Transitions
  <1>5. \A s \in Sources : s # decision.source => status'[s] = status[s]
    BY <1>4 DEF TypeOK
  <1> HIDE DEF says
  <1>6. /\ word' \in [Sources -> Words] /\ asked' \in [Sources -> Words]
        /\ \A s \in Sources : s = decision.source => word'[s] = says[s] /\ asked'[s] = "open"
        /\ \A s \in Sources :
              s # decision.source => word'[s] = word[s] /\ asked'[s] = asked[s]
    BY <1>1, <1>2, SayTyped
  <1> QED
    BY <1>3, <1>4, <1>5, <1>6 DEF says

LEMMA TransitionTyped ==
    ASSUME TypeOK, Transitions
    PROVE  TypeOK'
  <1> USE SourcesAssumption
  <1>1. /\ word' \in [Sources -> Words] /\ asked' \in [Sources -> Words]
        /\ decision.source \in Sources /\ decision.next \in Statuses \ {"absent"}
        /\ status' = [status EXCEPT ![decision.source] = decision.next]
    BY TransitionSays
  <1>2. status' \in [Sources -> Statuses]
    BY <1>1 DEF TypeOK
  <1>3. decision' \in [source : Sources \cup {None}, next : Statuses]
    BY DEF Transitions, NoDecision, Statuses
  <1>4. /\ at' \in [Actors -> Labels] /\ at'[Observer] = "idle"
        /\ at'[Loop] = at[Loop] /\ at'[Refresh] = at[Refresh]
    BY DEF TypeOK, Transitions, Goto, Labels, Actors
  <1>5. /\ toggle' \in [source : Sources \cup {None}, enable : BOOLEAN,
                         todo : SUBSET bound', clean : BOOLEAN]
        /\ toggle'.source = toggle.source
    <2>1. (toggle.clean /\ toggle.source # decision.source) \in BOOLEAN
      OBVIOUS
    <2> QED
      BY <2>1 DEF TypeOK, Transitions
  <1>6. UNCHANGED <<bound, on, shared, observed, imports, pointer, text, drawing, cadence,
                    inputs>>
    BY DEF Transitions
  <1> HIDE DEF Transitions
  <1> QED
    BY <1>1, <1>2, <1>3, <1>4, <1>5, <1>6 DEF TypeOK

LEMMA StepTyped == TypeOK /\ [Next]_vars => TypeOK'
  <1> SUFFICES ASSUME TypeOK, [Next]_vars PROVE TypeOK'
    OBVIOUS
  <1> USE SourcesAssumption DEF TypeOK
  <1>1. ASSUME NEW v \in Versions, ImportCalled(v) PROVE TypeOK'
    BY <1>1 DEF ImportCalled, Goto, Input, Labels, Actors, Importers
  <1>2. ASSUME NEW s \in Sources, NEW enable \in BOOLEAN, ToggleCalled(s, enable) PROVE TypeOK'
    BY <1>2 DEF ToggleCalled, Goto, Input, Labels, Actors, Say, Open, Words, RowsOf
  <1>3. CASE ToggleSetsStatus
    <2>1. status' \in [Sources -> Statuses]
      BY <1>3 DEF ToggleSetsStatus, Statuses
    <2>2. Loop \in Actors /\ {Refresh, Observer} \subseteq Actors \ {Loop}
      BY DEF Actors
    <2>3. CASE toggle.todo = {}
      <3>1. ToggleEnds(FALSE)
        BY <1>3, <2>3 DEF ToggleSetsStatus
      <3>2. toggle' = NoToggle => toggle' \in [source : Sources \cup {None}, enable : BOOLEAN,
                                              todo : SUBSET bound', clean : BOOLEAN]
        BY DEF NoToggle
      <3> HIDE DEF TypeOK
      <3>3. /\ word' \in [Sources -> Words] /\ asked' \in [Sources -> Words]
            /\ toggle' = NoToggle
            /\ at' \in [Actors -> Labels] /\ at'[Loop] = "idle"
            /\ at'[Refresh] = at[Refresh] /\ at'[Observer] = at[Observer]
        BY <3>1, <2>2, ToggleEndsTyped
      <3>4. toggle' \in [source : Sources \cup {None}, enable : BOOLEAN,
                         todo : SUBSET bound', clean : BOOLEAN]
        BY <3>2, <3>3
      <3> HIDE DEF NoToggle
      <3> QED
        BY <1>3, <2>1, <3>3, <3>4 DEF ToggleSetsStatus, TypeOK
    <2>4. CASE toggle.todo # {}
      <3>1. Goto(Loop, "bindings") /\ UNCHANGED <<toggle, history>>
        BY <1>3, <2>4, Zenon DEF ToggleSetsStatus
      <3>2. /\ at' \in [Actors -> Labels] /\ at'[Loop] = "bindings"
            /\ at'[Refresh] = at[Refresh] /\ at'[Observer] = at[Observer]
        BY <2>2, <3>1 DEF Goto, Labels
      <3>3. toggle.source # None
        BY <1>3 DEF ToggleSetsStatus
      <3>4. UNCHANGED <<bound, on, evidence, imports, pointer, text, drawing, cadence,
                        inputs>>
        BY <1>3 DEF ToggleSetsStatus
      <3>5. UNCHANGED <<toggle, word, asked>>
        BY <3>1
      <3> QED
        BY <2>1, <3>2, <3>3, <3>4, <3>5
    <2> QED
      BY <2>3, <2>4
  <1>4. CASE ToggleSetsBinding
    <2>1. PICK row \in toggle.todo :
             /\ on' = IF toggle.enable THEN on \cup {row} ELSE on \ {row}
             /\ ToggleGoesOn(row)
      BY <1>4 DEF ToggleSetsBinding
    <2>2. on' \subseteq bound /\ bound' = bound
      BY <1>4, <2>1 DEF ToggleSetsBinding
    <2>3. Loop \in Actors /\ {Refresh, Observer} \subseteq Actors \ {Loop}
      BY DEF Actors
    <2>4. CASE toggle.todo = {row}
      <3>1. ToggleEnds(toggle.clean) /\ toggle.clean \in BOOLEAN
        BY <2>1, <2>4 DEF ToggleGoesOn
      <3>2. toggle' = NoToggle => toggle' \in [source : Sources \cup {None}, enable : BOOLEAN,
                                              todo : SUBSET bound', clean : BOOLEAN]
        BY DEF NoToggle
      <3> HIDE DEF TypeOK
      <3>3. /\ word' \in [Sources -> Words] /\ asked' \in [Sources -> Words]
            /\ toggle' = NoToggle
            /\ at' \in [Actors -> Labels] /\ at'[Loop] = "idle"
            /\ at'[Refresh] = at[Refresh] /\ at'[Observer] = at[Observer]
        BY <3>1, <2>3, ToggleEndsTyped
      <3> QED
        BY <1>4, <2>2, <3>2, <3>3 DEF ToggleSetsBinding, TypeOK
    <2>5. CASE toggle.todo # {row}
      <3>1. /\ toggle' = [toggle EXCEPT !.todo = @ \ {row}]
            /\ UNCHANGED <<at, history>>
        BY <2>1, <2>5 DEF ToggleGoesOn
      <3>2. /\ toggle' \in [source : Sources \cup {None}, enable : BOOLEAN,
                             todo : SUBSET bound', clean : BOOLEAN]
            /\ toggle'.source = toggle.source
        BY <2>2, <3>1
      <3>3. UNCHANGED <<status, bound, evidence, imports, pointer, text, drawing, cadence,
                        inputs>>
        BY <1>4 DEF ToggleSetsBinding
      <3> QED
        BY <2>2, <3>1, <3>2, <3>3
    <2> QED
      BY <2>4, <2>5
  <1>5. ASSUME NEW a \in Importers, ImportChecks(a) PROVE TypeOK'
    BY <1>5 DEF ImportChecks, Goto, Labels, Actors, Importers, ImportDone
  <1>6. ASSUME NEW a \in Importers, Imports(a) PROVE TypeOK'
    <2>1. /\ text[a] \in Versions
          /\ Named(a) \subseteq YamlSources
          /\ \A s \in Named(a) : Entry[text[a]][s] \in Entries
      BY <1>6 DEF Imports, Importers, Named
    <2>2. NewRows(a) \subseteq Rows
      BY <2>1 DEF NewRows, RowOf, Rows, Sources, Configs
    <2>3. status' \in [Sources -> Statuses]
      BY <1>6 DEF Imports, Statuses
    <2>4. bound' \subseteq Rows /\ on' \subseteq bound'
      BY <1>6, <2>2 DEF Imports
    <2>5. /\ word' \in [Sources -> Words]
          /\ asked' \in [Sources -> Words]
      <3>1. ImportSays(a) \in [Sources -> Words]
        BY DEF ImportSays, Words
      <3> QED
        BY <1>6, <3>1, SayTyped DEF Imports
    <2>6. /\ toggle' \in [source : Sources \cup {None}, enable : BOOLEAN,
                           todo : SUBSET bound', clean : BOOLEAN]
          /\ toggle'.source = toggle.source
      <3>1. bound \subseteq bound'
        BY <1>6 DEF Imports
      <3>2. (toggle.clean /\ toggle.source \notin Named(a)) \in BOOLEAN
        OBVIOUS
      <3> QED
        BY <1>6, <3>1, <3>2 DEF Imports
    <2>7. /\ at' \in [Actors -> Labels] /\ at'[a] \in {"idle", "list"}
          /\ \A other \in Actors \ {a} : at'[other] = at[other]
      BY <1>6 DEF Imports, ImportDone, Goto, Labels, Actors, Importers
    <2>8. /\ {Loop, Refresh, Observer} \subseteq Actors /\ a \in {Loop, Refresh}
          /\ at'[Observer] = at[Observer]
          /\ at'[Loop] \in {at[Loop], "idle", "list"}
          /\ at'[Refresh] \in {at[Refresh], "idle", "list"}
          /\ a = Loop => at'[Refresh] = at[Refresh]
          /\ a = Refresh => at'[Loop] = at[Loop]
      BY <2>7 DEF Actors, Importers
    <2>9. /\ text' = [text EXCEPT ![a] = None]
          /\ goal' = IF a = Loop THEN goal ELSE "migration"
          /\ imports' = imports \cup {text[a]}
      BY <1>6 DEF Imports, ImportDone
    <2>10. /\ text' \in [Importers -> Versions \cup {None}]
           /\ imports' \subseteq Versions
           /\ goal' \in {"none", "discovery", "anchor", "migration", "resolve", "pinned"}
           /\ at'[Loop] \in {"check", "import"} => text'[Loop] # None
           /\ at'[Refresh] \in {"check", "import"} \/ goal' = "anchor"
                 => text'[Refresh] # None
      BY <2>1, <2>7, <2>8, <2>9 DEF Importers
    <2>11. UNCHANGED <<evidence, pointer, found, listed, drawn, using, cadence, inputs>>
      BY <1>6 DEF Imports
    <2> QED
      BY <2>3, <2>4, <2>5, <2>6, <2>7, <2>8, <2>10, <2>11
  <1>7. CASE ImportRaises
    BY <1>7 DEF ImportRaises, Goto, Labels, Actors, Importers
  <1>8. ASSUME NEW c \in Creators, SubmitCalled(c) PROVE TypeOK'
    BY <1>8 DEF SubmitCalled, Goto, Input, Labels, Actors
  <1>9. ASSUME NEW c \in Creators, SubmitTarget(c) PROVE TypeOK'
    <2>1. status' \in [Sources -> Statuses]
      BY <1>9 DEF SubmitTarget, AddSource, Statuses
    <2> QED
      BY <1>9, <2>1 DEF SubmitTarget, Goto, Labels, Actors
  <1>10. ASSUME NEW c \in Creators, SubmitShare(c) PROVE TypeOK'
    BY <1>10 DEF SubmitShare, Goto, Labels, Actors, Rows, Sources, Configs
  <1>11. ASSUME NEW c \in Creators, SubmitRoute(c) PROVE TypeOK'
    BY <1>11 DEF SubmitRoute, Goto, Labels, Actors, AddRow, Rows, Sources, Configs
  <1>11b. ASSUME NEW c \in Creators, SubmitItem(c) PROVE TypeOK'
    BY <1>11b DEF SubmitItem, Goto, Labels, Actors
  <1>12. CASE RefreshStarts
    BY <1>12 DEF RefreshStarts, Goto, Input, Labels, Actors
  <1>13. CASE Decides
    BY <1>13 DEF Decides, Goto, Labels, Actors
  <1>14. CASE Skips
    BY <1>14 DEF Skips, Goto, Labels, Actors, Recorded, Dropped
  <1>15. CASE SearchStarts
    BY <1>15 DEF SearchStarts, Goto, Labels, Actors
  <1>16. CASE SearchDegrades
    BY <1>16 DEF SearchDegrades, Goto, Labels, Actors, Recorded, Dropped
  <1>17. CASE CandidatesFound
    BY <1>17 DEF CandidatesFound, Goto, Labels, Actors
  <1>17b. ASSUME NEW s \in Found, Accepts(s) PROVE TypeOK'
    <2>1. s # None
      BY DEF Sources
    <2> QED
      BY <1>17b, <2>1 DEF Accepts, Goto, Labels, Actors
  <1>18. CASE AddTarget
    <2>1. status' \in [Sources -> Statuses]
      BY <1>18 DEF AddTarget, AddSource, Statuses
    <2> QED
      BY <1>18, <2>1 DEF AddTarget, Goto, Labels, Actors
  <1>19. CASE AddBinding
    BY <1>19 DEF AddBinding, Goto, Labels, Actors, AddRow, Rows, Sources, Configs
  <1>20. CASE CandidatesDone
    BY <1>20 DEF CandidatesDone, Goto, Labels, Actors
  <1>21. CASE DiscoveryRecorded
    BY <1>21 DEF DiscoveryRecorded, Goto, Labels, Actors, Recorded, Dropped
  <1>22. CASE Boots
    BY <1>22 DEF Boots, Goto, Labels, Actors, Importers
  <1>23. CASE ListTargets
    BY <1>23 DEF ListTargets, Goto, Labels, Actors
  <1>24. CASE ListBindings
    BY <1>24 DEF ListBindings, Goto, Labels, Actors
  <1>25. CASE StoreSnapshot
    BY <1>25 DEF StoreSnapshot, Goto, Labels, Actors
  <1>26. CASE Activate
    BY <1>26 DEF Activate, Goto, Labels, Actors
  <1>27. CASE ReadPointer
    <2>1. asked' \in [Sources -> Words]
      BY <1>27 DEF ReadPointer, Words
    <2> QED
      BY <1>27, <2>1 DEF ReadPointer, Goto, Labels, Actors
  <1>27b. CASE Collects
    BY <1>27b DEF Collects, Fetched, Goto, Labels, Actors
  <1>27c. CASE Merges
    BY <1>27c DEF Merges, Goto, Labels, Actors, Rows, Sources, Configs
  <1>28. CASE RefreshEnds
    BY <1>28 DEF RefreshEnds, Goto, Labels, Actors, RefreshCleared, Dropped, Words
  <1>29. CASE RefreshRaises
    BY <1>29 DEF RefreshRaises, Goto, Labels, Actors, RefreshCleared, Dropped,
       Importers, Words
  <1>30. ASSUME NEW snapshot \in snapshots, Rollback(snapshot) PROVE TypeOK'
    BY <1>30 DEF Rollback, Input
  <1>31. ASSUME NEW p \in Profiles, ProfileChanges(p) PROVE TypeOK'
    BY <1>31 DEF ProfileChanges, Input
  <1>32. CASE TimePasses
    <2>1. due' \in [now : BOOLEAN, late : BOOLEAN]
      BY <1>32 DEF TimePasses
    <2> QED
      BY <1>32, <2>1 DEF TimePasses, Input
  <1>33. CASE Follows
    <2>1. due' \in [now : BOOLEAN, late : BOOLEAN]
      BY <1>33 DEF Follows
    <2> QED
      BY <1>33, <2>1 DEF Follows, Input
  <1>34. CASE Crash
    <2>1. toggle' \in [source : Sources \cup {None}, enable : BOOLEAN,
                       todo : SUBSET bound', clean : BOOLEAN]
      BY <1>34 DEF Crash, NoToggle
    <2>2. decision' \in [source : Sources \cup {None}, next : Statuses]
      BY <1>34 DEF Crash, NoDecision, Statuses
    <2>3. /\ at' \in [Actors -> Labels]
          /\ at'[Loop] = "idle" /\ at'[Refresh] = "idle" /\ at'[Observer] = "idle"
      BY <1>34 DEF Crash, Labels, Actors
    <2> QED
      BY <1>34, <2>1, <2>2, <2>3 DEF Crash, RefreshCleared, Dropped, Importers, Words
  <1>36. ASSUME NEW s \in Sources, NEW o \in Observations, Observes(s, o) PROVE TypeOK'
    <2>1. observed' \in [Sources -> Seq(Observations)]
      BY <1>36 DEF Observes
    <2>2. decision' \in [source : Sources \cup {None}, next : Statuses]
          /\ decision'.source # None
      BY <1>36 DEF Observes, Statuses
    <2> QED
      BY <1>36, <2>1, <2>2 DEF Observes, Goto, Input, Labels, Actors
  <1>37. CASE DecidesLifecycle
    BY <1>37, DecidesTyped
  <1>38. CASE Transitions
    BY <1>38, TransitionTyped
  <1>39. CASE UNCHANGED vars
    BY <1>39 DEF vars
  <1> HIDE DEF TypeOK
  <1>40. CASE LoopNext
    BY <1>1, <1>2, <1>3, <1>4, <1>7, <1>40 DEF LoopNext
  <1>41. CASE \E a \in Importers : ImportNext(a)
    BY <1>5, <1>6, <1>41 DEF ImportNext
  <1>42. CASE \E c \in Creators : InboxNext(c)
    BY <1>8, <1>9, <1>10, <1>11, <1>11b, <1>42 DEF InboxNext
  <1>43. CASE DiscoveryNext
    BY <1>12, <1>13, <1>14, <1>15, <1>16, <1>17, <1>17b, <1>18, <1>19, <1>20, <1>21, <1>43
       DEF DiscoveryNext
  <1>44. CASE SnapshotNext
    BY <1>22, <1>23, <1>24, <1>25, <1>26, <1>27, <1>27b, <1>27c, <1>28, <1>29, <1>44
       DEF SnapshotNext
  <1>45. CASE ObserverNext
    BY <1>36, <1>37, <1>38, <1>45 DEF ObserverNext
  <1>46. CASE OutsideNext
    BY <1>30, <1>31, <1>32, <1>33, <1>34, <1>46 DEF OutsideNext
  <1> QED
    BY <1>39, <1>40, <1>41, <1>42, <1>43, <1>44, <1>45, <1>46 DEF Next

\* The types of the catalog, for every choice of the constants.
THEOREM TypeCorrect == Spec => []TypeOK
  BY InitTyped, StepTyped, PTL DEF Spec
-----------------------------------------------------------------------------
(* The last word, and what a refresh collects *)

\* The steps that touch a word, a status or an active row.
LEMMA WordFrame ==
    ASSUME [Next]_vars
    PROVE  \/ UNCHANGED <<word, status, bound, on>>
           \/ \E s \in Sources, enable \in BOOLEAN : ToggleCalled(s, enable)
           \/ ToggleSetsStatus
           \/ ToggleSetsBinding
           \/ \E a \in Importers : Imports(a)
           \/ \E c \in Creators : SubmitTarget(c) \/ SubmitShare(c) \/ SubmitRoute(c)
           \/ AddTarget \/ AddBinding
           \/ Transitions
  <1>1. CASE LoopNext
    BY <1>1 DEF LoopNext, ImportCalled, ImportRaises
  <1>2. CASE \E a \in Importers : ImportNext(a)
    BY <1>2 DEF ImportNext, ImportChecks
  <1>3. CASE \E c \in Creators : InboxNext(c)
    BY <1>3 DEF InboxNext, SubmitCalled, SubmitItem
  <1>4. CASE DiscoveryNext
    BY <1>4 DEF DiscoveryNext, RefreshStarts, Decides, Skips, SearchStarts, SearchDegrades,
       CandidatesFound, CandidatesDone, DiscoveryRecorded, Accepts
  <1>5. CASE SnapshotNext
    BY <1>5 DEF SnapshotNext, Boots, ListTargets, ListBindings, StoreSnapshot, Activate,
       ReadPointer, Collects, Merges, RefreshEnds, RefreshRaises
  <1>6. CASE OutsideNext
    BY <1>6 DEF OutsideNext, Rollback, ProfileChanges, TimePasses, Follows, Crash
  <1>7. CASE ObserverNext
    BY <1>7 DEF ObserverNext, Observes, DecidesLifecycle
  <1>8. CASE UNCHANGED vars
    BY <1>8 DEF vars
  <1> QED
    BY <1>1, <1>2, <1>3, <1>4, <1>5, <1>6, <1>7, <1>8 DEF Next

\* Nothing removes a binding row, or an item from the inbox.
LEMMA RowsGrow ==
    ASSUME [Next]_vars
    PROVE  bound \subseteq bound' /\ shared \subseteq shared'
  <1>1. CASE LoopNext
    BY <1>1 DEF LoopNext, ImportCalled, ImportRaises, ToggleCalled, ToggleSetsStatus,
       ToggleSetsBinding
  <1>2. CASE \E a \in Importers : ImportNext(a)
    BY <1>2 DEF ImportNext, ImportChecks, Imports
  <1>3. CASE \E c \in Creators : InboxNext(c)
    BY <1>3 DEF InboxNext, SubmitCalled, SubmitTarget, SubmitShare, SubmitRoute, SubmitItem,
       AddRow
  <1>4. CASE DiscoveryNext
    BY <1>4 DEF DiscoveryNext, RefreshStarts, Decides, Skips, SearchStarts, SearchDegrades,
       CandidatesFound, Accepts, AddTarget, AddBinding, AddRow, CandidatesDone,
       DiscoveryRecorded
  <1>5. CASE SnapshotNext
    BY <1>5 DEF SnapshotNext, Boots, ListTargets, ListBindings, StoreSnapshot, Activate,
       ReadPointer, Collects, Merges, RefreshEnds, RefreshRaises
  <1>6. CASE OutsideNext
    BY <1>6 DEF OutsideNext, Rollback, ProfileChanges, TimePasses, Follows, Crash
  <1>7. CASE ObserverNext
    BY <1>7 DEF ObserverNext, Observes, DecidesLifecycle, Transitions
  <1>8. CASE UNCHANGED vars
    BY <1>8 DEF vars
  <1> QED
    BY <1>1, <1>2, <1>3, <1>4, <1>5, <1>6, <1>7, <1>8 DEF Next

\* A row that is added leaves a source that had something to fetch with it, and is
\* active if it is new.
LEMMA AddedRow ==
    ASSUME NEW added, NEW s, bound' = bound \cup {added},
           on \subseteq on', added \notin bound => added \in on',
           HasFeed(s) => \E row \in Fetched(on) : row[1] = s
    PROVE  HasFeed(s)' => \E row \in Fetched(on') : row[1] = s
  BY DEF HasFeed, Fetched, RowsOf

\* What an import does to the sources it names, and to the others.
LEMMA ImportsSource ==
    ASSUME TypeOK, NEW a \in Importers, Imports(a), NEW s \in Sources
    PROVE  /\ s \notin Named(a) =>
                 /\ status'[s] = status[s]
                 /\ word'[s] = word[s] /\ asked'[s] = asked[s]
                 /\ \A row : row[1] = s => /\ row \in on' <=> row \in on
                                           /\ row \in bound' <=> row \in bound
           /\ s \in Named(a) =>
                 /\ status'[s] \in {"active", "paused"}
                 /\ asked'[s] = "open"
                 /\ word'[s] = "off" => status'[s] = "paused"
                 /\ word'[s] = "on" => status'[s] = "active"
                 /\ word'[s] = "on" => \E row \in Fetched(on') : row[1] = s
                 /\ s = toggle.source => word'[s] = "open"
  <1>1. ImportSays(a) \in [Sources -> Words]
    BY DEF ImportSays, Words
  <1>2. word \in [Sources -> Words] /\ asked \in [Sources -> Words]
    BY DEF TypeOK
  <1>3. /\ word' \in [Sources -> Words]
        /\ s \in Named(a) => word'[s] = ImportSays(a)[s] /\ asked'[s] = "open"
        /\ s \notin Named(a) => word'[s] = word[s] /\ asked'[s] = asked[s]
    BY <1>1, <1>2, SayTyped DEF Imports
  <1>4. status'[s] = IF s \notin Named(a) THEN status[s]
                     ELSE IF EnabledIn(a, s) THEN "active" ELSE "paused"
    BY DEF Imports
  <1>5. on' = (on \ Superseded(a)) \cup {row \in NewRows(a) : Enabled[row[2]]}
    BY DEF Imports
  <1>5b. bound' = bound \cup NewRows(a)
    BY DEF Imports
  <1>6. CASE s \notin Named(a)
    <2>1. \A row \in Superseded(a) \cup NewRows(a) : row[1] # s
      BY <1>6 DEF Superseded, NewRows, RowOf
    <2> QED
      BY <1>3, <1>4, <1>5, <1>5b, <1>6, <2>1
  <1>7. CASE s \in Named(a)
    <2>1. word'[s] = "off" => ~EnabledIn(a, s)
      BY <1>3, <1>7 DEF ImportSays
    <2>2. word'[s] = "on" => EnabledIn(a, s) /\ RowOf(a, s) \notin bound
      BY <1>3, <1>7 DEF ImportSays
    <2>3. EnabledIn(a, s) /\ RowOf(a, s) \notin bound => RowOf(a, s) \in on'
      BY <1>5, <1>7 DEF NewRows, RowOf, EnabledIn
    <2>4. RowOf(a, s)[1] = s
      BY DEF RowOf
    <2>5. s = toggle.source => word'[s] = "open"
      BY <1>3, <1>7 DEF ImportSays
    <2>6. Connector[RowOf(a, s)[2]] # "inbox"
      <3>1. text[a] \in Versions
        BY SourcesAssumption DEF Imports, TypeOK, Importers
      <3>2. Entry[text[a]][s] \in Entries
        BY <1>7, <3>1, SourcesAssumption DEF Named
      <3> QED
        BY <3>2, SourcesAssumption DEF RowOf, Configs
    <2> QED
      BY <1>3, <1>4, <1>7, <2>1, <2>2, <2>3, <2>4, <2>5, <2>6 DEF Fetched
  <1> QED
    BY <1>3, <1>6, <1>7

LEMMA WordStep ==
    ASSUME TypeOK, Inv, [Next]_vars, NEW s \in Sources
    PROVE  WordHolds(s)'
  <1>1. WordHolds(s) /\ s = toggle.source /\ at[Loop] \in {"toggle", "bindings"}
           => word[s] = "open"
    BY DEF Inv, ToggleHolds
  <1>2. WordHolds(s)
    BY DEF Inv
  <1>3. CASE UNCHANGED <<word, status, bound, on>>
    BY <1>2, <1>3 DEF WordHolds, HasFeed, Fetched, RowsOf
  <1>4. ASSUME NEW t \in Sources, NEW enable \in BOOLEAN, ToggleCalled(t, enable)
        PROVE  WordHolds(s)'
    BY <1>2, <1>4 DEF ToggleCalled, Say, Open, WordHolds, HasFeed, Fetched, RowsOf
  <1>5. CASE ToggleSetsStatus
    <2>1. /\ s # toggle.source => status'[s] = status[s]
          /\ HasFeed(s)' = HasFeed(s) /\ Fetched(on)' = Fetched(on)
      BY <1>5 DEF ToggleSetsStatus, TypeOK, HasFeed, Fetched, RowsOf
    <2>2. CASE toggle.todo = {}
      <3>1. ToggleEnds(FALSE)
        BY <1>5, <2>2 DEF ToggleSetsStatus
      <3>2. word'[s] = IF s # toggle.source THEN word[s] ELSE "open"
        BY <3>1, ToggleEndsTyped
      <3> QED
        BY <1>2, <2>1, <3>2 DEF WordHolds
    <2>3. CASE toggle.todo # {}
      <3>1. UNCHANGED <<toggle, history>>
        BY <1>5, <2>3, Zenon DEF ToggleSetsStatus
      <3>2. at[Loop] = "toggle"
        BY <1>5 DEF ToggleSetsStatus
      <3> QED
        BY <1>1, <1>2, <2>1, <3>1, <3>2 DEF WordHolds
    <2> QED
      BY <2>2, <2>3
  <1>6. CASE ToggleSetsBinding
    <2>1. PICK row \in toggle.todo :
             /\ on' = IF toggle.enable THEN on \cup {row} ELSE on \ {row}
             /\ ToggleGoesOn(row)
      BY <1>6 DEF ToggleSetsBinding
    <2>2. status' = status /\ bound' = bound /\ at[Loop] = "bindings"
      BY <1>6 DEF ToggleSetsBinding
    <2>3. /\ row[1] = toggle.source
          /\ toggle.clean => status[toggle.source] =
                                IF toggle.enable THEN "active" ELSE "paused"
          /\ toggle.clean /\ toggle.enable =>
                RowsOf(toggle.source) \subseteq on \cup toggle.todo
      BY <2>2 DEF Inv, ToggleHolds
    <2>3b. s # toggle.source =>
              /\ HasFeed(s)' = HasFeed(s)
              /\ (\E r \in Fetched(on) : r[1] = s) => \E r \in Fetched(on') : r[1] = s
      BY <2>1, <2>2, <2>3 DEF HasFeed, Fetched, RowsOf
    <2>4. CASE toggle.todo = {row}
      <3>1. ToggleEnds(toggle.clean) /\ toggle.clean \in BOOLEAN
        BY <2>1, <2>4 DEF ToggleGoesOn, TypeOK
      <3>2. word'[s] = IF s # toggle.source THEN word[s]
                       ELSE IF ~toggle.clean THEN "open"
                       ELSE IF toggle.enable THEN "on" ELSE "off"
        BY <3>1, ToggleEndsTyped
      <3>3. CASE s # toggle.source
        BY <1>2, <2>2, <2>3b, <3>2, <3>3 DEF WordHolds
      <3>4. CASE s = toggle.source
        <4>1. toggle.clean /\ toggle.enable => RowsOf(s) \subseteq on'
          BY <2>1, <2>3, <2>4, <3>4
        <4>2. HasFeed(s)' => \E r \in Fetched(RowsOf(s)) : r[1] = s
          BY <2>2 DEF HasFeed, Fetched, RowsOf
        <4>3. toggle.clean /\ toggle.enable /\ HasFeed(s)' =>
                 \E r \in Fetched(on') : r[1] = s
          BY <4>1, <4>2 DEF Fetched
        <4> QED
          BY <2>2, <2>3, <3>2, <3>4, <4>3 DEF WordHolds
      <3> QED
        BY <3>3, <3>4
    <2>5. CASE toggle.todo # {row}
      <3>1. UNCHANGED history
        BY <2>1, <2>5 DEF ToggleGoesOn
      <3> QED
        BY <1>1, <1>2, <2>2, <2>3b, <3>1 DEF WordHolds
    <2> QED
      BY <2>4, <2>5
  <1>7. ASSUME NEW a \in Importers, Imports(a)
        PROVE  WordHolds(s)'
    <2>1. CASE s \notin Named(a)
      <3>1. /\ status'[s] = status[s] /\ word'[s] = word[s]
            /\ \A row : row[1] = s => /\ row \in on' <=> row \in on
                                      /\ row \in bound' <=> row \in bound
        BY <1>7, <2>1, ImportsSource
      <3>2. /\ HasFeed(s)' = HasFeed(s)
            /\ (\E r \in Fetched(on) : r[1] = s) => \E r \in Fetched(on') : r[1] = s
        BY <3>1 DEF HasFeed, Fetched, RowsOf
      <3> QED
        BY <1>2, <3>1, <3>2 DEF WordHolds
    <2>2. CASE s \in Named(a)
      BY <1>7, <2>2, ImportsSource DEF WordHolds
    <2> QED
      BY <2>1, <2>2
  <1>8. ASSUME NEW c \in Creators, SubmitTarget(c) \/ SubmitShare(c) \/ SubmitRoute(c)
        PROVE  WordHolds(s)'
    <2>1. CASE SubmitTarget(c)
      BY <1>2, <2>1 DEF SubmitTarget, AddSource, WordHolds, TypeOK, HasFeed, Fetched, RowsOf
    <2>2. CASE SubmitShare(c)
      <3>1. /\ bound' = bound \cup {<<c, Share>>} /\ on' = on \cup {<<c, Share>>}
            /\ UNCHANGED <<word, status>>
        BY <2>2 DEF SubmitShare
      <3> QED
        BY <1>2, <3>1, AddedRow DEF WordHolds
    <2>3. CASE SubmitRoute(c)
      <3>1. AddRow(<<c, Route>>) /\ UNCHANGED <<word, status>>
        BY <2>3 DEF SubmitRoute
      <3> QED
        BY <1>2, <3>1, AddedRow DEF WordHolds, AddRow
    <2> QED
      BY <1>8, <2>1, <2>2, <2>3
  <1>9. CASE AddTarget
    BY <1>2, <1>9 DEF AddTarget, AddSource, WordHolds, TypeOK, HasFeed, Fetched, RowsOf
  <1>10. CASE AddBinding
    <2>1. AddRow(<<found, Probe>>) /\ UNCHANGED <<word, status>>
      BY <1>10 DEF AddBinding
    <2> QED
      BY <1>2, <2>1, AddedRow DEF WordHolds, AddRow
  <1>11. CASE Transitions
    <2>1. UNCHANGED <<bound, on>>
      BY <1>11 DEF Transitions
    <2>2. /\ s # decision.source => status'[s] = status[s] /\ word'[s] = word[s]
          /\ s = decision.source => word'[s] \in {"none", "open"}
      BY <1>11, TransitionSays
    <2> QED
      BY <1>2, <2>1, <2>2 DEF WordHolds, HasFeed, Fetched, RowsOf
  <1> QED
    BY <1>3, <1>4, <1>5, <1>6, <1>7, <1>8, <1>9, <1>10, <1>11, WordFrame

\* The steps that touch where the event loop is, or its toggle.
LEMMA ToggleFrame ==
    ASSUME TypeOK, [Next]_vars
    PROVE  \/ at'[Loop] = at[Loop] /\ UNCHANGED <<word, status, bound, on, toggle>>
           \/ at'[Loop] \notin {"toggle", "bindings"}
           \/ \E s \in Sources, enable \in BOOLEAN : ToggleCalled(s, enable)
           \/ ToggleSetsStatus
           \/ ToggleSetsBinding
           \/ Imports(Refresh)
           \/ \E c \in Creators : SubmitTarget(c) \/ SubmitShare(c) \/ SubmitRoute(c)
           \/ AddTarget \/ AddBinding
           \/ Transitions
  <1> USE SourcesAssumption
  <1>1. at \in [Actors -> Labels] /\ Loop \in Actors
    BY DEF TypeOK, Actors
  <1>2. CASE LoopNext
    BY <1>1, <1>2 DEF LoopNext, ImportCalled, ImportRaises, Goto
  <1>3. CASE \E a \in Importers : ImportNext(a)
    BY <1>1, <1>3 DEF ImportNext, ImportChecks, Imports, ImportDone, Goto, Importers
  <1>4. CASE \E c \in Creators : InboxNext(c)
    BY <1>1, <1>4 DEF InboxNext, SubmitCalled, SubmitItem, Goto
  <1>5. CASE DiscoveryNext
    BY <1>1, <1>5 DEF DiscoveryNext, RefreshStarts, Decides, Skips, SearchStarts,
       SearchDegrades,
       CandidatesFound, Accepts, CandidatesDone, DiscoveryRecorded, Recorded, Goto
  <1>6. CASE SnapshotNext
    BY <1>1, <1>6 DEF SnapshotNext, Boots, ListTargets, ListBindings, StoreSnapshot, Activate,
       ReadPointer, Collects, Merges, RefreshEnds, RefreshRaises, Goto
  <1>7. CASE OutsideNext
    BY <1>1, <1>7 DEF OutsideNext, Rollback, ProfileChanges, TimePasses, Follows, Crash
  <1>8. CASE ObserverNext
    BY <1>1, <1>8 DEF ObserverNext, Observes, DecidesLifecycle, Goto
  <1>9. CASE UNCHANGED vars
    BY <1>9 DEF vars
  <1> QED
    BY <1>2, <1>3, <1>4, <1>5, <1>6, <1>7, <1>8, <1>9 DEF Next

LEMMA ToggleStep ==
    ASSUME TypeOK, Inv, [Next]_vars
    PROVE  ToggleHolds'
  <1> USE SourcesAssumption
  <1>1. /\ at \in [Actors -> Labels] /\ Loop \in Actors
        /\ at[Loop] \in {"toggle", "bindings"} => toggle.source \in Sources
        /\ ToggleHolds
    BY DEF TypeOK, Actors, Inv
  <1>2. CASE at'[Loop] = at[Loop] /\ UNCHANGED <<word, status, bound, on, toggle>>
    BY <1>1, <1>2 DEF ToggleHolds, RowsOf
  <1>3. CASE at'[Loop] \notin {"toggle", "bindings"}
    BY <1>3 DEF ToggleHolds
  <1>4. ASSUME NEW s \in Sources, NEW enable \in BOOLEAN, ToggleCalled(s, enable)
        PROVE  ToggleHolds'
    <2>1. word'[s] = "open" /\ at'[Loop] = "toggle" /\ UNCHANGED status
      BY <1>1, <1>4 DEF ToggleCalled, Say, Open, Goto
    <2>2. /\ toggle'.source = s /\ toggle'.todo = RowsOf(s) /\ status[s] # "absent"
          /\ bound' = bound
      BY <1>4 DEF ToggleCalled
    <2> QED
      BY <2>1, <2>2 DEF ToggleHolds, RowsOf
  <1>5. CASE ToggleSetsStatus
    <2>1. CASE toggle.todo = {}
      <3>1. ToggleEnds(FALSE)
        BY <1>5, <2>1 DEF ToggleSetsStatus
      <3>2. at'[Loop] = "idle"
        BY <3>1, ToggleEndsTyped
      <3> QED
        BY <3>2 DEF ToggleHolds
    <2>2. CASE toggle.todo # {}
      <3>1. UNCHANGED <<toggle, history>>
        BY <1>5, <2>2, Zenon DEF ToggleSetsStatus
      <3>2. at[Loop] = "toggle" /\ status' = [status EXCEPT ![toggle.source] =
               IF toggle.enable THEN "active" ELSE "paused"]
        BY <1>5 DEF ToggleSetsStatus
      <3>3. status'[toggle.source] = IF toggle.enable THEN "active" ELSE "paused"
        BY <1>1, <3>2 DEF TypeOK
      <3>4. UNCHANGED <<bound, on>>
        BY <1>5 DEF ToggleSetsStatus
      <3> QED
        BY <1>1, <3>1, <3>2, <3>3, <3>4 DEF ToggleHolds, RowsOf
    <2> QED
      BY <2>1, <2>2
  <1>6. CASE ToggleSetsBinding
    <2>1. PICK row \in toggle.todo :
             /\ on' = IF toggle.enable THEN on \cup {row} ELSE on \ {row}
             /\ ToggleGoesOn(row)
      BY <1>6 DEF ToggleSetsBinding
    <2>2. status' = status /\ bound' = bound /\ at[Loop] = "bindings"
      BY <1>6 DEF ToggleSetsBinding
    <2>3. CASE toggle.todo = {row}
      <3>1. ToggleEnds(toggle.clean) /\ toggle.clean \in BOOLEAN
        BY <2>1, <2>3 DEF ToggleGoesOn, TypeOK
      <3>2. at'[Loop] = "idle"
        BY <3>1, ToggleEndsTyped
      <3> QED
        BY <3>2 DEF ToggleHolds
    <2>4. CASE toggle.todo # {row}
      <3>1. toggle' = [toggle EXCEPT !.todo = @ \ {row}] /\ UNCHANGED <<at, history>>
        BY <2>1, <2>4 DEF ToggleGoesOn
      <3>2. /\ toggle'.source = toggle.source /\ toggle'.todo = toggle.todo \ {row}
            /\ toggle'.clean = toggle.clean /\ toggle'.enable = toggle.enable
        BY <3>1 DEF TypeOK
      <3>3. RowsOf(toggle.source)' = RowsOf(toggle.source)
        BY <2>2, <3>2 DEF RowsOf
      <3>4. toggle'.clean /\ toggle'.enable =>
               RowsOf(toggle.source)' \subseteq on' \cup toggle'.todo
        BY <1>1, <2>1, <2>2, <3>2, <3>3 DEF ToggleHolds
      <3> QED
        BY <1>1, <2>2, <3>1, <3>2, <3>4 DEF ToggleHolds
    <2> QED
      BY <2>3, <2>4
  <1>7. CASE Imports(Refresh)
    <2>1. at'[Loop] = at[Loop]
      BY <1>1, <1>7 DEF Imports, ImportDone, Goto
    <2>2. /\ toggle'.source = toggle.source /\ toggle'.todo = toggle.todo
          /\ toggle'.enable = toggle.enable
          /\ toggle'.clean => toggle.clean /\ toggle.source \notin Named(Refresh)
      BY <1>7 DEF Imports, TypeOK
    <2>3. CASE at[Loop] \in {"toggle", "bindings"}
      <3>1. toggle.source \in Sources /\ word[toggle.source] = "open"
            /\ status[toggle.source] # "absent"
        BY <1>1, <2>3 DEF ToggleHolds
      <3>2. word'[toggle.source] = "open"
        BY <1>7, <3>1, ImportsSource DEF Importers
      <3>3. /\ status'[toggle.source] # "absent"
            /\ toggle.source \notin Named(Refresh) =>
                  status'[toggle.source] = status[toggle.source]
        BY <1>7, <3>1 DEF Imports
      <3>4. toggle.source \notin Named(Refresh) =>
               \A row : row[1] = toggle.source => /\ row \in on' <=> row \in on
                                                  /\ row \in bound' <=> row \in bound
        BY <1>7, <3>1, ImportsSource DEF Importers
      <3>5. toggle'.clean /\ toggle'.enable =>
               RowsOf(toggle.source)' \subseteq on' \cup toggle'.todo
        BY <1>1, <2>2, <2>3, <3>4 DEF ToggleHolds, RowsOf
      <3> QED
        BY <1>1, <2>1, <2>2, <2>3, <3>2, <3>3, <3>5 DEF ToggleHolds
    <2> QED
      BY <2>1, <2>3 DEF ToggleHolds
  <1>8. ASSUME at'[Loop] = at[Loop], UNCHANGED <<word, toggle, bound, on>>,
               NEW added \in Sources, NEW initial, AddSource(added, initial)
        PROVE  ToggleHolds'
    <2>1. \A s \in Sources : status[s] # "absent" => status'[s] = status[s]
      BY <1>8 DEF AddSource, TypeOK
    <2> QED
      BY <1>1, <1>8, <2>1 DEF ToggleHolds, RowsOf
  <1>9. ASSUME at'[Loop] = at[Loop], UNCHANGED <<word, toggle, status>>,
               NEW added, bound' = bound \cup {added}, on \subseteq on',
               added \notin bound => added \in on'
        PROVE  ToggleHolds'
    <2>1. toggle.clean /\ toggle.enable /\ at[Loop] \in {"toggle", "bindings"} =>
             RowsOf(toggle.source)' \subseteq on' \cup toggle.todo
      BY <1>1, <1>9 DEF ToggleHolds, RowsOf
    <2> QED
      BY <1>1, <1>9, <2>1 DEF ToggleHolds
  <1>10. ASSUME NEW c \in Creators, SubmitTarget(c) \/ SubmitShare(c) \/ SubmitRoute(c)
         PROVE  ToggleHolds'
    <2>1. at'[Loop] = at[Loop] /\ c \in Sources /\ UNCHANGED <<word, toggle>>
      BY <1>1, <1>10 DEF SubmitTarget, SubmitShare, SubmitRoute, Goto, Sources
    <2>2. CASE SubmitTarget(c)
      BY <1>8, <2>1, <2>2 DEF SubmitTarget
    <2>3. CASE SubmitShare(c)
      BY <1>9, <2>1, <2>3 DEF SubmitShare
    <2>4. CASE SubmitRoute(c)
      BY <1>9, <2>1, <2>4 DEF SubmitRoute, AddRow
    <2> QED
      BY <1>10, <2>2, <2>3, <2>4
  <1>11. CASE AddTarget
    <2>1. /\ at'[Loop] = at[Loop] /\ found \in Sources
          /\ UNCHANGED <<word, toggle, bound, on>> /\ AddSource(found, "probation")
      BY <1>1, <1>11 DEF AddTarget, Goto, TypeOK, Sources
    <2> QED
      BY <1>8, <2>1
  <1>12. CASE AddBinding
    BY <1>1, <1>9, <1>12 DEF AddBinding, AddRow, Goto
  <1>13. CASE Transitions
    <2>1. at'[Loop] = at[Loop] /\ UNCHANGED <<bound, on>>
      BY <1>1, <1>13 DEF Transitions, Goto
    <2>2. /\ toggle'.source = toggle.source /\ toggle'.todo = toggle.todo
          /\ toggle'.enable = toggle.enable
          /\ toggle'.clean => toggle.clean /\ toggle.source # decision.source
      BY <1>13 DEF Transitions, TypeOK
    <2>3. /\ decision.source \in Sources /\ decision.next \in Statuses \ {"absent"}
          /\ status' = [status EXCEPT ![decision.source] = decision.next]
          /\ word'[decision.source] = IF word[decision.source] = "none" THEN "none"
                                      ELSE "open"
          /\ \A s \in Sources : s # decision.source =>
                status'[s] = status[s] /\ word'[s] = word[s]
      BY <1>13, TransitionSays
    <2>4. status'[decision.source] = decision.next
      BY <2>3 DEF TypeOK
    <2> QED
      BY <1>1, <2>1, <2>2, <2>3, <2>4 DEF ToggleHolds, RowsOf
  <1> QED
    BY <1>2, <1>3, <1>4, <1>5, <1>6, <1>7, <1>10, <1>11, <1>12, <1>13, ToggleFrame

\* Something new may be said of some sources, which the refresh did not ask for.
Unasked == \A s \in Sources : \/ asked'[s] = "open"
                              \/ asked'[s] = asked[s] /\ word'[s] = word[s]
\* The refresh keeps what it has drawn.
Kept == UNCHANGED <<goal, listed, drawn>>

\* Where the refresh holds what it looked for.
Looking == {"draw", "store", "activate", "collect", "ingest", "ingested"}

\* Where the refresh, what it draws, and what it asked may go.
LEMMA LookFrame ==
    ASSUME TypeOK, [Next]_vars
    PROVE  \/ Kept /\ at'[Refresh] = at[Refresh] /\ Unasked
           \/ /\ Kept /\ Unasked
              /\ at'[Refresh] \notin Looking
           \/ goal' # "resolve"
           \/ ListTargets \/ ListBindings \/ StoreSnapshot \/ Activate \/ ReadPointer
           \/ Collects \/ Merges
  <1> USE SourcesAssumption DEF Looking
  <1>1. at \in [Actors -> Labels] /\ {Loop, Refresh} \subseteq Actors /\ Loop # Refresh
    BY DEF TypeOK, Actors
  <1>2. ASSUME NEW s \in Sources, NEW enable \in BOOLEAN, ToggleCalled(s, enable)
        PROVE  Kept /\ at'[Refresh] = at[Refresh] /\ Unasked
    BY <1>1, <1>2 DEF ToggleCalled, Say, Kept, Unasked, Goto
  <1>3. CASE ToggleSetsStatus
    <2>1. Kept
      BY <1>3 DEF ToggleSetsStatus, Kept
    <2>2. CASE toggle.todo = {}
      <3>1. ToggleEnds(FALSE)
        BY <1>3, <2>2 DEF ToggleSetsStatus
      <3>2. at'[Refresh] = at[Refresh] /\ Unasked
        BY <1>1, <3>1, ToggleEndsTyped DEF Unasked
      <3> QED
        BY <2>1, <3>2
    <2>3. CASE toggle.todo # {}
      <3>1. Goto(Loop, "bindings") /\ UNCHANGED <<toggle, history>>
        BY <1>3, <2>3, Zenon DEF ToggleSetsStatus
      <3> QED
        BY <1>1, <2>1, <3>1 DEF Goto, Unasked
    <2> QED
      BY <2>2, <2>3
  <1>4. CASE ToggleSetsBinding
    <2>1. Kept
      BY <1>4 DEF ToggleSetsBinding, Kept
    <2>2. PICK row \in toggle.todo : ToggleGoesOn(row)
      BY <1>4 DEF ToggleSetsBinding
    <2>3. CASE toggle.todo = {row}
      <3>1. ToggleEnds(toggle.clean) /\ toggle.clean \in BOOLEAN
        BY <2>2, <2>3 DEF ToggleGoesOn, TypeOK
      <3>2. at'[Refresh] = at[Refresh] /\ Unasked
        BY <1>1, <3>1, ToggleEndsTyped DEF Unasked
      <3> QED
        BY <2>1, <3>2
    <2>4. CASE toggle.todo # {row}
      <3>1. UNCHANGED <<at, history>>
        BY <2>2, <2>4 DEF ToggleGoesOn
      <3> QED
        BY <2>1, <3>1 DEF Unasked
    <2> QED
      BY <2>3, <2>4
  <1>5. CASE LoopNext
    <2>1. ASSUME NEW v \in Versions, ImportCalled(v)
          PROVE  Kept /\ at'[Refresh] = at[Refresh] /\ Unasked
      BY <1>1, <2>1 DEF ImportCalled, Goto, Kept, Unasked
    <2>2. ASSUME ImportRaises
          PROVE  Kept /\ at'[Refresh] = at[Refresh] /\ Unasked
      BY <1>1, <2>2 DEF ImportRaises, Goto, Kept, Unasked
    <2> QED
      BY <1>2, <1>3, <1>4, <1>5, <2>1, <2>2 DEF LoopNext
  <1>6. ASSUME NEW a \in Importers, ImportNext(a)
        PROVE  \/ Kept /\ at'[Refresh] = at[Refresh] /\ Unasked
               \/ /\ Kept /\ Unasked
                  /\ at'[Refresh] \notin Looking
               \/ goal' # "resolve"
    <2>1. CASE ImportChecks(a)
      BY <1>1, <2>1 DEF ImportChecks, ImportDone, Goto, Importers, Kept, Unasked
    <2>2. CASE Imports(a)
      <3>1. Unasked
        BY <2>2, ImportsSource DEF Unasked
      <3>2. (Kept /\ at'[Refresh] = at[Refresh]) \/ goal' = "migration"
        BY <1>1, <2>2 DEF Imports, ImportDone, Goto, Importers, Kept
      <3> QED
        BY <3>1, <3>2
    <2> QED
      BY <1>6, <2>1, <2>2 DEF ImportNext
  <1>7. ASSUME NEW c \in Creators, InboxNext(c)
        PROVE  Kept /\ at'[Refresh] = at[Refresh] /\ Unasked
    BY <1>1, <1>7 DEF InboxNext, SubmitCalled, SubmitTarget, SubmitShare, SubmitRoute,
       SubmitItem, Goto,
       Kept, Unasked
  <1>8. CASE DiscoveryNext
    BY <1>1, <1>8 DEF DiscoveryNext, RefreshStarts, Decides, Skips, SearchStarts,
       SearchDegrades, CandidatesFound, Accepts, AddTarget, AddBinding, CandidatesDone,
       DiscoveryRecorded, Recorded, Dropped, Goto, Kept, Unasked
  <1>9. CASE SnapshotNext
    BY <1>1, <1>9 DEF SnapshotNext, Boots, RefreshEnds, RefreshRaises, RefreshCleared, Dropped,
       Goto, Kept, Unasked
  <1>10. CASE OutsideNext
    BY <1>10 DEF OutsideNext, Rollback, ProfileChanges, TimePasses, Follows, Crash,
       RefreshCleared, Dropped, Kept, Unasked
  <1>11. CASE ObserverNext
    <2>1. CASE Transitions
      BY <1>1, <2>1, TransitionSays DEF Transitions, Goto, Kept, Unasked
    <2> QED
      BY <1>1, <1>11, <2>1 DEF ObserverNext, Observes, DecidesLifecycle, Goto, Kept, Unasked
  <1>12. CASE UNCHANGED vars
    BY <1>12 DEF vars, Kept, Unasked
  <1> QED
    BY <1>5, <1>6, <1>7, <1>8, <1>9, <1>10, <1>11, <1>12 DEF Next

LEMMA LookStep ==
    ASSUME TypeOK, Inv, [Next]_vars, NEW s \in Sources
    PROVE  LookHolds(s)'
  <1>1. /\ at \in [Actors -> Labels] /\ Refresh \in Actors
        /\ LookHolds(s) /\ WordHolds(s)
    BY DEF TypeOK, Actors, Inv
  <1>2. /\ HasFeed(s) => HasFeed(s)'
        /\ s \in shared => s \in shared'
    BY RowsGrow DEF HasFeed, Fetched, RowsOf
  <1>3. Fetched(drawn)' = Fetched(drawn')
    BY DEF Fetched
  <1>4. CASE Kept /\ at'[Refresh] = at[Refresh] /\ Unasked
    <2>1. drawn' = drawn /\ Fetched(drawn') = Fetched(drawn)
      BY <1>4 DEF Kept
    <2> QED
      BY <1>1, <1>2, <1>3, <1>4, <2>1 DEF Kept, Unasked, LookHolds
  <1>5. CASE Kept /\ Unasked /\ at'[Refresh] \notin Looking
    BY <1>1, <1>2, <1>5 DEF Kept, Unasked, LookHolds, Looking
  <1>6. CASE goal' # "resolve"
    BY <1>6 DEF LookHolds
  <1>7. CASE ListTargets
    <2>1. /\ at'[Refresh] = "draw" /\ UNCHANGED <<goal, word, asked>>
          /\ s \in listed' <=> status[s] \in {"active", "probation"}
      BY <1>1, <1>7 DEF ListTargets, Goto
    <2> QED
      BY <1>1, <1>2, <2>1 DEF LookHolds, WordHolds
  <1>8. CASE ListBindings
    <2>1. /\ at[Refresh] = "draw" /\ at'[Refresh] = "store"
          /\ UNCHANGED <<goal, word, asked>>
          /\ drawn' = {row \in on : row[1] \in listed}
      BY <1>1, <1>8 DEF ListBindings, Goto
    <2>2. ASSUME goal = "resolve", asked[s] = "on"
          PROVE  \E row \in Fetched(drawn') : row[1] = s
      <3>1. s \in listed /\ word[s] = "on" /\ HasFeed(s)
        BY <1>1, <2>1, <2>2 DEF LookHolds
      <3>2. PICK row \in Fetched(on) : row[1] = s
        BY <1>1, <3>1 DEF WordHolds
      <3> QED
        BY <2>1, <3>1, <3>2 DEF Fetched
    <2>3. goal = "resolve" /\ asked[s] = "off" => \A row \in drawn' : row[1] # s
      BY <1>1, <2>1 DEF LookHolds
    <2> QED
      BY <1>1, <1>2, <1>3, <2>1, <2>2, <2>3 DEF LookHolds
  <1>9. CASE StoreSnapshot
    <2>1. /\ at[Refresh] = "store" /\ at'[Refresh] \notin {"draw", "ingested"}
          /\ UNCHANGED <<goal, word, asked, drawn>>
      BY <1>1, <1>9 DEF StoreSnapshot, Goto
    <2> QED
      BY <1>1, <1>2, <1>3, <2>1 DEF LookHolds
  <1>10. CASE Activate
    <2>1. /\ at[Refresh] = "activate" /\ at'[Refresh] \notin {"draw", "ingested"}
          /\ UNCHANGED <<goal, word, asked, drawn>>
      BY <1>1, <1>10 DEF Activate, Goto
    <2> QED
      BY <1>1, <1>2, <1>3, <2>1 DEF LookHolds
  <1>11. CASE ReadPointer
    <2>1. UNCHANGED word
      BY <1>11 DEF ReadPointer
    <2>2. \/ goal' = "pinned"
          \/ /\ at'[Refresh] = "list"
             /\ asked'[s] = IF word[s] = "on" /\ ~HasFeed(s) THEN "open" ELSE word[s]
      BY <1>1, <1>11 DEF ReadPointer, Goto
    <2> QED
      BY <1>2, <2>1, <2>2 DEF LookHolds
  <1>12. CASE Collects
    <2>1. /\ at[Refresh] = "collect" /\ at'[Refresh] = "ingest"
          /\ UNCHANGED <<goal, word, asked>> /\ drawn' = Fetched(drawn)
      BY <1>1, <1>12 DEF Collects, Goto
    <2>2. Fetched(drawn') = Fetched(drawn) /\ drawn' \subseteq drawn
      BY <2>1 DEF Fetched
    <2> QED
      BY <1>1, <1>2, <1>3, <2>1, <2>2 DEF LookHolds
  <1>13. CASE Merges
    <2>1. /\ at[Refresh] = "ingest" /\ at'[Refresh] = "ingested"
          /\ UNCHANGED <<goal, word, asked, shared>>
          /\ drawn' = drawn \cup {<<c, Share>> : c \in shared}
      BY <1>1, <1>13 DEF Merges, Goto
    <2>2. Fetched(drawn) \subseteq Fetched(drawn')
      BY <2>1 DEF Fetched
    <2>3. \A row \in drawn' \ drawn : row[1] = s => row[2] = Share /\ s \in shared
      BY <2>1
    <2>4. goal = "resolve" /\ asked[s] = "off" =>
             \A row \in drawn' : row[1] = s => row[2] = Share /\ s \in shared
      BY <1>1, <2>1, <2>3 DEF LookHolds
    <2>5. goal = "resolve" /\ asked[s] = "on" => \E row \in Fetched(drawn') : row[1] = s
      BY <1>1, <2>1, <2>2 DEF LookHolds
    <2> QED
      BY <1>1, <1>2, <1>3, <2>1, <2>4, <2>5 DEF LookHolds
  <1> QED
    BY <1>4, <1>5, <1>6, <1>7, <1>8, <1>9, <1>10, <1>11, <1>12, <1>13, LookFrame

\* The inductive invariant holds.
THEOREM InvHolds == Spec => []Inv
  <1>1. Init => Inv
    BY SourcesAssumption DEF Init, Inv, WordHolds, ToggleHolds, LookHolds, Actors
  <1>2. TypeOK /\ Inv /\ [Next]_vars => Inv'
    BY WordStep, ToggleStep, LookStep DEF Inv
  <1> QED
    BY <1>1, <1>2, TypeCorrect, PTL DEF Spec

\* What the user last said of a source decides whether it can be collected.
THEOREM LastWordStands == Spec => []LastWordHolds
  <1>1. Inv => LastWordHolds
    BY DEF Inv, WordHolds, LastWordHolds, Collectable
  <1> QED
    BY <1>1, InvHolds, PTL

\* A refresh without a pin collects what the user last asked for.
THEOREM CollectionAgrees == Spec => []CollectedAgrees
  <1>1. Inv => CollectedAgrees
    BY DEF Inv, LookHolds, CollectedAgrees
  <1> QED
    BY <1>1, InvHolds, PTL

-----------------------------------------------------------------------------
(* Who makes a source active, and what discovery has searched for *)

\* A source is active by the user's word or by its observations, and so is one
\* that is about to be.
Promoted(s) ==
    /\ status[s] = "active" => word[s] # "none" \/ Earned(s)
    /\ at[Observer] = "transition" /\ decision.source = s /\ decision.next = "active"
          => Earned(s)

\* The steps that touch what observers do.
LEMMA ObserverFrame ==
    ASSUME TypeOK, [Next]_vars
    PROVE  \/ UNCHANGED <<observed, decision>> /\ at'[Observer] = at[Observer]
           \/ UNCHANGED observed /\ at'[Observer] = "idle"
           \/ \E s \in Sources, o \in Observations : Observes(s, o)
           \/ DecidesLifecycle
  <1> USE SourcesAssumption
  <1>1. /\ at \in [Actors -> Labels] /\ {Loop, Refresh, Observer} \subseteq Actors
        /\ Observer \notin {Loop, Refresh} \cup Creators
    BY DEF TypeOK, Actors
  <1>2. CASE LoopNext
    BY <1>1, <1>2 DEF LoopNext, ImportCalled, ImportRaises, ToggleCalled, ToggleSetsStatus,
       ToggleSetsBinding, ToggleGoesOn, ToggleEnds, Goto
  <1>3. CASE \E a \in Importers : ImportNext(a)
    BY <1>1, <1>3 DEF ImportNext, ImportChecks, Imports, ImportDone, Goto, Importers
  <1>4. CASE \E c \in Creators : InboxNext(c)
    BY <1>1, <1>4 DEF InboxNext, SubmitCalled, SubmitTarget, SubmitShare, SubmitRoute,
       SubmitItem, Goto
  <1>5. CASE DiscoveryNext
    BY <1>1, <1>5 DEF DiscoveryNext, RefreshStarts, Decides, Skips, SearchStarts,
       SearchDegrades, CandidatesFound, Accepts, AddTarget, AddBinding, CandidatesDone,
       DiscoveryRecorded, Recorded, Goto
  <1>6. CASE SnapshotNext
    BY <1>1, <1>6 DEF SnapshotNext, Boots, ListTargets, ListBindings, StoreSnapshot,
       Activate, ReadPointer, Collects, Merges, RefreshEnds, RefreshRaises, Goto
  <1>7. CASE OutsideNext
    BY <1>1, <1>7 DEF OutsideNext, Rollback, ProfileChanges, TimePasses, Follows, Crash
  <1>8. CASE ObserverNext
    BY <1>1, <1>8 DEF ObserverNext, Transitions, Goto
  <1>9. CASE UNCHANGED vars
    BY <1>9 DEF vars
  <1> QED
    BY <1>2, <1>3, <1>4, <1>5, <1>6, <1>7, <1>8, <1>9 DEF Next

\* Observations are only added, and what is decided to be active has earned it.
LEMMA EarnedStep ==
    ASSUME TypeOK, [Next]_vars, NEW s \in Sources
    PROVE  /\ Earned(s) => Earned(s)'
           /\ at[Observer] # "transition" /\ at'[Observer] = "transition"
                 /\ decision'.source = s /\ decision'.next = "active" => Earned(s)'
  <1>1. at \in [Actors -> Labels] /\ Observer \in Actors /\ observed[s] \in Seq(Observations)
    BY DEF TypeOK, Actors
  <1>2. CASE UNCHANGED <<observed, decision>> /\ at'[Observer] = at[Observer]
    BY <1>2 DEF Earned
  <1>3. CASE UNCHANGED observed /\ at'[Observer] = "idle"
    BY <1>3 DEF Earned
  <1>4. ASSUME NEW t \in Sources, NEW o \in Observations, Observes(t, o)
        PROVE  at'[Observer] # "transition" /\ (Earned(s) => Earned(s)')
    <2>1. at'[Observer] = "observed"
      BY <1>1, <1>4 DEF Observes, Goto
    <2>2. observed'[s] = IF s = t THEN Append(observed[s], o) ELSE observed[s]
      BY <1>4 DEF Observes, TypeOK
    <2>3. /\ DOMAIN observed[s] \subseteq DOMAIN Append(observed[s], o)
          /\ \A i \in DOMAIN observed[s] : Append(observed[s], o)[i] = observed[s][i]
      BY <1>1
    <2>4. /\ DOMAIN observed[s] \subseteq DOMAIN observed'[s]
          /\ \A i \in DOMAIN observed[s] : observed'[s][i] = observed[s][i]
      BY <2>2, <2>3
    <2> QED
      BY <2>1, <2>4 DEF Earned
  <1>5. CASE DecidesLifecycle
    <2>1. observed' = observed
      BY <1>5 DEF DecidesLifecycle
    <2>2. ASSUME at'[Observer] = "transition", decision'.source = s,
                 decision'.next = "active"
          PROVE  Earned(s)'
      <3>1. /\ Decided(decision.source) # status[decision.source]
            /\ decision' = [decision EXCEPT !.next = Decided(decision.source)]
        BY <1>1, <1>5, <2>2 DEF DecidesLifecycle, Goto
      <3>2. decision.source = s /\ Decided(s) = "active" /\ Decided(s) # status[s]
        BY <2>2, <3>1 DEF TypeOK
      <3>3. WorthKeeping(s)
        BY <3>2 DEF Decided
      <3> QED
        BY <2>1, <3>3 DEF WorthKeeping, Recent, Earned
    <2> QED
      BY <2>1, <2>2 DEF Earned
  <1> QED
    BY <1>2, <1>3, <1>4, <1>5, ObserverFrame

LEMMA PromotedStep ==
    ASSUME TypeOK, Inv, [Next]_vars, NEW s \in Sources, Promoted(s)
    PROVE  Promoted(s)'
  <1>1. Earned(s) => Earned(s)'
    BY EarnedStep
  <1>2. at[Observer] = "transition" /\ at'[Observer] = "transition" => decision' = decision
    <2>1. at \in [Actors -> Labels] /\ Observer \in Actors
      BY DEF TypeOK, Actors
    <2> QED
      BY <2>1, ObserverFrame DEF Observes, DecidesLifecycle, Goto
  <1>3. /\ at'[Observer] = "transition" /\ decision'.source = s /\ decision'.next = "active"
              => Earned(s)'
    BY <1>1, <1>2, EarnedStep DEF Promoted
  <1> SUFFICES ASSUME status'[s] = "active"
               PROVE  word'[s] # "none" \/ Earned(s)'
    BY <1>3 DEF Promoted
  <1>4. CASE UNCHANGED <<word, status, bound, on>>
    BY <1>1, <1>4 DEF Promoted
  <1>5. ASSUME NEW t \in Sources, NEW enable \in BOOLEAN, ToggleCalled(t, enable)
        PROVE  word'[s] # "none" \/ Earned(s)'
    BY <1>1, <1>5 DEF ToggleCalled, Say, Open, Promoted
  <1>6. CASE ToggleSetsStatus
    <2>1. /\ s # toggle.source => status'[s] = status[s]
          /\ word[toggle.source] = "open"
      BY <1>6 DEF ToggleSetsStatus, TypeOK, Inv, ToggleHolds
    <2>2. CASE toggle.todo = {}
      <3>1. ToggleEnds(FALSE)
        BY <1>6, <2>2 DEF ToggleSetsStatus
      <3>2. word'[s] = IF s # toggle.source THEN word[s] ELSE "open"
        BY <3>1, ToggleEndsTyped
      <3> QED
        BY <1>1, <2>1, <3>2 DEF Promoted
    <2>3. CASE toggle.todo # {}
      <3>1. UNCHANGED <<toggle, history>>
        BY <1>6, <2>3, Zenon DEF ToggleSetsStatus
      <3> QED
        BY <1>1, <2>1, <3>1 DEF Promoted
    <2> QED
      BY <2>2, <2>3
  <1>7. CASE ToggleSetsBinding
    <2>1. PICK row \in toggle.todo : ToggleGoesOn(row)
      BY <1>7 DEF ToggleSetsBinding
    <2>2. status' = status
      BY <1>7 DEF ToggleSetsBinding
    <2>3. CASE toggle.todo = {row}
      <3>1. ToggleEnds(toggle.clean) /\ toggle.clean \in BOOLEAN
        BY <2>1, <2>3 DEF ToggleGoesOn, TypeOK
      <3>2. word'[s] = word[s] \/ word'[s] \in {"open", "on", "off"}
        BY <3>1, ToggleEndsTyped
      <3> QED
        BY <1>1, <2>2, <3>2 DEF Promoted
    <2>4. CASE toggle.todo # {row}
      BY <1>1, <2>1, <2>2, <2>4 DEF ToggleGoesOn, Promoted
    <2> QED
      BY <2>3, <2>4
  <1>8. ASSUME NEW a \in Importers, Imports(a)
        PROVE  word'[s] # "none" \/ Earned(s)'
    <2>1. Say(Named(a), ImportSays(a))
      BY <1>8 DEF Imports
    <2>2. s \in Named(a) => word'[s] \in {"open", "on", "off"}
      BY <2>1 DEF Say, ImportSays
    <2>3. s \notin Named(a) => word'[s] = word[s] /\ status'[s] = status[s]
      BY <1>8, ImportsSource
    <2> QED
      BY <1>1, <2>2, <2>3 DEF Promoted
  <1>9. ASSUME NEW c \in Creators, SubmitTarget(c) \/ SubmitShare(c) \/ SubmitRoute(c)
        PROVE  word'[s] # "none" \/ Earned(s)'
    BY <1>1, <1>9 DEF SubmitTarget, SubmitShare, SubmitRoute, AddSource, Promoted, TypeOK
  <1>10. CASE AddTarget
    BY <1>1, <1>10 DEF AddTarget, AddSource, Promoted, TypeOK
  <1>11. CASE AddBinding
    BY <1>1, <1>11 DEF AddBinding, Promoted
  <1>12. CASE Transitions
    <2>1. /\ status' = [status EXCEPT ![decision.source] = decision.next]
          /\ s # decision.source => word'[s] = word[s] /\ status'[s] = status[s]
      BY <1>12, TransitionSays
    <2>2. s = decision.source => decision.next = "active"
      BY <2>1 DEF TypeOK
    <2>3. at[Observer] = "transition"
      BY <1>12 DEF Transitions
    <2> QED
      BY <1>1, <2>1, <2>2, <2>3 DEF Promoted
  <1> QED
    BY <1>4, <1>5, <1>6, <1>7, <1>8, <1>9, <1>10, <1>11, <1>12, WordFrame

\* Neither discovery nor the inbox makes a source active: whatever is active was
\* imported or switched by the user, or two observations of it succeeded.
THEOREM PromotionIsEverEarned == Spec => []PromotionIsEarned
  <1> DEFINE AllPromoted == \A s \in Sources : Promoted(s)
  <1>1. Init => AllPromoted
    BY DEF Init, Promoted, Actors
  <1>2. TypeOK /\ Inv /\ AllPromoted /\ [Next]_vars => AllPromoted'
    BY PromotedStep
  <1>3. AllPromoted => PromotionIsEarned
    BY DEF Promoted, PromotionIsEarned, Sources
  <1> QED
    BY <1>1, <1>2, <1>3, TypeCorrect, InvHolds, PTL DEF Spec

\* A run that is skipped works with the profile of the run before it, or with
\* the neutral one.
SearchInv ==
    /\ ProfileChangesAreSearched
    /\ at[Refresh] = "skip" => using \in {None, lastRun.profile}

\* The steps that touch the cadence, the profile in use, or whether to skip.
LEMMA SearchFrame ==
    ASSUME TypeOK, [Next]_vars
    PROVE  \/ UNCHANGED <<lastRun, searched>> /\ at'[Refresh] # "skip"
           \/ UNCHANGED <<lastRun, searched, using>> /\ at'[Refresh] = at[Refresh]
           \/ Decides \/ Skips \/ SearchDegrades \/ DiscoveryRecorded
  <1> USE SourcesAssumption
  <1>1. /\ at \in [Actors -> Labels] /\ Loop \in Actors /\ Refresh \in Actors
        /\ Loop # Refresh /\ Refresh \notin Creators
    BY DEF TypeOK, Actors
  <1>2. CASE LoopNext
    BY <1>1, <1>2 DEF LoopNext, ImportCalled, ImportRaises, ToggleCalled, ToggleSetsStatus,
       ToggleSetsBinding, ToggleGoesOn, ToggleEnds, Goto
  <1>3. CASE \E a \in Importers : ImportNext(a)
    BY <1>1, <1>3 DEF ImportNext, ImportChecks, Imports, ImportDone, Goto, Importers
  <1>4. CASE \E c \in Creators : InboxNext(c)
    BY <1>1, <1>4 DEF InboxNext, SubmitCalled, SubmitTarget, SubmitShare, SubmitRoute,
       SubmitItem, Goto
  <1>5. CASE DiscoveryNext
    BY <1>1, <1>5 DEF DiscoveryNext, RefreshStarts, SearchStarts, CandidatesFound, Accepts,
       AddTarget,
       AddBinding, CandidatesDone, Goto
  <1>6. CASE SnapshotNext
    BY <1>1, <1>6 DEF SnapshotNext, Boots, ListTargets, ListBindings, StoreSnapshot, Activate,
       ReadPointer, Collects, Merges, RefreshEnds, RefreshRaises, Goto
  <1>7. CASE OutsideNext
    BY <1>1, <1>7 DEF OutsideNext, Rollback, ProfileChanges, TimePasses, Follows, Crash
  <1>8. CASE ObserverNext
    BY <1>1, <1>8 DEF ObserverNext, Observes, DecidesLifecycle, Transitions, Goto
  <1>9. CASE UNCHANGED vars
    BY <1>9 DEF vars
  <1> QED
    BY <1>2, <1>3, <1>4, <1>5, <1>6, <1>7, <1>8, <1>9 DEF Next

LEMMA SearchStep == TypeOK /\ SearchInv /\ [Next]_vars => SearchInv'
  <1> SUFFICES ASSUME TypeOK, SearchInv, [Next]_vars PROVE SearchInv'
    OBVIOUS
  <1>1. at \in [Actors -> Labels] /\ Refresh \in Actors
    BY DEF TypeOK, Actors
  <1>2. CASE UNCHANGED <<lastRun, searched>> /\ at'[Refresh] # "skip"
    BY <1>2 DEF SearchInv, ProfileChangesAreSearched
  <1>3. CASE UNCHANGED <<lastRun, searched, using>> /\ at'[Refresh] = at[Refresh]
    BY <1>3 DEF SearchInv, ProfileChangesAreSearched
  <1>4. CASE Decides
    BY <1>1, <1>4 DEF Decides, Due, Goto, SearchInv, ProfileChangesAreSearched
  <1>5. ASSUME Recorded
        PROVE  lastRun'.profile = using /\ at'[Refresh] # "skip"
    BY <1>1, <1>5 DEF Recorded, Goto
  <1>6. CASE Skips
    BY <1>1, <1>5, <1>6 DEF Skips, SearchInv, ProfileChangesAreSearched
  <1>7. CASE SearchDegrades \/ DiscoveryRecorded
    BY <1>5, <1>7 DEF SearchDegrades, DiscoveryRecorded, SearchInv, ProfileChangesAreSearched
  <1> QED
    BY <1>2, <1>3, <1>4, <1>6, <1>7, SearchFrame

\* No skipped run hides a change of the profile from discovery.
THEOREM ProfileChangesAreEverSearched == Spec => []ProfileChangesAreSearched
  <1>1. Init => SearchInv
    BY SourcesAssumption DEF Init, NoRun, SearchInv, ProfileChangesAreSearched, Actors
  <1>2. SearchInv => ProfileChangesAreSearched
    BY DEF SearchInv
  <1> QED
    BY <1>1, <1>2, SearchStep, TypeCorrect, PTL DEF Spec

=============================================================================
