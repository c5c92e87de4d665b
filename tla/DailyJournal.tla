---------------------------- MODULE DailyJournal ----------------------------
(* What the files of a refresh promise its readers: a journal in days, and a  *)
(* list drawn from it, with none of the steps, records and cut writes between *)
(* them.                                                                      *)
(*                                                                            *)
(* The journal only grows.  A refresh adds to it once, after every earlier    *)
(* one, to the last day that has anything; what it adds are items the day     *)
(* has no id of yet.  The list is replaced as a whole by that of a later      *)
(* refresh, and everything in it has an id of the last day.                   *)
EXTENDS Naturals

CONSTANTS
    Items,
    Key,       \* item -> what it is known by
    Days,
    Refreshes  \* their numbers, in the order of their starts

VARIABLES
    journal,   \* day -> its lines: items with the refresh that added them
    shown      \* the list: its refresh, and the items

journalVars == <<journal, shown>>

\* The items a day has an id of.
Known(d) == LET ids == {Key[l.item] : l \in journal[d]} IN {i \in Items : Key[i] \in ids}

\* No later day has anything.
IsLast(d) == \A e \in Days : e > d => journal[e] = {}

Init ==
    /\ journal = [d \in Days |-> {}]
    /\ shown = [run |-> 0, items |-> {}]

Add(r) ==
    /\ shown.run < r /\ \A d \in Days : \A l \in journal[d] : l.run < r
    /\ \E d \in Days :
          /\ IsLast(d)
          /\ \E new \in SUBSET (Items \ Known(d)) :
                /\ journal' = [journal EXCEPT ![d] =
                                  @ \cup {[item |-> i, run |-> r] : i \in new}]
                /\ \A i, j \in new : Key[i] = Key[j] => i = j
    /\ UNCHANGED shown

Show(r) ==
    /\ shown.run < r /\ \A d \in Days : \A l \in journal[d] : l.run <= r
    /\ \E d \in Days :
          /\ IsLast(d)
          /\ \E list \in SUBSET Known(d) : shown' = [run |-> r, items |-> list]
    /\ UNCHANGED journal

Next == \E r \in Refreshes : Add(r) \/ Show(r)

Spec == Init /\ [][Next]_journalVars
=============================================================================
