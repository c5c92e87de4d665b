--------------------------- MODULE ProfileHistory ---------------------------
(* What the profile repositories promise whoever reads a profile, with none of *)
(* the threads, models and failures that fill them.                            *)
(*                                                                             *)
(* Events are only ever added to the log, none twice.  A profile is kept for   *)
(* good, and is based on exactly the events that were active at one moment of  *)
(* the log.  The current profile is one of those kept: a new one as it is      *)
(* stored, or an old one that is returned to; there is always one once there   *)
(* was one.                                                                    *)
EXTENDS Naturals, Sequences

CONSTANTS
    Events,
    Supersedes  \* event -> the events it supersedes

VARIABLES
    log,        \* the events, in the order they were added
    profiles,   \* the profiles that were stored: the events each is based on
    current     \* the profile in use, alone; empty before the first

historyVars == <<log, profiles, current>>

\* The events that no other supersedes, when the log was n long.
ActiveAt(n) ==
    {log[i] : i \in {k \in 1..n : \A j \in 1..n : log[k] \notin Supersedes[log[j]]}}

Init == log = <<>> /\ profiles = {} /\ current = {}

Post(e) ==
    /\ \A i \in 1..Len(log) : log[i] # e
    /\ log' = Append(log, e)
    /\ UNCHANGED <<profiles, current>>

Compile ==
    /\ \E n \in 0..Len(log) : current' = {ActiveAt(n)}
    /\ profiles' = profiles \cup current'
    /\ UNCHANGED log

Return ==
    /\ \E p \in profiles : current' = {p}
    /\ UNCHANGED <<log, profiles>>

Next == Compile \/ Return \/ \E e \in Events : Post(e)

Spec == Init /\ [][Next]_historyVars
=============================================================================
