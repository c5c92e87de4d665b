------------------------------ MODULE MCSources ------------------------------
(* One source of the YAML texts, one to discover, one creator.  The texts give *)
(* the first source the bindings a, b and a again, and disable it; the second  *)
(* names the feed as well.                                                     *)
EXTENDS Sources, TLC

CONSTANTS source, feed, creator, A, B, A2, Off, a, b, off, p

MCEntries == {a, b, off}
MCEntry == [v \in Versions |->
              CASE v \in {A, A2} -> source :> a
                [] v = B         -> source :> b @@ feed :> b
                [] v = Off       -> source :> off]
MCEnabled == [e \in MCEntries |-> e # off]
MCConnector == [e \in Configs |->
              CASE e = Share -> "inbox" [] e = Route -> "rsshub" [] OTHER -> "rss"]

\* A good sample, a third failure in a row and a sixth.
MCObservations ==
    {[ok |-> TRUE, useful |-> 3, duplicate |-> 10, failures |-> 0, health |-> 100],
     [ok |-> FALSE, useful |-> 0, duplicate |-> 0, failures |-> 3, health |-> 20],
     [ok |-> FALSE, useful |-> 0, duplicate |-> 0, failures |-> 6, health |-> 0]}
=============================================================================
