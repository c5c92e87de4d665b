--------------------------- MODULE MCProfileLoop ---------------------------
(* Values for ProfileLoop: a statement, and a correction that supersedes it. *)
EXTENDS ProfileLoop

MCEvents == {1, 2}
MCSupersedes == [e \in MCEvents |-> IF e = 2 THEN {1} ELSE {}]

=============================================================================
