------------------------------ MODULE MCBoard ------------------------------
(* BoardRouting with requirements that fix the layers, prefer some, or ask   *)
(* for wide tracks.                                                          *)
EXTENDS BoardRouting

Plain    == [explicit |-> 0, preferred |-> 0, width |-> FALSE, fixed |-> TRUE,
             repair |-> TRUE]
TwoLayer == [Plain EXCEPT !.explicit = 2, !.fixed = FALSE, !.repair = FALSE]
Wide     == [Plain EXCEPT !.width = TRUE, !.preferred = 4]
MCRequirements == {Plain, TwoLayer, Wide}
MCLeaves == [{"drill"} -> 0..2]
=============================================================================
