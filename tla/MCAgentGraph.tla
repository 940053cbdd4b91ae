----------------------------- MODULE MCAgentGraph -----------------------------
(***************************************************************************)
(* Instance of AgentGraph for TLC: a text that fixes the outline, the      *)
(* layers and a ground plane and leaves the holes open; one board that     *)
(* meets it, and one whose holes are wrong.                                *)
(***************************************************************************)
EXTENDS AgentGraph

OpenHoles == {[NoContract EXCEPT !["outline"] = 2, !["layers"] = 1, !["ground"] = 1]}

TwoBoards == {[f \in Respects |-> 1], [[f \in Respects |-> 1] EXCEPT !["holes"] = 2]}

\* The first component is grounded with its datasheet, or not at all.
TwoFindings ==
    {[explicit |-> FALSE, bindings |-> FALSE, lookup |-> found, base |-> FALSE,
      generated |-> FALSE, knowledge |-> FALSE, web |-> TRUE, datasheet |-> TRUE] :
     found \in BOOLEAN}

Hits == {{[catalog |-> "hits", knowledge |-> FALSE, pages |-> FALSE]}}
=============================================================================
