---------------------------- MODULE MCAutopilot ----------------------------
(***************************************************************************)
(* Small instance of Autopilot for TLC: two recipes of one product, the    *)
(* first of a family that recommends a long history.                       *)
(***************************************************************************)
EXTENDS Autopilot, TLC

CONSTANTS cycle, upkeep, w1, w2

MCProducts == <<"SPOT">>

MCRecipeCount == "SPOT" :> 2

MCPast(index, verdict) ==
    [recipe |-> <<"SPOT", index>>, full |-> FALSE, verdict |-> verdict]

\* A short window of the long recipe succeeded before, with a score.
MCHistories == {<<MCPast(0, "qualified")>>}

MCTwoQualified == {<<MCPast(0, "qualified"), MCPast(0, "qualified")>>}

MCLongRecipes == {<<"SPOT", 0>>}

=============================================================================
