---------------------------- MODULE MCPromotion ----------------------------
(* The promotion chain for TLC: two code versions, three windows.          *)
EXTENDS Promotion

Window(trades, ret, dd, sound) ==
    [duration |-> 5, trades |-> trades, ret |-> ret, dd |-> dd, sound |-> sound]

MCPaperPolicy == [sessions |-> 2, duration |-> 10, trades |-> 10, ret |-> 0, dd |-> 10]

MCChampionPolicy == [trades |-> 20, improvement |-> 1, ratio |-> 100]

MCNoIncumbent == [passed |-> FALSE, ret |-> 0, dd |-> 0, seated |-> FALSE]

MCManifests == {[code |-> 1, dataset |-> "d1", cap |-> 10],
                [code |-> 2, dataset |-> "d2", cap |-> 4]}

MCEnvironments ==
    {[mode |-> "TESTNET", withdrawal |-> FALSE, credentials |-> TRUE],
     [mode |-> "TESTNET", withdrawal |-> FALSE, credentials |-> FALSE],
     [mode |-> "TESTNET", withdrawal |-> TRUE, credentials |-> TRUE],
     [mode |-> "PAPER", withdrawal |-> FALSE, credentials |-> TRUE]}

\* A good window, a losing one, an idle one, and one with a missing bar.
Good == Window(10, 6, 2, TRUE)
AllWindows == {Good, Window(10, -3, 6, TRUE), Window(0, 0, 0, TRUE), Window(10, 6, 2, FALSE)}

\* One to beat, one that two good windows beat by their return only, one
\* without a drawdown, one whose evidence failed.
AllIncumbents == {MCNoIncumbent,
                  [passed |-> TRUE, ret |-> 7, dd |-> 2, seated |-> TRUE],
                  [passed |-> TRUE, ret |-> 13, dd |-> 2, seated |-> TRUE],
                  [passed |-> TRUE, ret |-> 1, dd |-> 0, seated |-> TRUE],
                  [passed |-> FALSE, ret |-> 0, dd |-> 9, seated |-> TRUE]}

\* Where a smoke order may be tried the forward side is kept small.
MCForward ==
    [e \in MCEnvironments |->
        IF e.mode = "TESTNET" THEN [reports |-> 2, windows |-> {Good}, incumbents |-> {MCNoIncumbent}]
        ELSE [reports |-> 3, windows |-> AllWindows, incumbents |-> AllIncumbents]]

\* Either exchange asks for more than a manifest's cap allows.
MCRules == {[notional |-> 7, step |-> 2, quantity |-> 1],
            [notional |-> 12, step |-> 1, quantity |-> 5]}

MCPrices == {0, 3}

=============================================================================
