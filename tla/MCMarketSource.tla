--------------------------- MODULE MCMarketSource ---------------------------
(***************************************************************************)
(* A small instance of MarketSource for TLC: one instrument in a fast and  *)
(* a slow timeframe, another one in the fast timeframe only.               *)
(***************************************************************************)
EXTENDS MarketSource, TLC

CONSTANTS eth, btc, fast, slow

MCTimeframes == <<fast, slow>>

MCSymbolsOf == (fast :> {eth, btc}) @@ (slow :> {eth})

MCOneSymbol == (fast :> {eth}) @@ (slow :> {eth})

MCRank == (btc :> 1) @@ (eth :> 2)

MCWidth == (fast :> 2) @@ (slow :> 4)

=============================================================================
