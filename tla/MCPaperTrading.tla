--------------------------- MODULE MCPaperTrading ---------------------------
(***************************************************************************)
(* Small instances of PaperTrading for TLC: two strategies that share an   *)
(* instrument, alone or beside a third with its own, and one strategy on a *)
(* perpetual.                                                              *)
(***************************************************************************)
EXTENDS PaperTrading, TLC

CONSTANTS s1, s2, s3, eth, btc, ethPerp, binance, main

MCMixed == (s1 :> eth) @@ (s2 :> eth) @@ (s3 :> btc)

MCShared == (s1 :> eth) @@ (s2 :> eth)

MCPerpetual == s1 :> ethPerp

\* The two that share an instrument differ in nothing.
MCSymmetry == Permutations({s1, s2})

MCUnit == [strategy \in Strategies |-> 1]

MCRaw == [instrument \in Instruments |-> IF instrument = eth THEN btc ELSE eth]

MCPerpetualRaw == ethPerp :> eth

MCMaxTime == [provider_ \in Providers |-> 1]

MCMaxAttempts == [provider_ \in Providers |-> 10]

\* Every order a strategy may come to ask for: a position grows by at most its
\* size in an event.
MCOrders ==
    {order \in [intent : [strategy : Strategies, symbol : Instruments,
                          venue : {binance}, portfolio : {main},
                          side : {"BUY", "SELL"}, qty : 1..(2 * MaxEvents)],
                reduceOnly : BOOLEAN] :
        order.intent.symbol = InstrumentOf[order.intent.strategy]}

=============================================================================
