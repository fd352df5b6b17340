----------------------------- MODULE MCMultiLeg -----------------------------
(* Genomes of two legs on spot and on margin; the second instrument cannot  *)
(* be reversed in one order.                                               *)
EXTENDS MultiLeg

MCLegs == <<"left", "right">>

MCInstruments == [left |-> [step |-> 1, min |-> 1, max |-> 20],
                  right |-> [step |-> 2, min |-> 2, max |-> 14]]

APolicy(family, window, ratio, shorts, margin) ==
    [entry |-> family[1], exit |-> family[2], window |-> window, ratio |-> ratio,
     periods |-> 2, shorts |-> shorts, margin |-> margin]

MCPolicies ==
    {APolicy(<<"cointegration_spread", "spread_mean_exit">>, 2, 10, TRUE, TRUE),
     APolicy(<<"cointegration_spread", "spread_mean_exit">>, 2, 10, FALSE, FALSE),
     APolicy(<<"funding_basis", "edge_decay">>, 0, 10, TRUE, TRUE),
     APolicy(<<"hedged_basis", "drift">>, 0, 9, TRUE, TRUE),
     APolicy(<<"strategy_rotation", "periods">>, 1, 10, FALSE, FALSE),
     APolicy(<<"strategy_rotation", "periods">>, 1, 10, FALSE, TRUE)}

=============================================================================
