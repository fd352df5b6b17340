--------------------------- MODULE MCPaperRuntime ---------------------------
(***************************************************************************)
(* Small instances of PaperRuntime for TLC: two strategies, on one         *)
(* instrument each or both on the same one.                                *)
(***************************************************************************)
EXTENDS PaperRuntime

CONSTANTS s1, s2, eth, btc

MCLongShort == {-1, 0, 1}

MCLongOnly == {0, 1}

MCApart == (s1 :> eth) @@ (s2 :> btc)

MCShared == (s1 :> eth) @@ (s2 :> eth)

=============================================================================
