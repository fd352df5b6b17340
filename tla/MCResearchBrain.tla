-------------------------- MODULE MCResearchBrain ---------------------------
(***************************************************************************)
(* Three schedules: two candidates that meet every kind of trial, two runs *)
(* on two timeframes whose budget and queue bite, and a pair family whose  *)
(* candidates need a specialist report.                                    *)
(***************************************************************************)
EXTENDS ResearchBrain

Numbers(trades, ret, dd) == [trades |-> trades, ret |-> ret, dd |-> dd]

Good == [base |-> Numbers(9, 50, 10), stressed |-> Numbers(9, 20, 10),
         neighbours |-> <<Numbers(9, 20, 10), Numbers(9, 50, 20), Numbers(9, 19, 10)>>,
         fold |-> Numbers(5, 1, 20), cpcv |-> Numbers(5, 1, 20),
         montecarlo |-> Numbers(5, 0, 20), transfer |-> Numbers(5, 0, 25),
         hidden |-> Numbers(5, 0, 20)]

Better == [Good EXCEPT !.hidden = Numbers(8, 10, 5)]

\* A losing base, so that the other branch of the two comparisons is taken.
Losing == [Good EXCEPT !.base = Numbers(9, -5, 10), !.stressed = Numbers(9, 0, 10)]

Borderline ==
    {[Good EXCEPT !.cpcv = Numbers(5, 1, 25)],
     [Good EXCEPT !.stressed = Numbers(9, 19, 10)],
     [Good EXCEPT !.cpcv = Numbers(5, 1, 25), !.montecarlo = Numbers(5, 0, 25)],
     [Good EXCEPT !.montecarlo = Numbers(5, -10, 20)],
     [Good EXCEPT !.montecarlo = Numbers(5, -10, 20), !.cpcv = Numbers(5, 1, 25)],
     [Good EXCEPT !.neighbours = <<Numbers(9, 50, 10), Numbers(4, 50, 10)>>],
     [Good EXCEPT !.neighbours = <<Numbers(9, 50, 10)>>],
     [Good EXCEPT !.fold = Numbers(5, 0, 20)],
     [Good EXCEPT !.fold = Numbers(5, 1, 21)],
     [Good EXCEPT !.transfer = Numbers(5, -1, 25)],
     [Good EXCEPT !.hidden = Numbers(4, 0, 20)],
     [Good EXCEPT !.hidden = Numbers(5, -1, 20)]}

MCTrials == [all |-> {Good, Better, Losing} \cup Borderline,
             few |-> {Good, Better, [Good EXCEPT !.fold = Numbers(5, 0, 20)]}]

ARun(family, timeframe, slots, budget, cap, class) ==
    [family |-> family, timeframe |-> timeframe, slots |-> slots, budget |-> budget,
     cap |-> cap, class |-> class, numeric |-> slots = 1, bars |-> 100, window |-> 20,
     transfer |-> TRUE]

MCPlans ==
    {<<ARun("trend", "1h", 1, 1, 1, "all")>>,
     <<ARun("trend", "1h", 2, 2, 1, "few")>>,
     <<ARun("trend", "1h", 2, 1, 1, "few"),
       [ARun("stat_arb", "1d", 1, 1, 0, "few") EXCEPT !.numeric = FALSE]>>,
     <<[ARun("trend", "1h", 1, 1, 1, "few") EXCEPT !.bars = 99]>>,
     <<[ARun("trend", "1h", 1, 1, 1, "few") EXCEPT !.transfer = FALSE]>>}

=============================================================================
