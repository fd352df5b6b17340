--------------------------- MODULE AutopilotProofs ---------------------------
(***************************************************************************)
(* Theorems about Autopilot, for any products, recipes, limits, processes  *)
(* and histories: its types, the truth of the receipts of local jobs, the  *)
(* bound on research workers, the single full window of a long recipe and  *)
(* the portfolio behind every PAPER worker.                                *)
(*                                                                         *)
(* The invariants of Autopilot speak of files.  What makes them inductive  *)
(* is what a process holds between two accesses to these files: whose job  *)
(* it is about to spawn (JobsInv), how many workers it may still start     *)
(* (BudgetInv), that a full window it has decided on is its next launch    *)
(* (EscalationInv) and that a portfolio it has chosen is still a good one  *)
(* when it writes it (PaperInv).                                           *)
(***************************************************************************)
EXTENDS Autopilot, FiniteSetTheorems, TLAPS

-----------------------------------------------------------------------------
\* THE INDUCTIVE INVARIANT

CursorValues == [SearchedProducts -> 0..(Max({RecipeCount[q] : q \in SearchedProducts}) - 1)]

Loaded == [cycles : 0..MaxCycles, cursor : CursorValues]

\* What an autopilot process holds at each of its steps.
Locals ==
    {Idle}
    \cup [pc : {"list", "prepare", "worker", "start", "save"}, loaded : Loaded]
    \cup [pc : {"launch"}, loaded : Loaded, requests : Seq(Requests)]
    \cup [pc : {"spawn", "write", "rename"}, loaded : Loaded,
          requests : Seq(Requests), job : Jobs]
    \cup [pc : {"configure"}, loaded : Loaded, chosen : SUBSET Jobs]
    \cup [pc : {"pid"}, loaded : Loaded, pid : Pids]

AutopilotTyped ==
    /\ JobsTypeOK
    /\ stateFile \in Loaded
    /\ process \in [Processes -> Locals]
    /\ portfolio \subseteq Jobs
    /\ pidFile \in Pids \cup {Absent}
    /\ paper \in [Pids -> {"none", "starting", "trading", "exited"}]
    /\ stop \in BOOLEAN

\* Where a process is in a cycle that launches jobs.
Launching(p) == process[p].pc \in {"launch", "spawn", "write", "rename"}

CyclesCounted ==
    \A p \in Processes :
        /\ p \in CycleProcesses /\ process[p] # Idle => process[p].loaded.cycles < MaxCycles
        /\ Launching(p) \/ At(p, "list") => p \in CycleProcesses

Final == {"SUCCEEDED", "FAILED"}

JobOK(job) ==
    /\ receipt[job] = Absent => research[job] = "none"
    /\ research[job] = "none" =>
           /\ temporary[job] = Absent
           /\ report[job] = Absent
           /\ receipt[job] # Absent => receipt[job].status = "STARTING"
    /\ research[job] = "working" => report[job] = Absent
    /\ research[job] = "reported" => report[job] # Absent
    /\ job \in Researching => /\ temporary[job] \notin Final
                              /\ receipt[job].status \notin Final
    /\ temporary[job] = "SUCCEEDED" => report[job] # Absent
    /\ receipt[job] # Absent => (receipt[job].status = "SUCCEEDED" => report[job] # Absent)

JobsInOrder == \E k \in 0..MaxJobs : Launched = 1..k

LaunchersOK ==
    /\ \A p \in Processes :
           /\ At(p, "spawn") => /\ process[p].job \in Launched
                                /\ research[process[p].job] = "none"
           /\ process[p].pc \in {"write", "rename"} => research[process[p].job] # "none"
    /\ \A p, q \in Processes :
           At(p, "spawn") /\ At(q, "spawn") /\ process[p].job = process[q].job => p = q

JobsInv ==
    /\ JobsInOrder
    /\ \A job \in Jobs : JobOK(job)
    /\ LaunchersOK

\* What a cycle may still start.
Ahead(p) == Len(process[p].requests) + (IF At(p, "spawn") THEN 1 ELSE 0)

BudgetInv ==
    /\ Cardinality(Researching) <= MaxRunningJobs
    /\ \A p \in CycleProcesses :
           Launching(p) => Cardinality(Researching) + Ahead(p) <= MaxRunningJobs

FullWindows(recipe) == {job \in Launched : receipt[job].recipe = recipe /\ receipt[job].full}

EscalationInv ==
    \A recipe \in LongRecipes :
        /\ \A i, j \in FullWindows(recipe) : i = j
        /\ \A p \in CycleProcesses : Launching(p) =>
               \A i \in DOMAIN process[p].requests :
                   process[p].requests[i] = [recipe |-> recipe, full |-> TRUE] =>
                       i = 1 /\ FullWindows(recipe) = {}

GoodPortfolio(jobs) ==
    \E product \in SearchedProducts : jobs \subseteq Qualified(product) /\ Cardinality(jobs) >= 2

PaperInv ==
    /\ portfolio = {} \/ GoodPortfolio(portfolio)
    /\ \A p \in Processes :
           /\ At(p, "configure") => GoodPortfolio(process[p].chosen)
           /\ process[p].pc \in {"start", "pid"} => portfolio # {}
    /\ \A pid \in Pids : paper[pid] # "none" => portfolio # {}

AutopilotInv ==
    /\ AutopilotTyped
    /\ CyclesCounted
    /\ JobsInv
    /\ Cardinality(CycleProcesses) = 1 => BudgetInv /\ EscalationInv
    /\ PaperInv

-----------------------------------------------------------------------------
\* OPERATORS

\* A set that contains {} and, with each subset, this subset and one more
\* element of S contains S, when S is finite.
LEMMA FiniteSetInduction ==
    ASSUME NEW S, IsFiniteSet(S), NEW F, {} \in F,
           \A T \in SUBSET S, x \in S : T \in F => T \cup {x} \in F
    PROVE  S \in F
<1> SUFFICES ASSUME S \notin F PROVE FALSE
    OBVIOUS
<1> DEFINE Bad == {T \in SUBSET S : T \notin F}
<1>1. IsWellFoundedOn(StrictSubsetOrdering(S), FiniteSubsetsOf(S))
    BY FS_StrictSubsetOrderingWellFounded
<1>2. FiniteSubsetsOf(S) = SUBSET S
    BY FS_FiniteSubsetsOfFinite
<1>3. PICK T \in Bad : \A U \in Bad : <<U, T>> \notin StrictSubsetOrdering(S)
    <2>1. S \in Bad
        OBVIOUS
    <2>2. Bad \subseteq FiniteSubsetsOf(S) /\ Bad # {}
        BY <2>1, <1>2
    <2> HIDE DEF Bad
    <2> QED
        BY <2>2, <1>1, WFMin
<1>4. T # {}
    OBVIOUS
<1>5. PICK x \in T : TRUE
    BY <1>4
<1>6. T \ {x} \in F
    <2>1. <<T \ {x}, T>> \in StrictSubsetOrdering(S)
        BY DEF StrictSubsetOrdering
    <2> QED
        BY <2>1, <1>3
<1>7. (T \ {x}) \cup {x} = T
    OBVIOUS
<1> QED
    BY <1>6, <1>7

\* Intervals are finite and have as many elements as they say.
LEMMA IntervalIsFinite == \A n \in Nat : IsFiniteSet(1..n) /\ Cardinality(1..n) = n
<1> TAKE n \in Nat
<1> QED
    BY FS_Interval

\* A set of numbers that contains 0 and with k also k + 1, as far as n, contains n.
LEMMA CountUp ==
    ASSUME NEW n \in Nat, NEW F, 0 \in F, \A k \in 0..(n - 1) : k \in F => k + 1 \in F
    PROVE  \A k \in 0..n : k \in F
<1> DEFINE G == {T \in SUBSET (1..n) : Cardinality(T) \in F}
<1>1. ASSUME NEW m \in 0..n
      PROVE  1..m \in {T \in SUBSET (1..m) : IsFiniteSet(T) /\ Cardinality(T) \in F}
    <2> DEFINE H == {T \in SUBSET (1..m) : IsFiniteSet(T) /\ Cardinality(T) \in F}
    <2>1. IsFiniteSet(1..m) /\ Cardinality(1..m) = m
        BY IntervalIsFinite
    <2>2. {} \in H
        BY FS_EmptySet
    <2>3. ASSUME NEW T \in SUBSET (1..m), NEW x \in 1..m, T \in H
          PROVE  T \cup {x} \in H
        <3>1. IsFiniteSet(T \cup {x})
            BY <2>3, FS_AddElement
        <3>2. CASE x \in T
            <4>1. T \cup {x} = T
                BY <3>2
            <4> QED
                BY <4>1, <2>3
        <3>3. CASE x \notin T
            <4>1. Cardinality(T \cup {x}) = Cardinality(T) + 1
                BY <2>3, <3>3, FS_AddElement
            <4>2. Cardinality(T \cup {x}) <= m
                BY <2>1, FS_Subset, T \cup {x} \subseteq 1..m
            <4>3. Cardinality(T) \in Nat
                BY <2>3, FS_CardinalityType
            <4>4. Cardinality(T) \in 0..(n - 1)
                BY <4>1, <4>2, <4>3
            <4> QED
                BY <4>1, <4>4, <2>3, <3>1
        <3> QED
            BY <3>2, <3>3
    <2> HIDE DEF H
    <2>4. 1..m \in H
        BY <2>1, <2>2, <2>3, FiniteSetInduction
    <2> QED
        BY <2>4 DEF H
<1>2. ASSUME NEW m \in 0..n PROVE m \in F
    BY <1>1, IntervalIsFinite
<1> QED
    BY <1>2

\* The greatest and the least element.
LEMMA MaxIsGreatest ==
    ASSUME NEW S \in SUBSET Nat, IsFiniteSet(S), S # {}
    PROVE  Max(S) \in S /\ \A y \in S : y <= Max(S)
<1> DEFINE F == {T \in SUBSET S : T # {} => \E x \in T : \A y \in T : x >= y}
<1>1. {} \in F
    OBVIOUS
<1>2. ASSUME NEW T \in SUBSET S, NEW x \in S, T \in F
      PROVE  T \cup {x} \in F
    <2>1. CASE T = {}
        <3>1. \A y \in T \cup {x} : x >= y
            BY <2>1
        <3> QED
            BY <3>1
    <2>2. CASE T # {}
        <3>1. PICK z \in T : \A y \in T : z >= y
            BY <1>2, <2>2
        <3>2. CASE x >= z
            <4>1. \A y \in T \cup {x} : x >= y
                BY <3>1, <3>2
            <4> QED
                BY <4>1
        <3>3. CASE ~(x >= z)
            <4>1. \A y \in T \cup {x} : z >= y
                BY <3>1, <3>3
            <4> QED
                BY <4>1
        <3> QED
            BY <3>2, <3>3
    <2> QED
        BY <2>1, <2>2
<1> HIDE DEF F
<1>3. S \in F
    BY <1>1, <1>2, FiniteSetInduction
<1>4. \E x \in S : \A y \in S : x >= y
    BY <1>3 DEF F
<1>5. Max(S) \in S /\ \A y \in S : Max(S) >= y
    BY <1>4 DEF Max
<1> QED
    BY <1>5

\* What Min and Max choose, for the sets the model uses them on.
LEMMA MinOfThree ==
    ASSUME NEW a \in Nat, NEW b \in Nat, NEW c \in Nat
    PROVE  /\ Min({a, b, c}) \in Nat
           /\ Min({a, b, c}) <= a /\ Min({a, b, c}) <= b /\ Min({a, b, c}) <= c
<1>1. \E x \in {a, b, c} : \A y \in {a, b, c} : x =< y
    OBVIOUS
<1>2. Min({a, b, c}) \in {a, b, c} /\ \A y \in {a, b, c} : Min({a, b, c}) =< y
    BY <1>1 DEF Min
<1> QED
    BY <1>2

\* The same of two numbers, as the bound of a batch.
LEMMA MinOfTwo ==
    ASSUME NEW a \in Nat, NEW b \in Nat
    PROVE  Min({a, b}) \in {a, b} /\ Min({a, b}) <= a /\ Min({a, b}) <= b
<1>1. \E x \in {a, b} : \A y \in {a, b} : x =< y
    OBVIOUS
<1>2. Min({a, b}) \in {a, b} /\ \A y \in {a, b} : Min({a, b}) =< y
    BY <1>1 DEF Min
<1> QED
    BY <1>2

\* A number that is cut off at zero, as the free slots are.
LEMMA MaxWithZero ==
    ASSUME NEW a \in Int
    PROVE  Max({a, 0}) = IF a >= 0 THEN a ELSE 0
<1>1. \E x \in {a, 0} : \A y \in {a, 0} : x >= y
    OBVIOUS
<1>2. Max({a, 0}) \in {a, 0} /\ \A y \in {a, 0} : Max({a, 0}) >= y
    BY <1>1 DEF Max
<1> QED
    BY <1>2

\* A remainder stays below its divisor.
LEMMA Remainder ==
    ASSUME NEW a \in Nat, NEW b \in Nat \ {0}
    PROVE  a % b \in 0..(b - 1)
    OBVIOUS

-----------------------------------------------------------------------------
\* THE PLAN OF A CYCLE

\* The products that are searched have recipes.
LEMMA ProductsTyped ==
    /\ Len(Products) \in Nat
    /\ DOMAIN Products = 1..Len(Products)
    /\ SearchedProducts = {Products[k] : k \in 1..Len(Products)}
    /\ \A product \in SearchedProducts : RecipeCount[product] \in Nat \ {0}
<1>1. Len(Products) \in Nat /\ DOMAIN Products = 1..Len(Products)
    BY RecipesAssumption
<1> QED
    BY <1>1, RecipesAssumption DEF SearchedProducts

\* Every position of a product is one of its recipes.
LEMMA RecipesTyped ==
    \A product \in SearchedProducts : \A i \in 0..(RecipeCount[product] - 1) :
        <<product, i>> \in Recipes
    BY DEF Recipes, SearchedProducts

\* A position among the recipes of its product is a value of the cursor.
LEMMA CursorRange ==
    ASSUME NEW product \in SearchedProducts, NEW i \in 0..(RecipeCount[product] - 1)
    PROVE  /\ Max({RecipeCount[q] : q \in SearchedProducts}) \in Nat
           /\ i \in 0..(Max({RecipeCount[q] : q \in SearchedProducts}) - 1)
<1> DEFINE S == {RecipeCount[q] : q \in SearchedProducts}
<1>1. S \subseteq Nat /\ RecipeCount[product] \in S
    BY ProductsTyped
<1>2. IsFiniteSet(S)
    <2>1. IsFiniteSet(1..Len(Products))
        BY ProductsTyped, IntervalIsFinite
    <2>2. S = {RecipeCount[Products[k]] : k \in 1..Len(Products)}
        BY ProductsTyped
    <2>3. IsFiniteSet({RecipeCount[Products[k]] : k \in 1..Len(Products)})
        <3> DEFINE f == [k \in 1..Len(Products) |-> RecipeCount[Products[k]]]
        <3>1. {RecipeCount[Products[k]] : k \in 1..Len(Products)} = {f[k] : k \in 1..Len(Products)}
            OBVIOUS
        <3>2. f \in Surjection(1..Len(Products), {f[k] : k \in 1..Len(Products)})
            BY DEF Surjection
        <3> HIDE DEF f
        <3> QED
            BY <2>1, <3>1, <3>2, FS_Surjection
    <2> QED
        BY <2>2, <2>3
<1> HIDE DEF S
<1>3. Max(S) \in Nat /\ RecipeCount[product] <= Max(S)
    BY <1>1, <1>2, MaxIsGreatest
<1>4. i \in 0..(Max(S) - 1)
    BY <1>3, ProductsTyped
<1> QED
    BY <1>3, <1>4 DEF S

\* The recursive function of Planned satisfies its equation.
LEMMA PlannedSteps ==
    ASSUME NEW deep, NEW cursor
    PROVE  \A k \in 0..Len(Products) :
               Planned(deep, cursor)[k] =
                   IF k = 0
                   THEN [slots |-> Slots - Len(deep), cursor |-> cursor, requests |-> deep]
                   ELSE AddBatch(Planned(deep, cursor)[k - 1], Products[k])
<1> DEFINE base == [slots |-> Slots - Len(deep), cursor |-> cursor, requests |-> deep]
           Next(f, k) == IF k = 0 THEN base ELSE AddBatch(f[k - 1], Products[k])
           L == Len(Products)
           F == {m \in 0..L : \E f : f = [k \in 0..m |-> Next(f, k)]}
<1>1. L \in Nat
    BY ProductsTyped
<1> HIDE DEF L, base
<1>2. 0 \in F
    <2> DEFINE f == [k \in 0..0 |-> base]
    <2>1. f = [k \in 0..0 |-> Next(f, k)]
        OBVIOUS
    <2> HIDE DEF f
    <2> QED
        BY <2>1, <1>1
<1>3. ASSUME NEW m \in 0..(L - 1), m \in F
      PROVE  m + 1 \in F
    <2>1. PICK f : f = [k \in 0..m |-> Next(f, k)]
        BY <1>3
    <2> DEFINE g == [k \in 0..(m + 1) |-> IF k = m + 1 THEN AddBatch(f[m], Products[m + 1])
                                          ELSE f[k]]
    <2>2. ASSUME NEW k \in 0..(m + 1)
          PROVE  g[k] = Next(g, k)
        <3>1. CASE k = m + 1
            <4>1. k # 0 /\ k - 1 = m /\ m # m + 1 /\ m \in 0..(m + 1)
                BY <3>1, <1>1
            <4> QED
                BY <4>1, <3>1
        <3>2. CASE k # m + 1
            <4>1. k \in 0..m
                BY <3>2, <1>1
            <4>2. g[k] = f[k]
                BY <3>2
            <4>3. f[k] = Next(f, k)
                BY <2>1, <4>1
            <4>4. k # 0 => k - 1 \in 0..m /\ k - 1 # m + 1 /\ k - 1 \in 0..(m + 1)
                BY <4>1, <1>1
            <4> QED
                BY <4>2, <4>3, <4>4
        <3> QED
            BY <3>1, <3>2
    <2>3. g = [k \in 0..(m + 1) |-> Next(g, k)]
        BY <2>2
    <2> HIDE DEF g
    <2>4. m + 1 \in 0..L
        BY <1>1
    <2> QED
        BY <2>3, <2>4
<1> HIDE DEF F
<1>4. L \in F
    BY <1>1, <1>2, <1>3, CountUp
<1>5. \E f : f = [k \in 0..L |-> Next(f, k)]
    BY <1>4 DEF F
<1>6. Planned(deep, cursor) = CHOOSE f : f = [k \in 0..L |-> Next(f, k)]
    BY DEF Planned, L, base
<1> HIDE DEF Next
<1>7. Planned(deep, cursor) = [k \in 0..L |-> Next(Planned(deep, cursor), k)]
    BY <1>5, <1>6
<1> QED
    BY <1>7 DEF Next, L, base

\* What every stage of a plan has in common: it never gives away more slots
\* than there are, and the full window of a long recipe comes only from the
\* deep validation, as the first request.
PlanOK(plan, deep) ==
    /\ plan \in [slots : Nat, cursor : CursorValues, requests : Seq(Requests)]
    /\ plan.slots + Len(plan.requests) = Slots
    /\ \A i \in DOMAIN plan.requests :
           plan.requests[i].full /\ plan.requests[i].recipe \in LongRecipes =>
               /\ i = 1
               /\ deep # <<>>
               /\ plan.requests[1] = deep[1]

\* A batch of one product keeps the plan within the slots, and deep requests at
\* its head (_select_recipe_batch).
LEMMA BatchAdded ==
    ASSUME NEW deep, NEW plan, PlanOK(plan, deep), NEW product \in SearchedProducts
    PROVE  PlanOK(AddBatch(plan, product), deep)
<1> DEFINE size  == RecipeCount[product]
           count == Min({RecipesPerCycle, plan.slots, size})
           Pick(i) == <<product, (plan.cursor[product] + i - 1) % size>>
           batch == [i \in 1..count |-> [recipe |-> Pick(i), full |-> Pick(i) \notin LongRecipes]]
           new   == AddBatch(plan, product)
<1>1. size \in Nat \ {0} /\ plan.slots \in Nat /\ plan.requests \in Seq(Requests)
    BY ProductsTyped DEF PlanOK
<1>2. count \in Nat /\ count <= plan.slots
    BY <1>1, LimitsAssumption, MinOfThree
<1>3. plan.cursor \in CursorValues /\ plan.cursor[product] \in Nat
    <2>1. 0 \in 0..(RecipeCount[product] - 1)
        BY ProductsTyped
    <2>2. Max({RecipeCount[q] : q \in SearchedProducts}) \in Nat
        BY <2>1, CursorRange
    <2> QED
        BY <2>2 DEF PlanOK, CursorValues
<1>4. new = [slots    |-> plan.slots - count,
             cursor   |-> [plan.cursor EXCEPT ![product] = (@ + count) % size],
             requests |-> plan.requests \o batch]
    BY DEF AddBatch
<1> HIDE DEF count, size, new
<1>5. batch \in Seq(Requests) /\ Len(batch) = count
    <2>1. ASSUME NEW i \in 1..count
          PROVE  batch[i] \in Requests
        <3>1. (plan.cursor[product] + i - 1) % size \in 0..(size - 1)
            <4>1. plan.cursor[product] + i - 1 \in Nat
                BY <1>2, <1>3
            <4> QED
                BY <4>1, <1>1, Remainder
        <3>2. Pick(i) \in Recipes
            BY <3>1, RecipesTyped DEF size
        <3> QED
            BY <3>2 DEF Requests
    <2>2. batch \in [1..count -> Requests]
        BY <2>1
    <2> HIDE DEF batch
    <2> QED
        BY <2>2, <1>2
<1>6. \A i \in 1..count : ~(batch[i].full /\ batch[i].recipe \in LongRecipes)
    OBVIOUS
<1> HIDE DEF batch
<1>7. [plan.cursor EXCEPT ![product] = (@ + count) % size] \in CursorValues
    <2>1. (plan.cursor[product] + count) % size \in 0..(size - 1)
        <3>1. plan.cursor[product] + count \in Nat
            BY <1>2, <1>3
        <3> QED
            BY <3>1, <1>1, Remainder
    <2>2. (plan.cursor[product] + count) % size
              \in 0..(Max({RecipeCount[q] : q \in SearchedProducts}) - 1)
        BY <2>1, CursorRange DEF size
    <2> QED
        BY <2>2, <1>3 DEF CursorValues
<1>8. plan.requests \o batch \in Seq(Requests)
      /\ Len(plan.requests \o batch) = Len(plan.requests) + count
    BY <1>1, <1>5
<1>9. new \in [slots : Nat, cursor : CursorValues, requests : Seq(Requests)]
    BY <1>1, <1>2, <1>4, <1>7, <1>8
<1>10. new.slots + Len(new.requests) = Slots
    BY <1>1, <1>2, <1>4, <1>8 DEF PlanOK
<1>11. ASSUME NEW i \in DOMAIN new.requests,
              new.requests[i].full, new.requests[i].recipe \in LongRecipes
       PROVE  i = 1 /\ deep # <<>> /\ new.requests[1] = deep[1]
    <2>1. i \in 1..(Len(plan.requests) + count)
        BY <1>4, <1>8
    <2>2. CASE i <= Len(plan.requests)
        <3>1. i \in DOMAIN plan.requests /\ new.requests[i] = plan.requests[i]
            BY <2>1, <2>2, <1>1, <1>4, <1>5
        <3>2. i = 1 /\ deep # <<>> /\ plan.requests[1] = deep[1]
            BY <3>1, <1>11 DEF PlanOK
        <3> QED
            BY <3>1, <3>2
    <2>3. CASE ~(i <= Len(plan.requests))
        <3>1. i - Len(plan.requests) \in 1..count
            BY <2>1, <2>3, <1>1, <1>2
        <3>2. new.requests[i] = batch[i - Len(plan.requests)]
            BY <2>1, <2>3, <1>1, <1>4, <1>5
        <3> QED
            BY <3>1, <3>2, <1>6, <1>11
    <2> QED
        BY <2>2, <2>3
<1>12. PlanOK(new, deep)
    BY <1>9, <1>10, <1>11 DEF PlanOK
<1> QED
    BY <1>12 DEF new

\* Sets of jobs can be counted.
LEMMA JobsFinite ==
    /\ IsFiniteSet(Jobs)
    /\ \A S \in SUBSET Jobs : IsFiniteSet(S) /\ Cardinality(S) \in Nat
<1>1. IsFiniteSet(Jobs)
    BY HistoriesAssumption, IntervalIsFinite DEF Jobs
<1> QED
    BY <1>1, FS_Subset, FS_CardinalityType

\* The free slots of a cycle are what the jobs under way leave of the limit.
LEMMA SlotsLeft ==
    LET busy == Cardinality(InStatus({"STARTING", "RUNNING"}))
    IN  /\ busy \in Nat
        /\ Slots \in Nat
        /\ Slots = IF MaxRunningJobs - busy >= 0 THEN MaxRunningJobs - busy ELSE 0
<1> DEFINE busy == Cardinality(InStatus({"STARTING", "RUNNING"}))
<1>1. busy \in Nat
    BY JobsFinite DEF InStatus, Launched
<1>2. MaxRunningJobs \in Nat
    BY LimitsAssumption
<1>3. Slots = Max({MaxRunningJobs - busy, 0})
    BY DEF Slots
<1> HIDE DEF busy
<1>4. Slots = IF MaxRunningJobs - busy >= 0 THEN MaxRunningJobs - busy ELSE 0
    BY <1>1, <1>2, <1>3, MaxWithZero
<1> QED
    BY <1>1, <1>2, <1>4 DEF busy

\* A cycle launches one deep validation at most, of a recipe that waits for it.
LEMMA DeepIsOne ==
    ASSUME JobsTypeOK, NEW deep \in DeepRequests(Slots)
    PROVE  /\ deep \in Seq(Requests)
           /\ Len(deep) <= Slots
           /\ deep = <<>> \/ \E recipe \in DeepCandidates :
                                 deep = <<[recipe |-> recipe, full |-> TRUE]>>
<1>1. Slots \in Nat
    BY SlotsLeft
<1>2. DeepCandidates \subseteq Recipes
    BY DEF DeepCandidates, InStatus, Launched, JobsTypeOK, Receipts
<1>3. CASE deep = <<>>
    BY <1>1, <1>3
<1>4. CASE deep # <<>>
    <2>1. Slots # 0
        BY <1>4 DEF DeepRequests
    <2>2. PICK recipe \in DeepCandidates : deep = <<[recipe |-> recipe, full |-> TRUE]>>
        BY <1>4 DEF DeepRequests
    <2>3. [recipe |-> recipe, full |-> TRUE] \in Requests
        BY <1>2 DEF Requests
    <2> DEFINE request == [recipe |-> recipe, full |-> TRUE]
    <2> HIDE DEF Requests, request
    <2>4. <<request>> \in Seq(Requests) /\ Len(<<request>>) = 1
        BY <2>3 DEF request
    <2>5. deep = <<request>>
        BY <2>2 DEF request
    <2>6. Len(deep) <= Slots /\ deep \in Seq(Requests)
        BY <1>1, <2>1, <2>4, <2>5
    <2> HIDE DEF DeepCandidates
    <2> QED
        BY <2>2, <2>6
<1> QED
    BY <1>3, <1>4

\* What a cycle decides to launch: no more than the slots that the receipts
\* leave, and of the full windows of long recipes only the first request, for a
\* recipe that has had none.
LEMMA PlanWithinSlots ==
    ASSUME JobsTypeOK, NEW cursor \in CursorValues, NEW plan \in Plans(cursor)
    PROVE  /\ plan.cursor \in CursorValues
           /\ plan.requests \in Seq(Requests)
           /\ Len(plan.requests) <= Slots
           /\ \A i \in DOMAIN plan.requests :
                  plan.requests[i].full /\ plan.requests[i].recipe \in LongRecipes =>
                      i = 1 /\ plan.requests[i].recipe \in DeepCandidates
<1>1. PICK deep \in DeepRequests(Slots) : plan = Planned(deep, cursor)[Len(Products)]
    BY DEF Plans
<1> DEFINE L == Len(Products)
           stage == Planned(deep, cursor)
           F == {k \in 0..L : PlanOK(stage[k], deep)}
<1>2. L \in Nat /\ Slots \in Nat
    BY ProductsTyped, SlotsLeft
<1>3. /\ deep \in Seq(Requests) /\ Len(deep) \in Nat /\ Len(deep) <= Slots
      /\ deep = <<>> \/ \E recipe \in DeepCandidates :
                            deep = <<[recipe |-> recipe, full |-> TRUE]>>
    BY DeepIsOne
<1>4. \A k \in 0..L : stage[k] = IF k = 0
                                 THEN [slots |-> Slots - Len(deep), cursor |-> cursor,
                                       requests |-> deep]
                                 ELSE AddBatch(stage[k - 1], Products[k])
    BY PlannedSteps
<1> HIDE DEF stage
<1>5. PlanOK(stage[0], deep)
    <2>1. stage[0] = [slots |-> Slots - Len(deep), cursor |-> cursor, requests |-> deep]
        BY <1>2, <1>4
    <2>2. \A i \in DOMAIN deep : i = 1 /\ deep # <<>>
        BY <1>3
    <2> HIDE DEF Requests
    <2>3. stage[0] \in [slots : Nat, cursor : CursorValues, requests : Seq(Requests)]
        <3>1. Slots - Len(deep) \in Nat
            BY <1>2, <1>3
        <3> QED
            BY <1>3, <2>1, <3>1
    <2>4. stage[0].slots + Len(stage[0].requests) = Slots
        BY <1>2, <1>3, <2>1
    <2> QED
        BY <2>1, <2>2, <2>3, <2>4 DEF PlanOK
<1>6. ASSUME NEW k \in 0..(L - 1), k \in F
      PROVE  k + 1 \in F
    <2>1. k + 1 \in 0..L /\ k + 1 # 0 /\ (k + 1) - 1 = k
        BY <1>2
    <2>2. stage[k + 1] = AddBatch(stage[k], Products[k + 1])
        BY <1>4, <2>1
    <2>3. Products[k + 1] \in SearchedProducts
        BY <2>1, <1>2, ProductsTyped
    <2> QED
        BY <1>6, <2>1, <2>2, <2>3, BatchAdded
<1>7. 0 \in F
    BY <1>2, <1>5
<1> HIDE DEF F, L
<1>8. L \in F
    BY <1>2, <1>6, <1>7, CountUp
<1>9. PlanOK(plan, deep)
    BY <1>1, <1>8 DEF F, stage, L
<1>10. plan.cursor \in CursorValues /\ plan.requests \in Seq(Requests)
    BY <1>9 DEF PlanOK
<1>11. Len(plan.requests) <= Slots
    BY <1>2, <1>9, <1>10 DEF PlanOK
<1>12. ASSUME NEW i \in DOMAIN plan.requests,
              plan.requests[i].full, plan.requests[i].recipe \in LongRecipes
       PROVE  i = 1 /\ plan.requests[i].recipe \in DeepCandidates
    <2>1. i = 1 /\ deep # <<>> /\ plan.requests[1] = deep[1]
        BY <1>9, <1>12 DEF PlanOK
    <2>2. PICK recipe \in DeepCandidates : deep = <<[recipe |-> recipe, full |-> TRUE]>>
        BY <1>3, <2>1
    <2>3. deep[1].recipe = recipe
        BY <2>2
    <2> QED
        BY <2>1, <2>2, <2>3
<1> QED
    BY <1>10, <1>11, <1>12

-----------------------------------------------------------------------------
\* WHAT A PROCESS HOLDS

\* What an autopilot process holds, by the step it is at.
LEMMA Shapes ==
    ASSUME AutopilotTyped, NEW p \in Processes
    PROVE  /\ process[p] \in Locals
           /\ process[p].pc \in {"list", "prepare", "worker", "start", "save"} =>
                  process[p] \in [pc : {"list", "prepare", "worker", "start", "save"},
                                  loaded : Loaded]
           /\ At(p, "launch") =>
                  process[p] \in [pc : {"launch"}, loaded : Loaded, requests : Seq(Requests)]
           /\ process[p].pc \in {"spawn", "write", "rename"} =>
                  process[p] \in [pc : {"spawn", "write", "rename"}, loaded : Loaded,
                                  requests : Seq(Requests), job : Jobs]
           /\ At(p, "configure") =>
                  process[p] \in [pc : {"configure"}, loaded : Loaded, chosen : SUBSET Jobs]
           /\ At(p, "pid") => process[p] \in [pc : {"pid"}, loaded : Loaded, pid : Pids]
           /\ At(p, "idle") => process[p] = Idle
<1>1. process[p] \in Locals
    BY DEF AutopilotTyped
<1> HIDE DEF Loaded, Requests
<1> USE DEF At, Idle
<1>2. At(p, "idle") => process[p] = Idle
    BY <1>1 DEF Locals
<1>3. At(p, "pid") => process[p] \in [pc : {"pid"}, loaded : Loaded, pid : Pids]
    BY <1>1 DEF Locals
<1>4. At(p, "configure") =>
          process[p] \in [pc : {"configure"}, loaded : Loaded, chosen : SUBSET Jobs]
    BY <1>1 DEF Locals
<1>5. process[p].pc \in {"spawn", "write", "rename"} =>
          process[p] \in [pc : {"spawn", "write", "rename"}, loaded : Loaded,
                          requests : Seq(Requests), job : Jobs]
    BY <1>1 DEF Locals
<1>6. At(p, "launch") =>
          process[p] \in [pc : {"launch"}, loaded : Loaded, requests : Seq(Requests)]
    BY <1>1 DEF Locals
<1>7. process[p].pc \in {"list", "prepare", "worker", "start", "save"} =>
          process[p] \in [pc : {"list", "prepare", "worker", "start", "save"}, loaded : Loaded]
    BY <1>1 DEF Locals
<1> QED
    BY <1>1, <1>2, <1>3, <1>4, <1>5, <1>6, <1>7

-----------------------------------------------------------------------------
\* TYPES

\* The initial states are well typed.
LEMMA TypedInit == AutopilotInit => AutopilotTyped
<1> SUFFICES ASSUME AutopilotInit PROVE AutopilotTyped
    OBVIOUS
<1>1. PICK past \in Histories :
          /\ receipt = [job \in Jobs |->
                 IF job \notin DOMAIN past THEN Absent
                 ELSE [recipe |-> past[job].recipe, full |-> past[job].full,
                       status |-> "SUCCEEDED"]]
          /\ temporary = [job \in Jobs |-> Absent]
          /\ research = [job \in Jobs |-> IF job \in DOMAIN past THEN "exited" ELSE "none"]
          /\ report = [job \in Jobs |-> IF job \in DOMAIN past THEN past[job].verdict
                                        ELSE Absent]
    BY DEF AutopilotInit, JobsInit
<1>2. \A job \in DOMAIN past : /\ past[job].recipe \in Recipes
                               /\ past[job].full \in BOOLEAN
                               /\ past[job].verdict \in Verdicts
    <2> DEFINE Past == [recipe : Recipes, full : BOOLEAN, verdict : Verdicts]
    <2>1. past \in Seq(Past)
        BY HistoriesAssumption
    <2> HIDE DEF Past
    <2>2. \A job \in DOMAIN past : past[job] \in Past
        BY <2>1
    <2> QED
        BY <2>2 DEF Past
<1>3. JobsTypeOK
    BY <1>1, <1>2 DEF JobsTypeOK, Receipts, Statuses
<1>4. stateFile \in Loaded
    <2>1. \A product \in SearchedProducts : 0 \in 0..(RecipeCount[product] - 1)
        BY ProductsTyped
    <2>2. \A product \in SearchedProducts :
              0 \in 0..(Max({RecipeCount[q] : q \in SearchedProducts}) - 1)
        BY <2>1, CursorRange
    <2> QED
        BY <2>2, LimitsAssumption DEF AutopilotInit, Loaded, CursorValues
<1>5. process \in [Processes -> Locals]
    BY DEF AutopilotInit, Locals
<1> QED
    BY <1>3, <1>4, <1>5 DEF AutopilotInit, AutopilotTyped

\* Every job that has a worker or had one has a receipt.
LEMMA ReceiptThere ==
    ASSUME AutopilotTyped, JobsInv, NEW job \in Jobs, research[job] # "none"
    PROVE  receipt[job] \in Receipts
    BY DEF AutopilotTyped, JobsTypeOK, JobsInv, JobOK

\* The next job a launcher makes is a new one.
LEMMA NextJob ==
    ASSUME AutopilotTyped, JobsInv, Launched # Jobs
    PROVE  LET job == Cardinality(Launched) + 1
           IN  /\ job \in Jobs /\ job \notin Launched
               /\ Launched \cup {job} = 1..job
<1>1. PICK k \in 0..MaxJobs : Launched = 1..k
    BY DEF JobsInv, JobsInOrder
<1>2. Cardinality(Launched) = k
    BY <1>1, HistoriesAssumption, IntervalIsFinite
<1>3. k < MaxJobs
    BY <1>1, HistoriesAssumption DEF Jobs
<1> QED
    BY <1>1, <1>2, <1>3, HistoriesAssumption DEF Jobs

\* A step of a process replaces what this process holds, by something of its
\* kind, and leaves the others alone.
LEMMA ProcessTyped ==
    ASSUME AutopilotTyped, CyclesCounted, JobsInv,
           NEW p \in Processes, ProcessStep(p)
    PROVE  /\ process' \in [Processes -> Locals]
           /\ \A q \in Processes \ {p} : process'[q] = process[q]
<1> DEFINE Moved(new) == new \in Locals /\ process' = [process EXCEPT ![p] = new]
<1>1. process \in [Processes -> Locals]
    BY DEF AutopilotTyped
<1> SUFFICES \E new : Moved(new)
    <2> PICK new : Moved(new)
        OBVIOUS
    <2> HIDE DEF Locals
    <2> QED
        BY <1>1
<1> HIDE DEF Loaded, Requests
<1> USE DEF At, Goto
<1>2. stateFile \in Loaded
    BY DEF AutopilotTyped
<1>3. CASE Start(p)
    <2> DEFINE new == [pc     |-> IF p \in CycleProcesses THEN "list" ELSE "prepare",
                       loaded |-> stateFile]
    <2>1. new \in Locals
        BY <1>2 DEF Locals
    <2>2. process' = [process EXCEPT ![p] = new]
        BY <1>3 DEF Start
    <2> QED
        BY <2>1, <2>2
<1>4. CASE ListJobs(p)
    <2>1. process[p].loaded \in Loaded
        BY <1>4, Shapes DEF ListJobs
    <2>2. PICK plan \in Plans(process[p].loaded.cursor) :
              process' = [process EXCEPT ![p] =
                  [pc |-> "launch", loaded |-> [@.loaded EXCEPT !.cursor = plan.cursor],
                   requests |-> plan.requests]]
        BY <1>4 DEF ListJobs
    <2>3. plan.cursor \in CursorValues /\ plan.requests \in Seq(Requests)
        BY <2>1, <2>2, PlanWithinSlots DEF AutopilotTyped, Loaded
    <2> DEFINE new == [pc |-> "launch",
                       loaded |-> [process[p].loaded EXCEPT !.cursor = plan.cursor],
                       requests |-> plan.requests]
    <2>4. [process[p].loaded EXCEPT !.cursor = plan.cursor] \in Loaded
        BY <2>1, <2>3 DEF Loaded
    <2>5. new \in Locals
        BY <2>3, <2>4 DEF Locals
    <2>6. process' = [process EXCEPT ![p] = new]
        BY <1>1, <2>2
    <2> QED
        BY <2>5, <2>6
<1>5. CASE Launch(p)
    <2> DEFINE job == Cardinality(Launched) + 1
               new == [pc |-> "spawn", loaded |-> process[p].loaded,
                       requests |-> Tail(process[p].requests), job |-> job]
    <2>1. process[p] \in [pc : {"launch"}, loaded : Loaded, requests : Seq(Requests)]
          /\ process[p].requests # <<>>
        BY <1>5, Shapes DEF Launch
    <2>2. job \in Jobs
        BY <1>5, NextJob DEF Launch
    <2>3. process' = [process EXCEPT ![p] = new]
        BY <1>1, <1>5 DEF Launch
    <2> HIDE DEF job
    <2>4. Tail(process[p].requests) \in Seq(Requests)
        BY <2>1
    <2>5. new \in Locals
        BY <2>1, <2>2, <2>4 DEF Locals
    <2> QED
        BY <2>3, <2>5
<1>6. CASE Spawn(p)
    <2> DEFINE new == [process[p] EXCEPT !.pc = "write"]
    <2>1. process[p] \in [pc : {"spawn", "write", "rename"}, loaded : Loaded,
                          requests : Seq(Requests), job : Jobs]
        BY <1>6, Shapes DEF Spawn
    <2>2. new \in Locals
        BY <2>1 DEF Locals
    <2>3. process' = [process EXCEPT ![p] = new]
        BY <1>1, <1>6 DEF Spawn
    <2> QED
        BY <2>2, <2>3
<1>7. CASE WriteRunning(p)
    <2> DEFINE new == [process[p] EXCEPT !.pc = "rename"]
    <2>1. process[p] \in [pc : {"spawn", "write", "rename"}, loaded : Loaded,
                          requests : Seq(Requests), job : Jobs]
        BY <1>7, Shapes DEF WriteRunning
    <2>2. new \in Locals
        BY <2>1 DEF Locals
    <2>3. process' = [process EXCEPT ![p] = new]
        BY <1>1, <1>7 DEF WriteRunning
    <2> QED
        BY <2>2, <2>3
<1>8. CASE RenameRunning(p)
    <2> DEFINE new == IF temporary[process[p].job] = Absent THEN Idle
                      ELSE [pc |-> "launch", loaded |-> process[p].loaded,
                            requests |-> process[p].requests]
    <2>1. process[p] \in [pc : {"spawn", "write", "rename"}, loaded : Loaded,
                          requests : Seq(Requests), job : Jobs]
        BY <1>8, Shapes DEF RenameRunning
    <2>2. new \in Locals
        BY <2>1 DEF Locals
    <2>3. process' = [process EXCEPT ![p] = new]
        BY <1>1, <1>8 DEF RenameRunning
    <2> QED
        BY <2>2, <2>3
<1>9. CASE AllLaunched(p)
    <2> DEFINE new == [pc |-> "prepare", loaded |-> process[p].loaded]
    <2>1. process[p].loaded \in Loaded
        BY <1>9, Shapes DEF AllLaunched
    <2>2. new \in Locals
        BY <2>1 DEF Locals
    <2>3. process' = [process EXCEPT ![p] = new]
        BY <1>1, <1>9 DEF AllLaunched
    <2> QED
        BY <2>2, <2>3
<1>10. CASE KeepPortfolio(p) \/ KeepWorker(p) \/ RemovePid(p)
    <2> DEFINE new(pc) == [process[p] EXCEPT !.pc = pc]
    <2>1. process[p] \in [pc : {"list", "prepare", "worker", "start", "save"}, loaded : Loaded]
        BY <1>10, Shapes DEF KeepPortfolio, KeepWorker, RemovePid
    <2>2. \A pc \in {"worker", "save", "start"} : new(pc) \in Locals
        BY <2>1 DEF Locals
    <2>3. \E pc \in {"worker", "save", "start"} : process' = [process EXCEPT ![p] = new(pc)]
        BY <1>1, <1>10 DEF KeepPortfolio, KeepWorker, RemovePid
    <2> HIDE DEF Locals, new
    <2> QED
        BY <2>2, <2>3
<1>11. CASE ChoosePortfolio(p)
    <2>1. PICK chosen \in Portfolios :
              process' = [process EXCEPT ![p] =
                  [pc |-> "configure", loaded |-> @.loaded, chosen |-> chosen]]
        BY <1>11 DEF ChoosePortfolio
    <2> DEFINE new == [pc |-> "configure", loaded |-> process[p].loaded, chosen |-> chosen]
    <2>2. process[p].loaded \in Loaded
        BY <1>11, Shapes DEF ChoosePortfolio
    <2>3. chosen \in SUBSET Jobs
        BY <2>1 DEF Portfolios, kSubset, Qualified, Launched
    <2>4. new \in Locals
        BY <2>2, <2>3 DEF Locals
    <2>5. process' = [process EXCEPT ![p] = new]
        BY <1>1, <2>1
    <2> QED
        BY <2>4, <2>5
<1>12. CASE ConfigurePortfolio(p) \/ WritePid(p)
    <2> DEFINE new(pc) == [pc |-> pc, loaded |-> process[p].loaded]
    <2>1. process[p].loaded \in Loaded
        BY <1>12, Shapes DEF ConfigurePortfolio, WritePid
    <2>2. \A pc \in {"worker", "save"} : new(pc) \in Locals
        BY <2>1 DEF Locals
    <2>3. \E pc \in {"worker", "save"} : process' = [process EXCEPT ![p] = new(pc)]
        BY <1>1, <1>12 DEF ConfigurePortfolio, WritePid
    <2> HIDE DEF Locals, new
    <2> QED
        BY <2>2, <2>3
<1>13. CASE StartWorker(p)
    <2>1. PICK pid \in Pids :
              process' = [process EXCEPT ![p] =
                  [pc |-> "pid", loaded |-> @.loaded, pid |-> pid]]
        BY <1>13 DEF StartWorker
    <2> DEFINE new == [pc |-> "pid", loaded |-> process[p].loaded, pid |-> pid]
    <2>2. process[p].loaded \in Loaded
        BY <1>13, Shapes DEF StartWorker
    <2>3. new \in Locals
        BY <2>2 DEF Locals
    <2>4. process' = [process EXCEPT ![p] = new]
        BY <1>1, <2>1
    <2> QED
        BY <2>3, <2>4
<1>14. CASE Save(p) \/ Die(p)
    <2>1. Idle \in Locals
        BY DEF Locals
    <2>2. process' = [process EXCEPT ![p] = Idle]
        BY <1>14 DEF Save, Die
    <2> QED
        BY <2>1, <2>2
<1> QED
    BY <1>3, <1>4, <1>5, <1>6, <1>7, <1>8, <1>9, <1>10, <1>11, <1>12, <1>13, <1>14
    DEF ProcessStep

\* The steps that touch the files of a job, and what the others do: they leave
\* the jobs alone, and no process comes to hold a job by them.
JobStep ==
    \/ \E p \in Processes : Launch(p) \/ Spawn(p) \/ WriteRunning(p) \/ RenameRunning(p)
    \/ \E job \in Jobs : WorkerStep(job) /\ UNCHANGED <<stateFile, process, paperVars>>

\* Only launches and workers touch the files of the jobs.
LEMMA OtherSteps ==
    ASSUME AutopilotTyped, CyclesCounted, JobsInv, [AutopilotNext]_autopilotVars, ~JobStep
    PROVE  /\ UNCHANGED jobVars
           /\ \A p \in Processes : process'[p].pc \in {"spawn", "write", "rename"} =>
                                       process'[p] = process[p]
<1> USE DEF jobVars
<1>1. CASE UNCHANGED autopilotVars
    BY <1>1 DEF autopilotVars
<1>2. CASE \E pid \in Pids : Preflight(pid) \/ Poll(pid) \/ PaperLost(pid)
    BY <1>2 DEF Preflight, Poll, PaperLost
<1>3. CASE ActivateEmergencyStop \/ ClearEmergencyStop
    BY <1>3 DEF ActivateEmergencyStop, ClearEmergencyStop
<1>4. ASSUME NEW p \in Processes, ProcessStep(p)
      PROVE  /\ UNCHANGED jobVars
             /\ \A q \in Processes : process'[q].pc \in {"spawn", "write", "rename"} =>
                                         process'[q] = process[q]
    <2>1. ~(Launch(p) \/ Spawn(p) \/ WriteRunning(p) \/ RenameRunning(p))
        BY DEF JobStep
    <2>2. UNCHANGED jobVars
        BY <1>4, <2>1 DEF ProcessStep, Start, ListJobs, AllLaunched, KeepPortfolio,
           ChoosePortfolio, ConfigurePortfolio, KeepWorker, RemovePid, StartWorker,
           WritePid, Save, Die
    <2>3. process \in [Processes -> Locals]
        BY DEF AutopilotTyped
    <2>4. process'[p].pc \notin {"spawn", "write", "rename"}
        <3> USE DEF At, Goto, Idle
        <3>1. CASE Start(p) \/ ListJobs(p)
            BY <2>3, <3>1 DEF Start, ListJobs
        <3>2. CASE AllLaunched(p) \/ ChoosePortfolio(p) \/ ConfigurePortfolio(p)
            BY <2>3, <3>2 DEF AllLaunched, ChoosePortfolio, ConfigurePortfolio
        <3>3. CASE KeepPortfolio(p) \/ KeepWorker(p) \/ RemovePid(p)
            <4>1. process[p] \in [pc : {"list", "prepare", "worker", "start", "save"},
                                  loaded : Loaded]
                BY <3>3, Shapes DEF KeepPortfolio, KeepWorker, RemovePid
            <4> QED
                BY <2>3, <3>3, <4>1 DEF KeepPortfolio, KeepWorker, RemovePid
        <3>4. CASE StartWorker(p) \/ WritePid(p) \/ Save(p) \/ Die(p)
            BY <2>3, <3>4 DEF StartWorker, WritePid, Save, Die
        <3> QED
            BY <1>4, <2>1, <3>1, <3>2, <3>3, <3>4 DEF ProcessStep
    <2>5. \A q \in Processes \ {p} : process'[q] = process[q]
        BY <1>4, ProcessTyped
    <2> QED
        BY <2>2, <2>4, <2>5
<1> QED
    BY <1>1, <1>2, <1>3, <1>4 DEF AutopilotNext, JobStep

\* Every step keeps the files of the jobs well typed.
LEMMA JobsTyped ==
    ASSUME AutopilotTyped, CyclesCounted, JobsInv, [AutopilotNext]_autopilotVars
    PROVE  JobsTypeOK'
<1> USE DEF JobsTypeOK
<1>1. JobsTypeOK
    BY DEF AutopilotTyped
<1>2. CASE ~JobStep
    BY <1>1, <1>2, OtherSteps DEF jobVars
<1>3. ASSUME NEW p \in Processes, Launch(p)
      PROVE  JobsTypeOK'
    <2> DEFINE job == Cardinality(Launched) + 1
               request == Head(process[p].requests)
    <2>1. job \in Jobs
        BY <1>3, NextJob DEF Launch
    <2>2. request \in Requests
        BY <1>3, Shapes DEF Launch
    <2>3. SaveStarting(job, request)
        BY <1>3 DEF Launch
    <2> HIDE DEF job, request
    <2>4. [recipe |-> request.recipe, full |-> request.full, status |-> "STARTING"] \in Receipts
        BY <2>2 DEF Requests, Receipts, Statuses
    <2> HIDE DEF Receipts
    <2> QED
        BY <1>1, <2>1, <2>3, <2>4 DEF SaveStarting
<1>4. ASSUME NEW p \in Processes, Spawn(p) \/ WriteRunning(p)
      PROVE  JobsTypeOK'
    BY <1>1, <1>4 DEF Spawn, WriteRunning, SpawnWorker, WriteTemporary, Statuses
\* A receipt that has a status in temporary is there.
<1>5. ASSUME NEW job \in Jobs, RenameTemporary(job),
             research[job] # "none"
      PROVE  /\ receipt' \in [Jobs -> Receipts \cup {Absent}]
             /\ temporary' \in [Jobs -> Statuses \cup {Absent}]
             /\ report' \in [Jobs -> Verdicts \cup {Absent}]
    <2>1. receipt[job] \in Receipts
        BY <1>5, ReceiptThere
    <2>2. temporary[job] # Absent => [receipt[job] EXCEPT !.status = temporary[job]] \in Receipts
        BY <1>1, <2>1 DEF Receipts
    <2> HIDE DEF Receipts
    <2>3. receipt' \in [Jobs -> Receipts \cup {Absent}]
        BY <1>1, <1>5, <2>2 DEF RenameTemporary
    <2> QED
        BY <1>1, <1>5, <2>3 DEF RenameTemporary
<1>6. ASSUME NEW p \in Processes, RenameRunning(p)
      PROVE  JobsTypeOK'
    <2>1. process[p].job \in Jobs
        BY <1>6, Shapes DEF RenameRunning, At
    <2>2. research[process[p].job] # "none"
        BY <1>6 DEF RenameRunning, At, JobsInv, LaunchersOK
    <2> QED
        BY <1>1, <1>5, <1>6, <2>1, <2>2 DEF RenameRunning
<1>7. ASSUME NEW job \in Jobs, WorkerStep(job)
      PROVE  JobsTypeOK'
    <2>1. CASE WriteReport(job)
        BY <1>1, <2>1 DEF WriteReport
    <2>2. CASE WriteFinal(job)
        BY <1>1, <2>2 DEF WriteFinal, WriteTemporary, FinalStatus, Statuses
    <2>3. CASE RenameFinal(job)
        BY <1>1, <1>5, <2>3 DEF RenameFinal
    <2>4. CASE WorkerLost(job)
        BY <1>1, <2>4 DEF WorkerLost
    <2> QED
        BY <1>7, <2>1, <2>2, <2>3, <2>4 DEF WorkerStep
<1> QED
    BY <1>2, <1>3, <1>4, <1>6, <1>7 DEF JobStep

\* Every step keeps the types.
LEMMA TypedStep ==
    ASSUME AutopilotTyped, CyclesCounted, JobsInv, [AutopilotNext]_autopilotVars
    PROVE  AutopilotTyped'
<1>1. JobsTypeOK'
    BY JobsTyped
<1>2. ASSUME NEW p \in Processes, ProcessStep(p)
      PROVE  AutopilotTyped'
    <2>1. process' \in [Processes -> Locals]
        BY <1>2, ProcessTyped
    <2>2. stateFile' \in Loaded
        <3>1. CASE Save(p)
            <4>1. process[p].loaded \in Loaded /\ process[p] # Idle
                BY <3>1, Shapes DEF Save, At, Idle
            <4>2. p \in CycleProcesses => process[p].loaded.cycles < MaxCycles
                BY <4>1 DEF CyclesCounted
            <4> QED
                BY <3>1, <4>1, <4>2, LimitsAssumption DEF Save, Loaded
        <3>2. CASE ~Save(p)
            <4>1. stateFile' = stateFile
                BY <1>2, <3>2 DEF ProcessStep, Start, ListJobs, Launch, Spawn, WriteRunning,
                   RenameRunning, AllLaunched, KeepPortfolio, ChoosePortfolio,
                   ConfigurePortfolio, KeepWorker, RemovePid, StartWorker, WritePid, Die
            <4> QED
                BY <4>1 DEF AutopilotTyped
        <3> QED
            BY <3>1, <3>2
    <2>3. portfolio' \subseteq Jobs
        <3>1. CASE ConfigurePortfolio(p)
            BY <3>1, Shapes DEF ConfigurePortfolio
        <3>2. CASE ~ConfigurePortfolio(p)
            <4>1. portfolio' = portfolio
                BY <1>2, <3>2 DEF ProcessStep, Start, ListJobs, Launch, Spawn, WriteRunning,
                   RenameRunning, AllLaunched, KeepPortfolio, ChoosePortfolio,
                   KeepWorker, RemovePid, StartWorker, WritePid, Die, Save, paperVars
            <4> QED
                BY <4>1 DEF AutopilotTyped
        <3> QED
            BY <3>1, <3>2
    <2>4. /\ pidFile' \in Pids \cup {Absent}
          /\ paper' \in [Pids -> {"none", "starting", "trading", "exited"}]
          /\ stop' \in BOOLEAN
        <3>1. CASE RemovePid(p) \/ StartWorker(p)
            BY <3>1 DEF RemovePid, StartWorker, AutopilotTyped
        <3>2. CASE WritePid(p)
            BY <3>2, Shapes DEF WritePid, AutopilotTyped
        <3>3. CASE ~(RemovePid(p) \/ StartWorker(p) \/ WritePid(p))
            <4>1. UNCHANGED <<pidFile, paper, stop>>
                BY <1>2, <3>3 DEF ProcessStep, Start, ListJobs, Launch, Spawn, WriteRunning,
                   RenameRunning, AllLaunched, KeepPortfolio, ChoosePortfolio,
                   ConfigurePortfolio, KeepWorker, Die, Save, paperVars
            <4> QED
                BY <4>1 DEF AutopilotTyped
        <3> QED
            BY <3>1, <3>2, <3>3
    <2> QED
        BY <1>1, <2>1, <2>2, <2>3, <2>4 DEF AutopilotTyped
<1>3. CASE \E pid \in Pids : Preflight(pid) \/ Poll(pid) \/ PaperLost(pid)
    BY <1>1, <1>3 DEF AutopilotTyped, Preflight, Poll, PaperLost
<1>4. CASE ActivateEmergencyStop \/ ClearEmergencyStop
    BY <1>1, <1>4 DEF AutopilotTyped, ActivateEmergencyStop, ClearEmergencyStop
<1>5. CASE \E job \in Jobs : WorkerStep(job) /\ UNCHANGED <<stateFile, process, paperVars>>
    BY <1>1, <1>5 DEF AutopilotTyped, paperVars
<1>6. CASE UNCHANGED autopilotVars
    BY <1>1, <1>6 DEF AutopilotTyped, autopilotVars, paperVars
<1> QED
    BY <1>2, <1>3, <1>4, <1>5, <1>6 DEF AutopilotNext

\* Every step counts the cycles it began.
LEMMA CyclesStep ==
    ASSUME AutopilotTyped, CyclesCounted, JobsInv, [AutopilotNext]_autopilotVars
    PROVE  CyclesCounted'
<1>1. CASE UNCHANGED process
    BY <1>1 DEF CyclesCounted, Launching, At
<1>2. ASSUME NEW p \in Processes, ProcessStep(p)
      PROVE  CyclesCounted'
    <2>1. process \in [Processes -> Locals] /\ \A q \in Processes \ {p} : process'[q] = process[q]
        BY <1>2, ProcessTyped DEF AutopilotTyped
    <2>2. (p \in CycleProcesses /\ process'[p] # Idle) => process'[p].loaded.cycles < MaxCycles
        <3> USE DEF At, Goto
        <3>1. CASE Start(p)
            BY <2>1, <3>1 DEF Start
        <3>2. CASE ~Start(p)
            <4>1. process[p] # Idle
                BY <1>2, <3>2 DEF Idle, ProcessStep, ListJobs, Launch, Spawn, WriteRunning,
                   RenameRunning, AllLaunched, KeepPortfolio, ChoosePortfolio,
                   ConfigurePortfolio, KeepWorker, RemovePid, StartWorker, WritePid, Save, Die
            <4>2. p \in CycleProcesses => process[p].loaded.cycles < MaxCycles
                BY <4>1 DEF CyclesCounted
            <4>3. process'[p] = Idle \/ process'[p].loaded.cycles = process[p].loaded.cycles
                <5>1. CASE ListJobs(p)
                    <6>1. process[p].loaded \in Loaded
                        BY <5>1, Shapes DEF ListJobs
                    <6> QED
                        BY <2>1, <5>1, <6>1 DEF ListJobs, Loaded
                <5>2. CASE Launch(p) \/ AllLaunched(p) \/ ChoosePortfolio(p)
                    BY <2>1, <5>2 DEF Launch, AllLaunched, ChoosePortfolio
                <5>3. CASE RenameRunning(p) \/ ConfigurePortfolio(p) \/ StartWorker(p)
                           \/ WritePid(p) \/ Save(p) \/ Die(p)
                    BY <2>1, <5>3 DEF RenameRunning, ConfigurePortfolio, StartWorker, WritePid,
                       Save, Die
                <5>4. CASE Spawn(p) \/ WriteRunning(p)
                    <6>1. process[p] \in [pc : {"spawn", "write", "rename"}, loaded : Loaded,
                                          requests : Seq(Requests), job : Jobs]
                        BY <5>4, Shapes DEF Spawn, WriteRunning
                    <6> QED
                        BY <2>1, <5>4, <6>1 DEF Spawn, WriteRunning
                <5>5. CASE KeepPortfolio(p) \/ KeepWorker(p) \/ RemovePid(p)
                    <6>1. process[p] \in [pc : {"list", "prepare", "worker", "start", "save"},
                                          loaded : Loaded]
                        BY <5>5, Shapes DEF KeepPortfolio, KeepWorker, RemovePid
                    <6> QED
                        BY <2>1, <5>5, <6>1 DEF KeepPortfolio, KeepWorker, RemovePid
                <5> QED
                    BY <1>2, <3>2, <5>1, <5>2, <5>3, <5>4, <5>5 DEF ProcessStep
            <4> QED
                BY <4>2, <4>3
        <3> QED
            BY <3>1, <3>2
    <2>3. (Launching(p) \/ At(p, "list"))' => p \in CycleProcesses
        <3> USE DEF At, Goto, Launching, Idle
        <3>1. CASE Launching(p) \/ At(p, "list")
            BY <3>1 DEF CyclesCounted
        <3>2. CASE ~(Launching(p) \/ At(p, "list"))
            <4>1. CASE Start(p) \/ ChoosePortfolio(p) \/ ConfigurePortfolio(p) \/ StartWorker(p)
                       \/ WritePid(p) \/ Save(p) \/ Die(p)
                BY <2>1, <4>1 DEF Start, ChoosePortfolio, ConfigurePortfolio, StartWorker,
                   WritePid, Save, Die
            <4>2. CASE KeepPortfolio(p) \/ KeepWorker(p) \/ RemovePid(p)
                <5>1. process[p] \in [pc : {"list", "prepare", "worker", "start", "save"},
                                      loaded : Loaded]
                    BY <4>2, Shapes DEF KeepPortfolio, KeepWorker, RemovePid
                <5> QED
                    BY <2>1, <4>2, <5>1 DEF KeepPortfolio, KeepWorker, RemovePid
            <4> QED
                BY <1>2, <3>2, <4>1, <4>2 DEF ProcessStep, ListJobs, Launch, Spawn,
                   WriteRunning, RenameRunning, AllLaunched
        <3> QED
            BY <3>1, <3>2
    <2> QED
        BY <2>1, <2>2, <2>3 DEF CyclesCounted, Launching, At
<1> QED
    BY <1>1, <1>2 DEF AutopilotNext, autopilotVars, Preflight, Poll, PaperLost,
       ActivateEmergencyStop, ClearEmergencyStop

-----------------------------------------------------------------------------
\* THE FILES OF A JOB

\* The jobs of the history are ended and numbered from one.
LEMMA JobsInit_Inv == AutopilotInit => JobsInv
<1> SUFFICES ASSUME AutopilotInit PROVE JobsInv
    OBVIOUS
<1>1. PICK past \in Histories :
          /\ receipt = [job \in Jobs |->
                 IF job \notin DOMAIN past THEN Absent
                 ELSE [recipe |-> past[job].recipe, full |-> past[job].full,
                       status |-> "SUCCEEDED"]]
          /\ temporary = [job \in Jobs |-> Absent]
          /\ research = [job \in Jobs |-> IF job \in DOMAIN past THEN "exited" ELSE "none"]
          /\ report = [job \in Jobs |-> IF job \in DOMAIN past THEN past[job].verdict
                                        ELSE Absent]
    BY DEF AutopilotInit, JobsInit
<1>2. /\ Len(past) \in 0..MaxJobs
      /\ DOMAIN past = 1..Len(past)
      /\ \A job \in DOMAIN past : /\ past[job].recipe \in Recipes
                                  /\ past[job].full \in BOOLEAN
                                  /\ past[job].verdict \in Verdicts
    <2> DEFINE Past == [recipe : Recipes, full : BOOLEAN, verdict : Verdicts]
    <2>1. past \in Seq(Past) /\ Len(past) <= MaxJobs
        BY HistoriesAssumption
    <2> HIDE DEF Past
    <2>2. \A job \in DOMAIN past : past[job] \in Past
        BY <2>1
    <2> QED
        BY <2>1, <2>2, HistoriesAssumption DEF Past
<1>3. \A job \in DOMAIN past :
          [recipe |-> past[job].recipe, full |-> past[job].full, status |-> "SUCCEEDED"] # Absent
    <2>1. \A job \in DOMAIN past :
              [recipe |-> past[job].recipe, full |-> past[job].full, status |-> "SUCCEEDED"]
                  \in Receipts
        BY <1>2 DEF Receipts, Statuses
    <2> QED
        BY <2>1, AbsentAssumption
<1>4. Launched = 1..Len(past)
    BY <1>1, <1>2, <1>3, HistoriesAssumption DEF Launched, Jobs
<1>5. Absent \notin Final /\ Absent \notin Verdicts
    BY AbsentAssumption DEF Final, Statuses
<1>6. \A job \in Jobs : JobOK(job)
    BY <1>1, <1>2, <1>3, <1>5 DEF JobOK, Researching, Final
<1>7. LaunchersOK
    BY DEF AutopilotInit, LaunchersOK, At, Idle
<1> QED
    BY <1>2, <1>4, <1>6, <1>7 DEF JobsInv, JobsInOrder

\* Every step keeps the receipts true to their workers.
LEMMA JobsStep ==
    ASSUME AutopilotTyped, CyclesCounted, JobsInv, [AutopilotNext]_autopilotVars
    PROVE  JobsInv'
<1>1. JobsTypeOK /\ process \in [Processes -> Locals]
    BY DEF AutopilotTyped
<1>2. Absent \notin Statuses /\ Absent \notin Verdicts /\ Absent \notin Receipts
    BY AbsentAssumption
<1>3. CASE ~JobStep
    <2>1. UNCHANGED jobVars
        BY <1>3, OtherSteps
    <2>2. \A p \in Processes : process'[p].pc \in {"spawn", "write", "rename"} =>
              process'[p] = process[p]
        BY <1>3, OtherSteps
    <2>3. JobsInOrder' /\ \A job \in Jobs : JobOK(job)'
        BY <2>1 DEF JobsInv, JobsInOrder, JobOK, jobVars, Launched, Researching
    <2>4. LaunchersOK'
        BY <2>1, <2>2 DEF JobsInv, LaunchersOK, jobVars, Launched, At
    <2> QED
        BY <2>3, <2>4 DEF JobsInv
<1>4. ASSUME NEW p \in Processes, Launch(p)
      PROVE  JobsInv'
    <2> DEFINE job == Cardinality(Launched) + 1
               request == Head(process[p].requests)
               new == [recipe |-> request.recipe, full |-> request.full, status |-> "STARTING"]
    <2>1. job \in Jobs /\ job \notin Launched /\ Launched \cup {job} = 1..job
        BY <1>4, NextJob DEF Launch
    <2>2. new \in Receipts
        <3>1. request \in Requests
            BY <1>4, Shapes DEF Launch
        <3> QED
            BY <3>1 DEF Requests, Receipts, Statuses
    <2>3. /\ receipt' = [receipt EXCEPT ![job] = new]
          /\ UNCHANGED <<temporary, research, report>>
        BY <1>4 DEF Launch, SaveStarting
    <2>4. process'[p].pc = "spawn" /\ process'[p].job = job
        BY <1>1, <1>4 DEF Launch
    <2>5. \A q \in Processes \ {p} : process'[q] = process[q]
        BY <1>4, ProcessTyped DEF ProcessStep
    <2>6. new.status = "STARTING"
        OBVIOUS
    <2> HIDE DEF job, new
    <2>7. Launched' = Launched \cup {job}
        BY <1>1, <1>2, <2>1, <2>2, <2>3 DEF Launched, JobsTypeOK
    <2>8. research[job] = "none" /\ receipt[job] = Absent
        BY <2>1 DEF Launched, JobsInv, JobOK
    <2>9. JobsInOrder'
        BY <2>1, <2>7, HistoriesAssumption DEF JobsInOrder, Jobs
    <2>10. ASSUME NEW other \in Jobs
           PROVE  JobOK(other)'
        <3>1. JobOK(other)
            BY DEF JobsInv
        <3>2. CASE other = job
            BY <1>1, <1>2, <2>2, <2>3, <2>6, <2>8, <3>1, <3>2
            DEF JobOK, JobsTypeOK, Researching
        <3>3. CASE other # job
            BY <1>1, <2>3, <3>1, <3>3 DEF JobOK, JobsTypeOK, Researching
        <3> QED
            BY <3>2, <3>3
    <2>11. LaunchersOK'
        <3>1. ASSUME NEW q \in Processes
              PROVE  /\ At(q, "spawn")' => /\ process'[q].job \in Launched'
                                           /\ research'[process'[q].job] = "none"
                     /\ process'[q].pc \in {"write", "rename"} =>
                            research'[process'[q].job] # "none"
            BY <2>3, <2>4, <2>5, <2>7, <2>8 DEF JobsInv, LaunchersOK, At
        <3>2. ASSUME NEW q \in Processes, NEW r \in Processes,
                     At(q, "spawn")', At(r, "spawn")', process'[q].job = process'[r].job
              PROVE  q = r
            BY <2>1, <2>4, <2>5, <3>2 DEF JobsInv, LaunchersOK, At
        <3> QED
            BY <3>1, <3>2 DEF LaunchersOK, At
    <2> QED
        BY <2>9, <2>10, <2>11 DEF JobsInv
<1>5. ASSUME NEW p \in Processes, Spawn(p)
      PROVE  JobsInv'
    <2> DEFINE job == process[p].job
    <2>1. job \in Jobs /\ job \in Launched /\ research[job] = "none"
        BY <1>5, Shapes DEF Spawn, At, JobsInv, LaunchersOK
    <2>2. /\ research' = [research EXCEPT ![job] = "working"]
          /\ UNCHANGED <<receipt, temporary, report>>
        BY <1>5 DEF Spawn, SpawnWorker
    <2>3. process'[p].pc = "write" /\ process'[p].job = job
        <3>1. process[p] \in [pc : {"spawn", "write", "rename"}, loaded : Loaded,
                              requests : Seq(Requests), job : Jobs]
            BY <1>5, Shapes DEF Spawn, At
        <3> QED
            BY <1>1, <1>5, <3>1 DEF Spawn, Goto
    <2>4. \A q \in Processes \ {p} : process'[q] = process[q]
        BY <1>5, ProcessTyped DEF ProcessStep
    <2>5. At(p, "spawn")
        BY <1>5 DEF Spawn
    <2>6. \A q \in Processes \ {p} : At(q, "spawn") => process[q].job # job
        BY <2>5 DEF JobsInv, LaunchersOK
    <2> HIDE DEF job
    <2>7. Launched' = Launched
        BY <2>2 DEF Launched
    <2>8. ASSUME NEW other \in Jobs
          PROVE  JobOK(other)'
        <3>1. JobOK(other)
            BY DEF JobsInv
        <3>2. CASE other = job
            BY <1>1, <1>2, <2>1, <2>2, <3>1, <3>2
            DEF JobOK, JobsTypeOK, Researching, Launched, Final, Statuses
        <3>3. CASE other # job
            BY <1>1, <2>2, <3>1, <3>3 DEF JobOK, JobsTypeOK, Researching
        <3> QED
            BY <3>2, <3>3
    <2>9. LaunchersOK'
        <3>1. ASSUME NEW q \in Processes
              PROVE  /\ At(q, "spawn")' => /\ process'[q].job \in Launched'
                                           /\ research'[process'[q].job] = "none"
                     /\ process'[q].pc \in {"write", "rename"} =>
                            research'[process'[q].job] # "none"
            <4>1. CASE q = p
                BY <1>1, <2>1, <2>2, <2>3, <4>1 DEF At, JobsTypeOK
            <4>2. CASE q # p
                <5>1. process[q].pc \in {"spawn", "write", "rename"} => process[q].job \in Jobs
                    BY Shapes
                <5> QED
                    BY <1>1, <2>2, <2>4, <2>6, <2>7, <4>2, <5>1
                    DEF At, JobsTypeOK, JobsInv, LaunchersOK
            <4> QED
                BY <4>1, <4>2
        <3>2. ASSUME NEW q \in Processes, NEW r \in Processes,
                     At(q, "spawn")', At(r, "spawn")', process'[q].job = process'[r].job
              PROVE  q = r
            BY <2>3, <2>4, <3>2 DEF JobsInv, LaunchersOK, At
        <3> QED
            BY <3>1, <3>2 DEF LaunchersOK, At
    <2> QED
        BY <2>7, <2>8, <2>9 DEF JobsInv, JobsInOrder
\* A write of receipt.tmp or a rename, by a launcher that has its worker.
<1>6. ASSUME NEW p \in Processes, WriteRunning(p) \/ RenameRunning(p)
      PROVE  JobsInv'
    <2> DEFINE job == process[p].job
    <2>1. job \in Jobs /\ research[job] # "none" /\ receipt[job] \in Receipts
        BY <1>6, Shapes, ReceiptThere DEF WriteRunning, RenameRunning, At, JobsInv, LaunchersOK
    <2>2. UNCHANGED <<research, report>>
        BY <1>6 DEF WriteRunning, RenameRunning, WriteTemporary, RenameTemporary
    <2>3. process'[p].pc # "spawn" /\ (process'[p].pc \in {"write", "rename"} =>
                                           process'[p].job = job)
        <3>1. process[p] \in [pc : {"spawn", "write", "rename"}, loaded : Loaded,
                              requests : Seq(Requests), job : Jobs]
            BY <1>6, Shapes DEF WriteRunning, RenameRunning, At
        <3> QED
            BY <1>1, <1>6, <3>1 DEF WriteRunning, RenameRunning, Goto, Idle
    <2>4. \A q \in Processes \ {p} : process'[q] = process[q]
        BY <1>6, ProcessTyped DEF ProcessStep
    <2>5. \/ receipt' = receipt /\ temporary' = [temporary EXCEPT ![job] = "RUNNING"]
          \/ receipt' = receipt /\ temporary' = [temporary EXCEPT ![job] = Absent]
          \/ /\ temporary[job] # Absent
             /\ receipt' = [receipt EXCEPT ![job].status = temporary[job]]
             /\ temporary' = [temporary EXCEPT ![job] = Absent]
        BY <1>6 DEF WriteRunning, RenameRunning, WriteTemporary, RenameTemporary
    <2> HIDE DEF job
    <2>6. Launched' = Launched /\ (temporary[job] # Absent =>
              [receipt[job] EXCEPT !.status = temporary[job]] \in Receipts)
        <3>1. temporary[job] # Absent =>
                  [receipt[job] EXCEPT !.status = temporary[job]] \in Receipts
            BY <1>1, <2>1 DEF Receipts, JobsTypeOK
        <3>2. receipt'[job] # Absent /\ receipt[job] # Absent
            BY <1>1, <1>2, <2>1, <2>5, <3>1 DEF JobsTypeOK
        <3>3. \A other \in Jobs \ {job} : receipt'[other] = receipt[other]
            BY <1>1, <2>5 DEF JobsTypeOK
        <3> QED
            BY <3>1, <3>2, <3>3 DEF Launched
    <2>7. ASSUME NEW other \in Jobs
          PROVE  JobOK(other)'
        <3>1. JobOK(other)
            BY DEF JobsInv
        <3>2. CASE other = job
            <4>1. temporary[job] \in Statuses \cup {Absent}
                BY <1>1, <2>1 DEF JobsTypeOK
            <4>2. /\ receipt'[job] # Absent
                  /\ \/ receipt'[job] = receipt[job]
                     \/ temporary[job] # Absent /\ receipt'[job].status = temporary[job]
                BY <1>1, <1>2, <2>1, <2>5, <2>6 DEF JobsTypeOK, Receipts
            <4>3. temporary'[job] \in {"RUNNING", Absent}
                BY <1>1, <2>1, <2>5 DEF JobsTypeOK
            <4> QED
                BY <1>1, <1>2, <2>1, <2>2, <3>1, <3>2, <4>1, <4>2, <4>3
                DEF JobOK, JobsTypeOK, Researching, Final, Statuses
        <3>3. CASE other # job
            <4>1. receipt'[other] = receipt[other] /\ temporary'[other] = temporary[other]
                BY <1>1, <2>5, <3>3 DEF JobsTypeOK
            <4> QED
                BY <2>2, <3>1, <4>1 DEF JobOK, Researching
        <3> QED
            BY <3>2, <3>3
    <2>8. LaunchersOK'
        <3>1. ASSUME NEW q \in Processes
              PROVE  /\ At(q, "spawn")' => /\ process'[q].job \in Launched'
                                           /\ research'[process'[q].job] = "none"
                     /\ process'[q].pc \in {"write", "rename"} =>
                            research'[process'[q].job] # "none"
            BY <2>1, <2>2, <2>3, <2>4, <2>6 DEF JobsInv, LaunchersOK, At
        <3>2. ASSUME NEW q \in Processes, NEW r \in Processes,
                     At(q, "spawn")', At(r, "spawn")', process'[q].job = process'[r].job
              PROVE  q = r
            BY <2>3, <2>4, <3>2 DEF JobsInv, LaunchersOK, At
        <3> QED
            BY <3>1, <3>2 DEF LaunchersOK, At
    <2> QED
        BY <2>6, <2>7, <2>8 DEF JobsInv, JobsInOrder
<1>7. ASSUME NEW job \in Jobs, WorkerStep(job), UNCHANGED process
      PROVE  JobsInv'
    <2>1. research[job] # "none" /\ research'[job] # "none" /\ receipt[job] \in Receipts
        <3>1. research[job] # "none" /\ research'[job] # "none"
            BY <1>1, <1>7 DEF WorkerStep, WriteReport, WriteFinal, RenameFinal, WorkerLost,
               Researching, JobsTypeOK
        <3> QED
            BY <3>1, ReceiptThere
    <2>2. \A other \in Jobs \ {job} : /\ receipt'[other] = receipt[other]
                                      /\ temporary'[other] = temporary[other]
                                      /\ research'[other] = research[other]
                                      /\ report'[other] = report[other]
        BY <1>1, <1>7 DEF WorkerStep, WriteReport, WriteFinal, RenameFinal, WorkerLost,
           WriteTemporary, RenameTemporary, JobsTypeOK
    <2>3. temporary[job] # Absent =>
              [receipt[job] EXCEPT !.status = temporary[job]] \in Receipts
        BY <1>1, <2>1 DEF Receipts, JobsTypeOK
    <2>4. /\ receipt'[job] # Absent
          /\ \/ receipt'[job] = receipt[job]
             \/ /\ temporary[job] # Absent /\ receipt'[job].status = temporary[job]
                /\ RenameFinal(job)
        BY <1>1, <1>2, <1>7, <2>1, <2>3 DEF WorkerStep, WriteReport, WriteFinal, RenameFinal,
           WorkerLost, WriteTemporary, RenameTemporary, JobsTypeOK, Receipts
    <2>5. Launched' = Launched
        BY <1>2, <2>1, <2>2, <2>4 DEF Launched
    <2>6. JobOK(job)'
        <3>1. JobOK(job) /\ temporary[job] \in Statuses \cup {Absent}
            BY <1>1 DEF JobsInv, JobsTypeOK
        <3>2. CASE WriteReport(job)
            <4>1. /\ research[job] = "working" /\ research'[job] = "reported"
                  /\ report'[job] \in Verdicts
                  /\ receipt'[job] = receipt[job] /\ temporary'[job] = temporary[job]
                BY <1>1, <3>2 DEF WriteReport, JobsTypeOK
            <4> QED
                BY <1>2, <2>4, <3>1, <4>1 DEF JobOK, Researching
        <3>3. CASE WriteFinal(job)
            <4>1. /\ research[job] \in {"working", "reported"} /\ research'[job] = "saving"
                  /\ temporary'[job] = FinalStatus(job)
                  /\ receipt'[job] = receipt[job] /\ report'[job] = report[job]
                BY <1>1, <3>3 DEF WriteFinal, WriteTemporary, Researching, JobsTypeOK
            <4> QED
                BY <2>4, <3>1, <4>1 DEF JobOK, Researching, FinalStatus
        <3>4. CASE RenameFinal(job)
            <4>1. /\ research'[job] = "exited" /\ temporary'[job] = Absent
                  /\ report'[job] = report[job]
                BY <1>1, <3>4 DEF RenameFinal, RenameTemporary, JobsTypeOK
            <4>2. Absent # "SUCCEEDED"
                BY <1>2 DEF Statuses
            <4> QED
                BY <2>4, <3>1, <4>1, <4>2 DEF JobOK, Researching
        <3>5. CASE WorkerLost(job)
            <4>1. /\ research'[job] = "exited" /\ temporary'[job] = temporary[job]
                  /\ receipt'[job] = receipt[job] /\ report'[job] = report[job]
                BY <1>1, <3>5 DEF WorkerLost, JobsTypeOK
            <4> QED
                BY <2>4, <3>1, <4>1 DEF JobOK, Researching
        <3> QED
            BY <1>7, <3>2, <3>3, <3>4, <3>5 DEF WorkerStep
    <2>7. \A other \in Jobs : JobOK(other)'
        BY <2>2, <2>6 DEF JobsInv, JobOK, Researching
    <2>8. LaunchersOK'
        <3>1. \A q \in Processes : process[q].pc \in {"spawn", "write", "rename"} =>
                  process[q].job \in Jobs
            BY Shapes
        <3> QED
            BY <1>7, <2>1, <2>2, <2>5, <3>1 DEF JobsInv, LaunchersOK, At
    <2> QED
        BY <2>5, <2>7, <2>8 DEF JobsInv, JobsInOrder
<1> QED
    BY <1>3, <1>4, <1>5, <1>6, <1>7 DEF JobStep

-----------------------------------------------------------------------------
\* WHAT OUTLIVES A STEP

\* The receipt of a job keeps its recipe and its window, and a report stays as
\* it was written; only a launch adds a receipt.
LEMMA FilesKept ==
    ASSUME AutopilotTyped, CyclesCounted, JobsInv, [AutopilotNext]_autopilotVars
    PROVE  /\ \A job \in Launched : /\ job \in Launched'
                                    /\ receipt'[job].recipe = receipt[job].recipe
                                    /\ receipt'[job].full = receipt[job].full
           /\ \A job \in Jobs : report[job] # Absent => report'[job] = report[job]
           /\ (\A p \in Processes : ~Launch(p)) => Launched' = Launched
<1>1. JobsTypeOK /\ Absent \notin Receipts
    BY AbsentAssumption DEF AutopilotTyped
<1>2. CASE ~JobStep
    BY <1>2, OtherSteps DEF jobVars, Launched
<1>3. ASSUME NEW p \in Processes, Launch(p)
      PROVE  /\ \A job \in Launched : receipt'[job] = receipt[job]
             /\ report' = report
    <2>1. Cardinality(Launched) + 1 \notin Launched
        BY <1>3, NextJob DEF Launch
    <2> QED
        BY <1>1, <1>3, <2>1 DEF Launch, SaveStarting, Launched, JobsTypeOK
<1>4. ASSUME NEW p \in Processes, Spawn(p) \/ WriteRunning(p)
      PROVE  receipt' = receipt /\ report' = report
    BY <1>4 DEF Spawn, WriteRunning, SpawnWorker, WriteTemporary
<1>5. ASSUME NEW job \in Jobs, RenameTemporary(job), research[job] # "none"
      PROVE  /\ \A other \in Jobs : /\ receipt'[other] = Absent <=> receipt[other] = Absent
                                    /\ receipt[other] # Absent =>
                                           /\ receipt'[other].recipe = receipt[other].recipe
                                           /\ receipt'[other].full = receipt[other].full
             /\ report' = report
    <2>1. receipt[job] \in Receipts
        BY <1>5, ReceiptThere
    <2>2. temporary[job] # Absent => [receipt[job] EXCEPT !.status = temporary[job]] \in Receipts
        BY <1>1, <2>1 DEF Receipts, JobsTypeOK
    <2>3. \A other \in Jobs \ {job} : receipt'[other] = receipt[other]
        BY <1>1, <1>5 DEF RenameTemporary, JobsTypeOK
    <2>4. receipt'[job] = receipt[job]
          \/ (temporary[job] # Absent /\ receipt'[job] = [receipt[job] EXCEPT !.status = temporary[job]])
        BY <1>1, <1>5 DEF RenameTemporary, JobsTypeOK
    <2>5. receipt'[job] # Absent /\ receipt[job] # Absent
        BY <1>1, <2>1, <2>2, <2>4
    <2>6. receipt'[job].recipe = receipt[job].recipe /\ receipt'[job].full = receipt[job].full
        BY <2>1, <2>4 DEF Receipts
    <2>7. report' = report
        BY <1>5 DEF RenameTemporary
    <2> QED
        BY <2>3, <2>5, <2>6, <2>7
<1>6. ASSUME NEW p \in Processes, RenameRunning(p)
      PROVE  \E job \in Jobs : RenameTemporary(job) /\ research[job] # "none"
    BY <1>6, Shapes DEF RenameRunning, At, JobsInv, LaunchersOK
<1>7. ASSUME NEW job \in Jobs, WorkerStep(job), ~RenameFinal(job)
      PROVE  receipt' = receipt /\ \A other \in Jobs : report[other] # Absent =>
                                                           report'[other] = report[other]
    <2>1. CASE WriteReport(job)
        <3>1. report[job] = Absent
            BY <2>1 DEF WriteReport, JobsInv, JobOK
        <3> QED
            BY <1>1, <2>1, <3>1 DEF WriteReport, JobsTypeOK
    <2>2. CASE WriteFinal(job) \/ WorkerLost(job)
        BY <2>2 DEF WriteFinal, WriteTemporary, WorkerLost
    <2> QED
        BY <1>7, <2>1, <2>2 DEF WorkerStep
<1>8. ASSUME NEW job \in Jobs, RenameFinal(job)
      PROVE  RenameTemporary(job) /\ research[job] # "none"
    BY <1>8 DEF RenameFinal
<1>9. (\A p \in Processes : ~Launch(p)) => Launched' = Launched
    BY <1>2, <1>4, <1>5, <1>6, <1>7, <1>8 DEF JobStep, Launched, OtherSteps, jobVars
<1>10. \A job \in Jobs : report[job] # Absent => report'[job] = report[job]
    BY <1>2, <1>3, <1>4, <1>5, <1>6, <1>7, <1>8 DEF JobStep, Launched, jobVars
<1>11. \A job \in Launched : /\ job \in Launched'
                             /\ receipt'[job].recipe = receipt[job].recipe
                             /\ receipt'[job].full = receipt[job].full
    BY <1>2, <1>3, <1>4, <1>5, <1>6, <1>7, <1>8 DEF JobStep, Launched, jobVars
<1> QED
    BY <1>9, <1>10, <1>11

\* How a process comes to have requests: from its plan, or it had them.
LEMMA RequestsFrom ==
    ASSUME AutopilotTyped, CyclesCounted, JobsInv, [AutopilotNext]_autopilotVars,
           NEW p \in Processes, Launching(p)', ~ListJobs(p), ~Launch(p)
    PROVE  /\ Launching(p) /\ process'[p].requests = process[p].requests
           /\ At(p, "spawn") /\ ~At(p, "spawn")' => Spawn(p)
           /\ At(p, "spawn")' => At(p, "spawn")
<1> USE DEF Launching, At, Goto
<1>1. CASE process'[p] = process[p]
    BY <1>1
<1>2. CASE process'[p] # process[p]
    <2>1. ProcessStep(p)
        <3>1. process' # process
            BY <1>2
        <3>2. \E q \in Processes : ProcessStep(q)
            BY <3>1 DEF AutopilotNext, autopilotVars, Preflight, Poll, PaperLost,
               ActivateEmergencyStop, ClearEmergencyStop
        <3> QED
            BY <1>2, <3>2, ProcessTyped
    <2>2. process \in [Processes -> Locals]
        BY DEF AutopilotTyped
    <2>3. ~(KeepPortfolio(p) \/ KeepWorker(p) \/ RemovePid(p))
        <3>1. KeepPortfolio(p) \/ KeepWorker(p) \/ RemovePid(p) =>
                  process[p] \in [pc : {"list", "prepare", "worker", "start", "save"},
                                  loaded : Loaded]
            BY Shapes DEF KeepPortfolio, KeepWorker, RemovePid
        <3> QED
            BY <2>2, <3>1 DEF KeepPortfolio, KeepWorker, RemovePid
    <2>4. Spawn(p) \/ WriteRunning(p) \/ RenameRunning(p)
        BY <2>1, <2>2, <2>3 DEF ProcessStep, Start, AllLaunched, ChoosePortfolio,
           ConfigurePortfolio, StartWorker, WritePid, Save, Die, Idle
    <2>5. process[p] \in [pc : {"spawn", "write", "rename"}, loaded : Loaded,
                          requests : Seq(Requests), job : Jobs]
        BY <2>4, Shapes DEF Spawn, WriteRunning, RenameRunning
    <2> QED
        BY <2>2, <2>4, <2>5 DEF Spawn, WriteRunning, RenameRunning, Idle
<1> QED
    BY <1>1, <1>2

-----------------------------------------------------------------------------
\* THE BOUND ON RESEARCH WORKERS

\* A worker that does research has a receipt that counts.
LEMMA ResearchersCount ==
    ASSUME AutopilotTyped, JobsInv
    PROVE  Researching \subseteq InStatus({"STARTING", "RUNNING"})
<1> SUFFICES ASSUME NEW job \in Researching
             PROVE  job \in InStatus({"STARTING", "RUNNING"})
    OBVIOUS
<1>1. job \in Jobs /\ JobOK(job) /\ research[job] \in {"working", "reported"}
    BY DEF Researching, JobsInv
<1>2. receipt[job] \in Receipts
    BY <1>1, ReceiptThere
<1>3. receipt[job] # Absent /\ receipt[job].status \notin Final
    BY <1>1 DEF JobOK, Researching
<1> QED
    BY <1>1, <1>2, <1>3 DEF InStatus, Launched, Receipts, Statuses, Final

\* Only Spawn adds to the workers that do research, and one at a time.
LEMMA ResearchersGrow ==
    ASSUME AutopilotTyped, CyclesCounted, JobsInv, [AutopilotNext]_autopilotVars
    PROVE  \/ Researching' \subseteq Researching
           \/ \E p \in Processes : /\ Spawn(p)
                                   /\ Researching' = Researching \cup {process[p].job}
<1>1. JobsTypeOK
    BY DEF AutopilotTyped
<1>2. CASE ~JobStep
    BY <1>2, OtherSteps DEF jobVars, Researching
<1>3. ASSUME NEW p \in Processes, Spawn(p)
      PROVE  Researching' = Researching \cup {process[p].job}
    <2>1. process[p].job \in Jobs
        BY <1>3, Shapes DEF Spawn, At
    <2> QED
        BY <1>1, <1>3, <2>1 DEF Spawn, SpawnWorker, Researching, JobsTypeOK
<1>4. ASSUME NEW p \in Processes, Launch(p) \/ WriteRunning(p) \/ RenameRunning(p)
      PROVE  Researching' \subseteq Researching
    BY <1>4 DEF Launch, SaveStarting, WriteRunning, RenameRunning, Researching
<1>5. ASSUME NEW job \in Jobs, WorkerStep(job)
      PROVE  Researching' \subseteq Researching
    BY <1>1, <1>5 DEF WorkerStep, WriteReport, WriteFinal, RenameFinal, WorkerLost,
       Researching, JobsTypeOK
<1> QED
    BY <1>2, <1>3, <1>4, <1>5 DEF JobStep

\* Every step keeps the workers alive, and those a cycle may still start,
\* within the limit.
LEMMA BudgetStep ==
    ASSUME AutopilotTyped, CyclesCounted, JobsInv, [AutopilotNext]_autopilotVars,
           Cardinality(CycleProcesses) = 1, BudgetInv
    PROVE  BudgetInv'
<1> DEFINE R == Researching
           S == Researching'
<1>1. R \in SUBSET Jobs /\ S \in SUBSET Jobs
    BY DEF Researching
<1>2. /\ IsFiniteSet(R) /\ Cardinality(R) \in Nat
      /\ IsFiniteSet(S) /\ Cardinality(S) \in Nat /\ MaxRunningJobs \in Nat
    BY <1>1, JobsFinite, LimitsAssumption
<1>3. PICK c : CycleProcesses = {c}
    BY LimitsAssumption, FS_Singleton
<1>4. c \in Processes
    BY <1>3 DEF Processes
<1>5. \A p \in Processes : Launching(p) => p = c
    BY <1>3 DEF CyclesCounted
<1>6. Cardinality(R) <= MaxRunningJobs
      /\ (Launching(c) => Cardinality(R) + Ahead(c) <= MaxRunningJobs)
    BY <1>3 DEF BudgetInv
<1>7. Launching(c) => process[c].requests \in Seq(Requests)
    BY <1>4, Shapes DEF Launching, At
\* A worker more than before is one of those that were ahead.
<1>8. CASE Spawn(c)
    <2>1. At(c, "spawn") /\ process'[c].pc = "write" /\ process'[c].requests = process[c].requests
        <3>1. process[c] \in [pc : {"spawn", "write", "rename"}, loaded : Loaded,
                              requests : Seq(Requests), job : Jobs]
            BY <1>4, <1>8, Shapes DEF Spawn, At
        <3> QED
            BY <1>4, <1>8, <3>1 DEF Spawn, Goto, At, AutopilotTyped
    <2>2. ~(S \subseteq R) => S = R \cup {process[c].job}
        <3>1. \A p \in Processes : Spawn(p) => p = c
            BY <1>5 DEF Spawn, At, Launching
        <3> QED
            BY <3>1, ResearchersGrow
    <2>3. Cardinality(S) <= Cardinality(R) + 1
        <3>1. CASE S \subseteq R
            BY <1>2, <3>1, FS_Subset
        <3>2. CASE S = R \cup {process[c].job}
            <4>1. CASE process[c].job \in R
                <5>1. S = R
                    BY <3>2, <4>1
                <5> QED
                    BY <1>2, <5>1
            <4>2. CASE process[c].job \notin R
                <5>1. Cardinality(R \cup {process[c].job}) = Cardinality(R) + 1
                    BY <1>2, <4>2, FS_AddElement
                <5>2. Cardinality(S) = Cardinality(R) + 1
                    BY <3>2, <5>1
                <5> QED
                    BY <1>2, <5>2
            <4> QED
                BY <4>1, <4>2
        <3> QED
            BY <2>2, <3>1, <3>2
    <2>4. Ahead(c) = Len(process[c].requests) + 1 /\ Ahead(c)' = Len(process[c].requests)
        BY <2>1, <1>7 DEF Ahead, At, Launching
    <2>5. Launching(c) /\ Len(process[c].requests) \in Nat
        BY <2>1, <1>7 DEF Launching, At
    <2>6. Cardinality(S) + Ahead(c)' <= MaxRunningJobs /\ Cardinality(S) <= MaxRunningJobs
        BY <1>2, <1>6, <2>3, <2>4, <2>5
    <2> QED
        BY <1>3, <2>6 DEF BudgetInv
<1>9. CASE ~Spawn(c)
    <2>1. S \subseteq R
        <3>1. \A p \in Processes : ~Spawn(p)
            BY <1>5, <1>9 DEF Spawn, At, Launching
        <3> QED
            BY <3>1, ResearchersGrow
    <2>2. Cardinality(S) <= Cardinality(R)
        BY <1>2, <2>1, FS_Subset
    <2>3. ASSUME Launching(c)'
          PROVE  Cardinality(S) + Ahead(c)' <= MaxRunningJobs
        <3>1. CASE ListJobs(c)
            <4> DEFINE busy == Cardinality(InStatus({"STARTING", "RUNNING"}))
            <4>1. PICK plan \in Plans(process[c].loaded.cursor) :
                      process' = [process EXCEPT ![c] =
                          [pc |-> "launch",
                           loaded |-> [@.loaded EXCEPT !.cursor = plan.cursor],
                           requests |-> plan.requests]]
                BY <3>1 DEF ListJobs
            <4>2. process[c].loaded \in Loaded
                BY <1>4, <3>1, Shapes DEF ListJobs, At
            <4>3. plan.requests \in Seq(Requests) /\ Len(plan.requests) <= Slots
                BY <4>1, <4>2, PlanWithinSlots DEF AutopilotTyped, Loaded
            <4>4. process'[c].pc = "launch" /\ process'[c].requests = plan.requests
                BY <1>4, <4>1 DEF AutopilotTyped
            <4>5. Ahead(c)' = Len(plan.requests) /\ Len(plan.requests) \in Nat
                BY <4>3, <4>4 DEF Ahead, At
            <4>6. Cardinality(R) <= busy
                <5>1. IsFiniteSet(InStatus({"STARTING", "RUNNING"}))
                    BY JobsFinite DEF InStatus, Launched
                <5> QED
                    BY <5>1, ResearchersCount, FS_Subset
            <4>7. /\ busy \in Nat /\ Slots \in Nat
                  /\ Slots = IF MaxRunningJobs - busy >= 0 THEN MaxRunningJobs - busy ELSE 0
                BY SlotsLeft
            <4> HIDE DEF busy
            <4> QED
                BY <1>2, <1>6, <2>2, <4>3, <4>5, <4>6, <4>7
        <3>2. CASE Launch(c)
            <4>1. process[c].requests \in Seq(Requests) /\ process[c].requests # <<>>
                BY <1>4, <3>2, Shapes DEF Launch
            <4>2. At(c, "launch") /\ process'[c].pc = "spawn"
                  /\ process'[c].requests = Tail(process[c].requests)
                BY <1>4, <3>2 DEF Launch, AutopilotTyped
            <4>3. Ahead(c)' = Len(Tail(process[c].requests)) + 1
                  /\ Ahead(c) = Len(process[c].requests) /\ Launching(c)
                BY <4>1, <4>2 DEF Ahead, At, Launching
            <4>4. Len(Tail(process[c].requests)) = Len(process[c].requests) - 1
                  /\ Len(process[c].requests) \in Nat
                BY <4>1
            <4> QED
                BY <1>2, <1>6, <2>2, <4>3, <4>4
        <3>3. CASE ~ListJobs(c) /\ ~Launch(c)
            <4>1. /\ Launching(c) /\ process'[c].requests = process[c].requests
                  /\ At(c, "spawn") <=> At(c, "spawn")'
                BY <1>4, <1>9, <2>3, <3>3, RequestsFrom
            <4>2. Ahead(c)' = Ahead(c) /\ Ahead(c) \in Nat
                <5>1. process[c].requests \in Seq(Requests)
                    BY <1>7, <4>1
                <5>2. Len(process[c].requests) \in Nat
                    BY <5>1
                <5>3. CASE At(c, "spawn")
                    <6>1. At(c, "spawn")'
                        BY <4>1, <5>3
                    <6> QED
                        BY <4>1, <5>2, <5>3, <6>1 DEF Ahead
                <5>4. CASE ~At(c, "spawn")
                    <6>1. ~At(c, "spawn")'
                        BY <4>1, <5>4
                    <6> QED
                        BY <4>1, <5>2, <5>4, <6>1 DEF Ahead
                <5> QED
                    BY <5>3, <5>4
            <4> QED
                BY <1>2, <1>6, <2>2, <4>1, <4>2
        <3> QED
            BY <3>1, <3>2, <3>3
    <2>4. Cardinality(S) <= MaxRunningJobs
        BY <1>2, <1>6, <2>2
    <2> QED
        BY <1>3, <2>3, <2>4 DEF BudgetInv
<1> QED
    BY <1>8, <1>9

-----------------------------------------------------------------------------
\* THE FULL WINDOW OF A LONG RECIPE

\* Every step keeps to one full window of a long recipe, planned or launched.
LEMMA EscalationStep ==
    ASSUME AutopilotTyped, CyclesCounted, JobsInv, [AutopilotNext]_autopilotVars,
           Cardinality(CycleProcesses) = 1, EscalationInv
    PROVE  EscalationInv'
<1>1. PICK c : CycleProcesses = {c}
    BY LimitsAssumption, FS_Singleton
<1>2. c \in Processes
    BY <1>1 DEF Processes
<1>3. \A p \in Processes : Launching(p) => p = c
    BY <1>1 DEF CyclesCounted
<1> SUFFICES ASSUME NEW recipe \in LongRecipes
             PROVE  /\ \A i, j \in FullWindows(recipe)' : i = j
                    /\ Launching(c)' =>
                           \A i \in DOMAIN process'[c].requests :
                               process'[c].requests[i] = [recipe |-> recipe, full |-> TRUE] =>
                                   i = 1 /\ FullWindows(recipe)' = {}
    BY <1>1 DEF EscalationInv
<1> DEFINE full == [recipe |-> recipe, full |-> TRUE]
<1>4. /\ \A i, j \in FullWindows(recipe) : i = j
      /\ Launching(c) => \A i \in DOMAIN process[c].requests :
                             process[c].requests[i] = full =>
                                 i = 1 /\ FullWindows(recipe) = {}
    BY <1>1 DEF EscalationInv
<1>5. CASE Launch(c)
    <2> DEFINE job == Cardinality(Launched) + 1
               requests == process[c].requests
               request == Head(requests)
    <2>1. requests \in Seq(Requests) /\ requests # <<>> /\ Launching(c)
        BY <1>2, <1>5, Shapes DEF Launch, Launching, At
    <2>2. job \in Jobs /\ job \notin Launched
        BY <1>5, NextJob DEF Launch
    <2>3. receipt' = [receipt EXCEPT ![job] = [recipe |-> request.recipe,
                                               full |-> request.full, status |-> "STARTING"]]
        BY <1>5 DEF Launch, SaveStarting
    <2>4. process'[c].requests = Tail(requests)
        BY <1>2, <1>5 DEF Launch, AutopilotTyped
    <2>5. requests[1] = request /\ request \in Requests
        BY <2>1
    <2>6. Len(Tail(requests)) = Len(requests) - 1
          /\ DOMAIN Tail(requests) = 1..(Len(requests) - 1)
          /\ \A i \in 1..(Len(requests) - 1) : Tail(requests)[i] = requests[i + 1]
        BY <2>1
    <2>7. DOMAIN requests = 1..Len(requests) /\ Len(requests) \in Nat /\ 1 \in DOMAIN requests
        BY <2>1
    <2> HIDE DEF job, requests, request
    <2>8. FullWindows(recipe)' \subseteq
              FullWindows(recipe) \cup (IF request = full THEN {job} ELSE {})
        <3> SUFFICES ASSUME NEW other \in FullWindows(recipe)', other \notin FullWindows(recipe)
                     PROVE  other = job /\ request = full
            OBVIOUS
        <3>1. other \in Jobs /\ receipt'[other] # Absent /\ receipt'[other].recipe = recipe
              /\ receipt'[other].full
            BY DEF FullWindows, Launched
        <3>2. other = job
            <4> SUFFICES ASSUME other # job PROVE FALSE
                OBVIOUS
            <4>1. receipt'[other] = receipt[other]
                BY <2>3, <3>1 DEF AutopilotTyped, JobsTypeOK
            <4> QED
                BY <3>1, <4>1 DEF FullWindows, Launched
        <3>3. request.recipe = recipe /\ request.full
            BY <2>2, <2>3, <3>1, <3>2 DEF AutopilotTyped, JobsTypeOK
        <3>4. request = full
            BY <2>5, <3>3 DEF Requests
        <3> QED
            BY <3>2, <3>4
    <2>9. request = full => FullWindows(recipe) = {}
        BY <1>4, <2>1, <2>5, <2>7 DEF requests
    <2>10. \A i, j \in FullWindows(recipe)' : i = j
        BY <1>4, <2>8, <2>9
    <2>11. ASSUME NEW i \in DOMAIN Tail(requests), Tail(requests)[i] = full
           PROVE  FALSE
        <3>1. i + 1 \in DOMAIN requests /\ requests[i + 1] = full /\ i + 1 # 1
            BY <2>6, <2>7, <2>11
        <3> QED
            BY <1>4, <2>1, <3>1 DEF requests
    <2> QED
        BY <2>4, <2>10, <2>11
<1>6. CASE ~Launch(c)
    <2>1. \A p \in Processes : ~Launch(p)
        BY <1>3, <1>6 DEF Launch, At, Launching
    <2>2. FullWindows(recipe)' = FullWindows(recipe)
        BY <2>1, FilesKept DEF FullWindows
    <2>3. ASSUME Launching(c)', NEW i \in DOMAIN process'[c].requests,
                 process'[c].requests[i] = full
          PROVE  i = 1 /\ FullWindows(recipe) = {}
        <3>1. CASE ListJobs(c)
            <4>1. PICK plan \in Plans(process[c].loaded.cursor) :
                      process' = [process EXCEPT ![c] =
                          [pc |-> "launch",
                           loaded |-> [@.loaded EXCEPT !.cursor = plan.cursor],
                           requests |-> plan.requests]]
                BY <3>1 DEF ListJobs
            <4>2. process[c].loaded \in Loaded
                BY <1>2, <3>1, Shapes DEF ListJobs, At
            <4>3. process'[c].requests = plan.requests
                BY <1>2, <4>1 DEF AutopilotTyped
            <4>4. plan.requests[i].full /\ plan.requests[i].recipe = recipe
                BY <2>3, <4>3
            <4>5. i = 1 /\ recipe \in DeepCandidates
                BY <2>3, <4>1, <4>2, <4>3, <4>4, PlanWithinSlots DEF AutopilotTyped, Loaded
            <4>6. FullWindows(recipe) = {}
                BY <4>5 DEF DeepCandidates, FullWindows
            <4> QED
                BY <4>5, <4>6
        <3>2. CASE ~ListJobs(c)
            <4>1. Launching(c) /\ process'[c].requests = process[c].requests
                BY <1>2, <1>6, <2>3, <3>2, RequestsFrom
            <4> QED
                BY <1>4, <2>3, <4>1
        <3> QED
            BY <3>1, <3>2
    <2> QED
        BY <1>4, <2>2, <2>3
<1> QED
    BY <1>5, <1>6

-----------------------------------------------------------------------------
\* THE PORTFOLIO BEHIND A PAPER WORKER

\* A candidate that has qualified stays qualified.
LEMMA GoodStaysGood ==
    ASSUME AutopilotTyped, CyclesCounted, JobsInv, [AutopilotNext]_autopilotVars,
           NEW jobs, GoodPortfolio(jobs)
    PROVE  \E product \in SearchedProducts :
               jobs \subseteq Qualified(product)' /\ Cardinality(jobs) >= 2
<1>1. PICK product \in SearchedProducts :
          jobs \subseteq Qualified(product) /\ Cardinality(jobs) >= 2
    BY DEF GoodPortfolio
<1>2. ASSUME NEW job \in Qualified(product)
      PROVE  job \in Qualified(product)'
    <2>1. job \in Jobs /\ job \in Launched /\ report[job] = "qualified"
          /\ receipt[job].recipe[1] = product
        BY DEF Qualified, Launched
    <2>2. report[job] # Absent
        BY <2>1, AbsentAssumption
    <2> QED
        BY <2>1, <2>2, FilesKept DEF Qualified
<1> QED
    BY <1>1, <1>2

\* A portfolio that may trade is not empty.
LEMMA GoodIsNotEmpty == \A jobs : GoodPortfolio(jobs) => jobs # {}
<1> SUFFICES ASSUME GoodPortfolio({}) PROVE FALSE
    OBVIOUS
<1>1. Cardinality({}) >= 2
    BY DEF GoodPortfolio
<1> QED
    BY <1>1, FS_EmptySet

\* _auto_prepare_paper chooses two to four qualified candidates of one product.
LEMMA ChosenIsGood ==
    ASSUME NEW chosen \in Portfolios
    PROVE  GoodPortfolio(chosen)
<1>1. PICK product \in SearchedProducts :
          /\ Cardinality(Qualified(product)) >= 2
          /\ chosen \in kSubset(Min({4, Cardinality(Qualified(product))}), Qualified(product))
    BY DEF Portfolios
<1>2. Cardinality(Qualified(product)) \in Nat
    BY JobsFinite DEF Qualified, Launched
<1>3. Min({4, Cardinality(Qualified(product))}) >= 2
    BY <1>1, <1>2, MinOfTwo
<1>4. chosen \subseteq Qualified(product)
      /\ Cardinality(chosen) = Min({4, Cardinality(Qualified(product))})
    BY <1>1 DEF kSubset
<1> QED
    BY <1>3, <1>4 DEF GoodPortfolio

\* Every step keeps a good portfolio in the settings once there is one.
LEMMA PaperStep ==
    ASSUME AutopilotTyped, CyclesCounted, JobsInv, [AutopilotNext]_autopilotVars, PaperInv
    PROVE  PaperInv'
<1>1. \A jobs : GoodPortfolio(jobs) =>
          \E product \in SearchedProducts :
              jobs \subseteq Qualified(product)' /\ Cardinality(jobs) >= 2
    BY GoodStaysGood
<1>2. CASE UNCHANGED <<process, portfolio>> /\ \A pid \in Pids : paper[pid] = "none" => paper'[pid] = "none"
    BY <1>1, <1>2 DEF PaperInv, GoodPortfolio, At
<1>3. ASSUME NEW p \in Processes, ProcessStep(p)
      PROVE  PaperInv'
    <2>1. process \in [Processes -> Locals] /\ \A q \in Processes \ {p} : process'[q] = process[q]
        BY <1>3, ProcessTyped DEF AutopilotTyped
    <2>2. portfolio' = portfolio \/ (ConfigurePortfolio(p) /\ portfolio' = process[p].chosen)
        BY <1>3 DEF ProcessStep, Start, ListJobs, Launch, Spawn, WriteRunning, RenameRunning,
           AllLaunched, KeepPortfolio, ChoosePortfolio, ConfigurePortfolio, KeepWorker,
           RemovePid, StartWorker, WritePid, Save, Die, paperVars
    <2>3. ConfigurePortfolio(p) => GoodPortfolio(process[p].chosen)
        BY DEF ConfigurePortfolio, PaperInv
    <2>4. (portfolio = {} \/ GoodPortfolio(portfolio)) /\ (portfolio # {} => portfolio' # {})
        BY <2>2, <2>3, GoodIsNotEmpty DEF PaperInv
    <2>5. portfolio' = {} \/ \E product \in SearchedProducts :
              portfolio' \subseteq Qualified(product)' /\ Cardinality(portfolio') >= 2
        BY <1>1, <2>2, <2>3, <2>4
    <2>6. /\ At(p, "configure")' => \E chosen \in Portfolios : process'[p].chosen = chosen
          /\ process'[p].pc \in {"start", "pid"} => portfolio # {}
        <3> USE DEF At, Goto, Idle
        <3>1. CASE Start(p) \/ ListJobs(p) \/ Launch(p) \/ RenameRunning(p) \/ AllLaunched(p)
                   \/ ConfigurePortfolio(p) \/ WritePid(p) \/ Save(p) \/ Die(p)
            BY <2>1, <3>1 DEF Start, ListJobs, Launch, RenameRunning, AllLaunched,
               ConfigurePortfolio, WritePid, Save, Die
        <3>2. CASE Spawn(p) \/ WriteRunning(p)
            <4>1. process[p] \in [pc : {"spawn", "write", "rename"}, loaded : Loaded,
                                  requests : Seq(Requests), job : Jobs]
                BY <3>2, Shapes DEF Spawn, WriteRunning
            <4> QED
                BY <2>1, <3>2, <4>1 DEF Spawn, WriteRunning
        <3>3. CASE KeepPortfolio(p) \/ KeepWorker(p) \/ RemovePid(p)
            <4>1. process[p] \in [pc : {"list", "prepare", "worker", "start", "save"},
                                  loaded : Loaded]
                BY <3>3, Shapes DEF KeepPortfolio, KeepWorker, RemovePid
            <4> QED
                BY <2>1, <3>3, <4>1 DEF KeepPortfolio, KeepWorker, RemovePid, WorkerNeeded
        <3>4. CASE ChoosePortfolio(p)
            BY <2>1, <3>4 DEF ChoosePortfolio
        <3>5. CASE StartWorker(p)
            <4>1. portfolio # {}
                BY <3>5 DEF StartWorker, PaperInv
            <4> QED
                BY <2>1, <3>5, <4>1 DEF StartWorker
        <3> QED
            BY <1>3, <3>1, <3>2, <3>3, <3>4, <3>5 DEF ProcessStep
    <2>7. ASSUME NEW q \in Processes
          PROVE  /\ At(q, "configure")' => \E product \in SearchedProducts :
                        /\ process'[q].chosen \subseteq Qualified(product)'
                        /\ Cardinality(process'[q].chosen) >= 2
                 /\ process'[q].pc \in {"start", "pid"} => portfolio' # {}
        <3>1. CASE q = p
            BY <1>1, <2>4, <2>6, <3>1, ChosenIsGood
        <3>2. CASE q # p
            BY <1>1, <2>1, <2>4, <3>2 DEF PaperInv, At
        <3> QED
            BY <3>1, <3>2
    <2>8. ASSUME NEW pid \in Pids, paper'[pid] # "none"
          PROVE  portfolio' # {}
        <3>1. CASE StartWorker(p)
            BY <2>4, <3>1 DEF StartWorker, PaperInv, At
        <3>2. CASE ~StartWorker(p)
            <4>1. paper' = paper
                BY <1>3, <3>2 DEF ProcessStep, Start, ListJobs, Launch, Spawn, WriteRunning,
                   RenameRunning, AllLaunched, KeepPortfolio, ChoosePortfolio,
                   ConfigurePortfolio, KeepWorker, RemovePid, WritePid, Save, Die, paperVars
            <4> QED
                BY <2>4, <2>8, <4>1 DEF PaperInv
        <3> QED
            BY <3>1, <3>2
    <2> QED
        BY <2>5, <2>7, <2>8 DEF PaperInv, GoodPortfolio, At
<1>4. CASE \E pid \in Pids : Preflight(pid) \/ Poll(pid) \/ PaperLost(pid)
    <2>1. \A pid \in Pids : paper[pid] = "none" => paper'[pid] = "none"
        BY <1>4 DEF Preflight, Poll, PaperLost, Alive, AutopilotTyped
    <2>2. UNCHANGED <<process, portfolio>>
        BY <1>4 DEF Preflight, Poll, PaperLost
    <2> QED
        BY <1>2, <2>1, <2>2
<1> QED
    BY <1>2, <1>3, <1>4 DEF AutopilotNext, autopilotVars, paperVars, ActivateEmergencyStop,
       ClearEmergencyStop

-----------------------------------------------------------------------------
\* THEOREMS

\* The invariant holds at first.
LEMMA InvInit == AutopilotInit => AutopilotInv
<1> SUFFICES ASSUME AutopilotInit PROVE AutopilotInv
    OBVIOUS
<1>1. AutopilotTyped /\ JobsInv
    BY TypedInit, JobsInit_Inv
<1>2. \A p \in Processes : process[p] = Idle
    BY DEF AutopilotInit
<1>3. CyclesCounted
    BY <1>2 DEF CyclesCounted, Launching, At, Idle
<1>4. PaperInv
    BY <1>2 DEF AutopilotInit, PaperInv, At, Idle
<1>5. BudgetInv
    <2>1. Researching = {}
        BY DEF AutopilotInit, JobsInit, Researching
    <2>2. Cardinality(Researching) <= MaxRunningJobs
        BY <2>1, FS_EmptySet, LimitsAssumption
    <2> QED
        BY <1>2, <2>2 DEF BudgetInv, Launching, Idle, Processes
<1>6. ASSUME NEW recipe \in LongRecipes,
             NEW i \in FullWindows(recipe), NEW j \in FullWindows(recipe)
      PROVE  i = j
    <2>1. PICK past \in Histories :
              receipt = [job \in Jobs |->
                 IF job \notin DOMAIN past THEN Absent
                 ELSE [recipe |-> past[job].recipe, full |-> past[job].full,
                       status |-> "SUCCEEDED"]]
        BY DEF AutopilotInit, JobsInit
    <2>2. \A job \in FullWindows(recipe) :
              job \in DOMAIN past /\ past[job].recipe = recipe /\ past[job].full
        BY <2>1 DEF FullWindows, Launched
    <2> QED
        BY <2>2, EscalationAssumption
<1>7. EscalationInv
    BY <1>2, <1>6 DEF EscalationInv, Launching, Idle, Processes
<1> QED
    BY <1>1, <1>3, <1>4, <1>5, <1>7 DEF AutopilotInv

\* Every step keeps the invariant.
LEMMA InvStep == AutopilotInv /\ [AutopilotNext]_autopilotVars => AutopilotInv'
<1> SUFFICES ASSUME AutopilotInv, [AutopilotNext]_autopilotVars PROVE AutopilotInv'
    OBVIOUS
<1>1. AutopilotTyped /\ CyclesCounted /\ JobsInv /\ PaperInv
    BY DEF AutopilotInv
<1>2. AutopilotTyped' /\ CyclesCounted' /\ JobsInv' /\ PaperInv'
    BY <1>1, TypedStep, CyclesStep, JobsStep, PaperStep
<1>3. Cardinality(CycleProcesses) = 1 => BudgetInv' /\ EscalationInv'
    BY <1>1, BudgetStep, EscalationStep DEF AutopilotInv
<1> QED
    BY <1>2, <1>3 DEF AutopilotInv

\* The invariant holds in every reachable state.
THEOREM InvAlways == AutopilotSpec => []AutopilotInv
<1> QED
    BY InvInit, InvStep, PTL DEF AutopilotSpec

\* Types: what the files and the processes hold is of its kind, and the number
\* of cycles never passes its bound, whichever of the processes saves the state.
THEOREM AutopilotTypes == AutopilotSpec => []AutopilotTypeOK
<1>1. AutopilotInv => AutopilotTypeOK
    <2> SUFFICES ASSUME AutopilotInv PROVE AutopilotTypeOK
        OBVIOUS
    <2>1. ASSUME NEW p \in Processes, process[p] # Idle
          PROVE  process[p].loaded \in StateFiles
        <3>1. process[p].loaded \in Loaded
            BY <2>1 DEF AutopilotInv, AutopilotTyped, Locals
        <3>2. Loaded \subseteq StateFiles
            <4>1. \A product \in SearchedProducts :
                      Max({RecipeCount[q] : q \in SearchedProducts}) \in Nat
                <5> TAKE product \in SearchedProducts
                <5>1. 0 \in 0..(RecipeCount[product] - 1)
                    BY ProductsTyped
                <5>2. Max({RecipeCount[q] : q \in SearchedProducts}) \in Nat
                    BY <5>1, CursorRange
                <5> QED
                    BY <5>2
            <4>2. ASSUME NEW cursor \in CursorValues
                  PROVE  cursor \in Cursors
                <5>1. ASSUME NEW product \in SearchedProducts
                      PROVE  cursor[product] \in Nat
                    <6>1. Max({RecipeCount[q] : q \in SearchedProducts}) \in Nat
                        BY <4>1
                    <6> QED
                        BY <6>1 DEF CursorValues
                <5> QED
                    BY <5>1 DEF CursorValues, Cursors
            <4> QED
                BY <4>2, LimitsAssumption DEF Loaded, StateFiles
        <3> QED
            BY <3>1, <3>2
    <2> QED
        BY <2>1 DEF AutopilotInv, AutopilotTyped, AutopilotTypeOK, Loaded, CursorValues
<1> QED
    BY <1>1, InvAlways, PTL

\* For any number of launchers and workers: a receipt of local_jobs.py that says
\* SUCCEEDED has its report, and none is final while its worker does research,
\* although launcher and worker write it through one temporary file.
THEOREM FinalReceiptsAreTrue == AutopilotSpec => []FinalReceiptsTrue
<1>1. AutopilotInv => FinalReceiptsTrue
    BY DEF AutopilotInv, JobsInv, JobOK, FinalReceiptsTrue, InStatus, Launched, Final,
       Researching
<1> QED
    BY <1>1, InvAlways, PTL

\* With cycles that do not overlap the workers that do research stay within
\* max_running_jobs, for any limit, any histories and deaths at any step.
THEOREM ResearchIsBounded == AutopilotSpec => []ResearchBounded
<1>1. AutopilotInv => ResearchBounded
    BY DEF AutopilotInv, BudgetInv, ResearchBounded
<1> QED
    BY <1>1, InvAlways, PTL

\* With cycles that do not overlap _deep_validation_candidate gives no long
\* recipe its full window twice.
THEOREM EscalationIsOnce == AutopilotSpec => []EscalatedOnce
<1>1. AutopilotInv => EscalatedOnce
    <2> SUFFICES ASSUME AutopilotInv, Cardinality(CycleProcesses) = 1,
                        NEW recipe \in LongRecipes
                 PROVE  Cardinality(FullWindows(recipe)) <= 1
        BY DEF EscalatedOnce, FullWindows
    <2>1. \A i, j \in FullWindows(recipe) : i = j
        BY DEF AutopilotInv, EscalationInv
    <2>2. CASE FullWindows(recipe) = {}
        BY <2>2, FS_EmptySet
    <2>3. CASE FullWindows(recipe) # {}
        <3>1. PICK i \in FullWindows(recipe) : FullWindows(recipe) = {i}
            BY <2>1, <2>3
        <3>2. Cardinality({i}) = 1
            BY FS_Singleton
        <3> QED
            BY <3>1, <3>2
    <2> QED
        BY <2>2, <2>3
<1> QED
    BY <1>1, InvAlways, PTL

\* Whoever started a PAPER worker, the settings name a portfolio of two or more
\* qualified candidates of one product from then on.
THEOREM PaperIsBacked == AutopilotSpec => []PaperHasPortfolio
<1>1. AutopilotInv => PaperHasPortfolio
    BY DEF AutopilotInv, PaperInv, GoodPortfolio, PaperHasPortfolio
<1> QED
    BY <1>1, InvAlways, PTL

=============================================================================
