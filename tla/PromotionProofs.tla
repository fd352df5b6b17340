-------------------------- MODULE PromotionProofs ---------------------------
(***************************************************************************)
(* Theorems of Promotion, for any genome, policies, manifests, exchange    *)
(* rules and number of windows and code versions: what a CHAMPION was      *)
(* judged on, what a smoke record proves, what LIVE_ELIGIBLE rests on, and *)
(* the size of the smoke order.                                            *)
(***************************************************************************)
EXTENDS Promotion, NaturalsInduction, WellFoundedInduction, TLAPS

-----------------------------------------------------------------------------
(* The size of the smoke order                                             *)

\* Rounding up: the quotient is the smallest number of parts that suffices.
LEMMA CeilingIsLeast ==
    ASSUME NEW a \in Nat, NEW b \in Nat \ {0}
    PROVE  /\ Ceiling(a, b) \in Nat
           /\ Ceiling(a, b) * b >= a
           /\ (Ceiling(a, b) - 1) * b < a
<1> DEFINE q == (a + b - 1) \div b
<1>1. /\ q \in Nat
      /\ b * q <= a + b - 1
      /\ a + b - 1 < b * q + b
  OBVIOUS
<1>2. q * b >= a /\ (q - 1) * b < a
  BY <1>1
<1> QED
  BY <1>1, <1>2 DEF Ceiling

\* A multiple of the step is what the exchange takes.
LEMMA MultipleOfStep ==
    ASSUME NEW c \in Nat, NEW step \in Nat \ {0}
    PROVE  (c * step) % step = 0
OBVIOUS

\* The order's size meets both minimums, and one step less does not
\* (testnet_smoke.py calculate_minimum_order_quantity).
LEMMA OrderQuantityIsLeast ==
    ASSUME rules \in Rules, NEW price \in Int, price > 0
    PROVE  LET q == OrderQuantity(price)
               Ok(n) == n >= rules.quantity /\ n * price >= rules.notional
           IN q \in Nat /\ q % rules.step = 0 /\ Ok(q) /\ ~Ok(q - rules.step)
<1> DEFINE whole == Ceiling(rules.notional, price)
           required == IF rules.quantity > whole THEN rules.quantity ELSE whole
           steps == Ceiling(required, rules.step)
           Ok(n) == n >= rules.quantity /\ n * price >= rules.notional
<1>1. /\ rules.notional \in Nat
      /\ rules.step \in Nat \ {0}
      /\ rules.quantity \in Nat \ {0}
      /\ price \in Nat \ {0}
  BY RulesAssumption
<1>2. /\ whole \in Nat
      /\ whole * price >= rules.notional
      /\ (whole - 1) * price < rules.notional
  BY <1>1, CeilingIsLeast
<1>3. required \in Nat /\ required >= rules.quantity /\ required >= whole
  BY <1>1, <1>2
<1>4. /\ steps \in Nat
      /\ steps * rules.step >= required
      /\ (steps - 1) * rules.step < required
  BY <1>1, <1>3, CeilingIsLeast
<1> DEFINE q == steps * rules.step
<1>5. q \in Nat /\ q >= required /\ q - rules.step < required
  BY <1>1, <1>4
<1>6. OrderQuantity(price) = q
  BY DEF OrderQuantity
<1> HIDE DEF q, required, whole
<1>7. q % rules.step = 0
  BY <1>1, <1>4, MultipleOfStep DEF q
<1>8. Ok(q)
  <2>1. q * price >= whole * price
    BY <1>1, <1>2, <1>3, <1>5
  <2> QED
    BY <2>1, <1>1, <1>2, <1>3, <1>5
<1>9. ~Ok(q - rules.step)
  <2>1. CASE required = rules.quantity
    BY <2>1, <1>1, <1>5
  <2>2. CASE required = whole
    <3>1. q - rules.step <= whole - 1
      BY <2>2, <1>1, <1>2, <1>5
    <3>2. (q - rules.step) * price <= (whole - 1) * price
      BY <3>1, <1>1, <1>2, <1>5
    <3> QED
      BY <3>2, <1>1, <1>2, <1>5
  <2> QED
    BY <2>1, <2>2 DEF required
<1> QED
  BY <1>5, <1>6, <1>7, <1>8, <1>9

-----------------------------------------------------------------------------
(* Types                                                                   *)

ManifestStates == Manifests \cup {NoManifest}

OrderStates ==
    [status : {"none", "inflight", "resting", "filled", "cancelling", "closed"},
     quantity : Nat, price : Int]

SmokeStates ==
    [phase : {"idle", "connecting", "quoting"}, code : Nat, manifest : ManifestStates,
     order : OrderStates, found : BOOLEAN, done : BOOLEAN, accepted : BOOLEAN,
     expired : BOOLEAN, stop : BOOLEAN]

Archived == [window : Forward[environment].windows, code : Nat]

Typed ==
    /\ code \in 1..MaxCode
    /\ archive \in Seq(Archived)
    /\ \A i \in DOMAIN archive : archive[i].code \in 1..code
    /\ cycle.state \in {"PAPER", "CHALLENGER", "CHAMPION"}
    /\ manifest \in ManifestStates
    /\ rules \in Rules
    /\ smoke \in SmokeStates
    /\ smoke.code <= code
    /\ smoke.phase = "idle" => smoke = IdleSmoke
    /\ evidence.at \in 0..code
    /\ live \in BOOLEAN

\* What no step of the smoke process changes.
LEMMA OtherTypes ==
    ASSUME Typed,
           UNCHANGED <<code, forward, environment, rules, live>>,
           manifest' \in ManifestStates,
           smoke' \in SmokeStates, smoke'.code <= code,
           smoke'.phase = "idle" => smoke' = IdleSmoke,
           evidence'.at \in 0..code
    PROVE  Typed'
BY DEF Typed, forward, Archived, ManifestStates, SmokeStates, OrderStates, IdleSmoke, NoOrder

\* A step inside a running smoke process keeps its shape.
LEMMA RunningType ==
    ASSUME Typed, Running,
           NodeStarts \/ OnQuote \/ OnOrderAccepted \/ OnOrderRejected \/ VenueFills
              \/ DeadlinePasses \/ WatchdogStops
    PROVE  /\ smoke' \in SmokeStates
           /\ smoke'.code = smoke.code
           /\ smoke'.manifest = smoke.manifest
           /\ smoke'.phase # "idle"
<1>1. CASE NodeStarts
  BY <1>1 DEF Typed, NodeStarts, SmokeStates
<1>2. CASE OnQuote
  <2>1. PICK price \in Prices :
           smoke' = IF price <= 0 THEN [smoke EXCEPT !.done = TRUE]
                    ELSE [smoke EXCEPT !.order = [status |-> "inflight", price |-> price,
                                                  quantity |-> OrderQuantity(price)]]
    BY <1>2 DEF OnQuote
  <2>2. CASE price <= 0
    BY <2>1, <2>2, <1>2 DEF Typed, SmokeStates, OnQuote
  <2>3. CASE price > 0
    <3>1. price \in Int
      BY RulesAssumption
    <3>2. OrderQuantity(price) \in Nat
      BY <2>3, <3>1, OrderQuantityIsLeast DEF Typed
    <3>3. [status |-> "inflight", price |-> price, quantity |-> OrderQuantity(price)]
             \in OrderStates
      BY <3>1, <3>2 DEF OrderStates
    <3>4. smoke' = [smoke EXCEPT !.order = [status |-> "inflight", price |-> price,
                                            quantity |-> OrderQuantity(price)]]
      BY <2>1, <2>3, <3>1
    <3> QED
      BY <3>3, <3>4, <1>2 DEF Typed, SmokeStates, OnQuote
  <2> QED
    BY <2>2, <2>3, RulesAssumption
<1>3. CASE OnOrderAccepted
  BY <1>3 DEF Typed, OnOrderAccepted, SmokeStates, OrderStates, Running
<1>4. CASE OnOrderRejected
  BY <1>4 DEF Typed, OnOrderRejected, SmokeStates, OrderStates, Running
<1>5. CASE VenueFills
  BY <1>5 DEF Typed, VenueFills, SmokeStates, OrderStates, Running
<1>6. CASE DeadlinePasses
  BY <1>6 DEF Typed, DeadlinePasses, SmokeStates, Running
<1>7. CASE WatchdogStops
  BY <1>7 DEF Typed, WatchdogStops, SmokeStates, Running
<1> QED
  BY <1>1, <1>2, <1>3, <1>4, <1>5, <1>6, <1>7

\* A process that has not started, or has ended.
LEMMA IdleType == IdleSmoke \in SmokeStates /\ IdleSmoke.code = 0
<1>1. NoOrder \in OrderStates
  BY DEF NoOrder, OrderStates
<1> QED
  BY <1>1 DEF IdleSmoke, SmokeStates, ManifestStates

\* The states of the model before anything happened.
LEMMA TypesInitially == Init => Typed
<1> SUFFICES ASSUME Init PROVE Typed
  OBVIOUS
<1>1. smoke \in SmokeStates /\ smoke.code <= code /\ smoke = IdleSmoke
  BY IdleType DEF Init
<1>2. archive \in Seq(Archived) /\ DOMAIN archive = {}
  BY DEF Init
<1>3. cycle.state = "PAPER" /\ evidence.at = 0
  BY DEF Init, NoCycle, NoEvidence
<1>4. /\ code \in 1..MaxCode
      /\ live \in BOOLEAN
      /\ rules \in Rules
      /\ manifest \in ManifestStates
  <2>1. code \in 1..MaxCode
    BY BoundAssumption DEF Init
  <2>2. live \in BOOLEAN
    BY Zenon DEF Init
  <2>3. rules \in Rules /\ manifest \in ManifestStates
    BY Zenon DEF Init, ManifestStates
  <2> QED
    BY <2>1, <2>2, <2>3
<1>5. evidence.at \in 0..code
  BY <1>3, <1>4
<1> QED
  BY <1>1, <1>2, <1>3, <1>4, <1>5 DEF Typed

\* Every step keeps the types.
LEMMA TypeStep == Typed /\ [Next]_vars => Typed'
<1> SUFFICES ASSUME Typed, [Next]_vars PROVE Typed'
  OBVIOUS
<1>1. CASE Deploy
  <2>1. code' \in 1..MaxCode /\ code \in Nat /\ code' = code + 1
    BY <1>1, BoundAssumption DEF Typed, Deploy
  <2>2. UNCHANGED <<archive, cycle, environment, manifest, rules, smoke, evidence, live>>
    BY <1>1 DEF Deploy, forward, probe
  <2>3. Archived' = Archived
    BY <2>2 DEF Archived
  <2>4. smoke'.code <= code' /\ evidence'.at \in 0..code'
    BY <2>1, <2>2 DEF Typed, SmokeStates
  <2>5. \A i \in DOMAIN archive' : archive'[i].code \in 1..code'
    BY <2>1, <2>2 DEF Typed
  <2> QED
    BY <2>1, <2>2, <2>3, <2>4, <2>5 DEF Typed
<1>2. CASE ArchiveWindow
  <2>1. PICK window \in Forward[environment].windows :
           archive' = Append(archive, [window |-> window, code |-> code])
    BY <1>2 DEF ArchiveWindow
  <2>2. [window |-> window, code |-> code] \in Archived
    BY BoundAssumption DEF Typed, Archived
  <2>3. archive' \in Seq(Archived) /\ \A i \in DOMAIN archive' : archive'[i].code \in 1..code
    BY <2>1, <2>2 DEF Typed
  <2>4. Archived' = Archived
    BY <1>2 DEF ArchiveWindow, probe, Archived
  <2> QED
    BY <1>2, <2>3, <2>4 DEF Typed, ArchiveWindow, probe
<1>3. CASE EvaluateForward
  BY <1>3 DEF Typed, EvaluateForward, probe, Archived
<1>4. CASE Dispatch
  BY <1>4, OtherTypes DEF Dispatch, Typed, ManifestStates, forward
<1>5. CASE StartSmoke
  <2>1. smoke' \in SmokeStates /\ smoke'.code = code /\ smoke'.phase = "connecting"
    <3>1. smoke' = [IdleSmoke EXCEPT !.phase = "connecting", !.code = code,
                                     !.manifest = manifest]
      BY <1>5 DEF StartSmoke
    <3>2. code \in Nat /\ manifest \in ManifestStates
      BY BoundAssumption DEF Typed
    <3> QED
      BY <3>1, <3>2, IdleType DEF SmokeStates
  <2> QED
    BY <1>5, <2>1, BoundAssumption, OtherTypes DEF StartSmoke, Typed, forward
<1>6. CASE SmokeBlocked
  <2>1. evidence'.at = code
    BY <1>6 DEF SmokeBlocked
  <2> QED
    BY <1>6, <2>1, BoundAssumption, OtherTypes DEF SmokeBlocked, Typed, forward
<1>7. CASE NodeStarts \/ OnQuote \/ OnOrderAccepted \/ OnOrderRejected \/ VenueFills
             \/ DeadlinePasses \/ WatchdogStops
  <2>1. Running
    BY <1>7 DEF NodeStarts, OnQuote, OnOrderAccepted, OnOrderRejected, VenueFills,
                DeadlinePasses, WatchdogStops, Running
  <2>2. UNCHANGED <<code, forward, environment, manifest, rules, evidence, live>>
    BY <1>7 DEF NodeStarts, OnQuote, OnOrderAccepted, OnOrderRejected, VenueFills,
                DeadlinePasses, WatchdogStops
  <2> QED
    BY <1>7, <2>1, <2>2, RunningType, OtherTypes DEF Typed
<1>8. CASE NodeStops \/ NodeRaises
  <2>1. smoke' = IdleSmoke /\ IdleSmoke \in SmokeStates /\ IdleSmoke.code = 0
    BY <1>8, IdleType DEF NodeStops, NodeRaises, Ended
  <2>2. evidence'.at \in 0..code
    BY <1>8, BoundAssumption DEF NodeStops, NodeRaises, Typed, SmokeStates
  <2> QED
    BY <1>8, <2>1, <2>2, BoundAssumption, OtherTypes DEF NodeStops, NodeRaises, Typed, forward
<1>9. CASE BuildBundle
  BY <1>9 DEF Typed, BuildBundle, forward, probe, Archived
<1>10. CASE AskGovernor
  <2>1. live' \in BOOLEAN
    BY <1>10 DEF AskGovernor, EvaluateValidatedPromotion
  <2> QED
    BY <1>10, <2>1 DEF Typed, AskGovernor, forward, probe, Archived
<1>11. CASE UNCHANGED vars
  BY <1>11 DEF Typed, vars, forward, probe, Archived
<1> QED
  BY <1>1, <1>2, <1>3, <1>4, <1>5, <1>6, <1>7, <1>8, <1>9, <1>10, <1>11 DEF Next, Thread

\* Windows, states, the smoke process and what it leaves keep their types.
THEOREM PromotionTypes == Spec => []PromotionTypeOK
<1>1. ASSUME Typed PROVE PromotionTypeOK
  <2>1. \A i \in DOMAIN archive : archive[i] \in Archived
    BY <1>1 DEF Typed
  <2>2. \A i \in DOMAIN archive : /\ archive[i].window \in Forward[environment].windows
                                  /\ archive[i].code \in 1..code
    BY <1>1, <2>1 DEF Typed, Archived
  <2>3. /\ smoke.phase \in {"idle", "connecting", "quoting"}
        /\ smoke.manifest \in ManifestStates
        /\ smoke.order \in OrderStates
    BY <1>1 DEF Typed, SmokeStates
  <2>4. smoke.order.status \in {"none", "inflight", "resting", "filled", "cancelling", "closed"}
    BY <2>3 DEF OrderStates
  <2> QED
    BY <1>1, <2>2, <2>3, <2>4 DEF Typed, PromotionTypeOK, ManifestStates
<1> QED
  BY <1>1, TypesInitially, TypeStep, PTL DEF Spec

-----------------------------------------------------------------------------
(* The size of the order, in every state                                   *)

\* An order is none yet, or of the size calculated for its price.
Sized ==
    \/ smoke.order = NoOrder
    \/ /\ smoke.order.price > 0
       /\ smoke.order.quantity = OrderQuantity(smoke.order.price)

\* Only a quote makes an order; answers of the venue change its status alone.
LEMMA SizedStep == Typed /\ Sized /\ [Next]_vars => Sized'
<1> SUFFICES ASSUME Typed, Sized, [Next]_vars PROVE Sized'
  OBVIOUS
<1>1. CASE UNCHANGED <<smoke, rules>>
  BY <1>1 DEF Sized, OrderQuantity
<1>2. CASE OnQuote
  <2>1. PICK price \in Prices :
           smoke' = IF price <= 0 THEN [smoke EXCEPT !.done = TRUE]
                    ELSE [smoke EXCEPT !.order = [status |-> "inflight", price |-> price,
                                                  quantity |-> OrderQuantity(price)]]
    BY <1>2 DEF OnQuote
  <2>2. price \in Int /\ rules' = rules
    BY <1>2, RulesAssumption DEF OnQuote
  <2>3. CASE price <= 0
    <3>1. smoke'.order = smoke.order
      BY <2>1, <2>3 DEF Typed, SmokeStates
    <3> QED
      BY <2>2, <3>1 DEF Sized, OrderQuantity
  <2>4. CASE price > 0
    <3>1. smoke'.order = [status |-> "inflight", price |-> price,
                          quantity |-> OrderQuantity(price)]
      BY <2>1, <2>2, <2>4 DEF Typed, SmokeStates
    <3>2. smoke'.order.price = price /\ smoke'.order.quantity = OrderQuantity(price)
      BY <3>1
    <3> QED
      BY <2>2, <2>4, <3>2 DEF Sized, OrderQuantity
  <2> QED
    BY <2>2, <2>3, <2>4
<1>3. CASE OnOrderAccepted \/ OnOrderRejected \/ VenueFills
  <2>1. smoke.order # NoOrder
    BY <1>3 DEF OnOrderAccepted, OnOrderRejected, VenueFills, NoOrder
  <2>2. /\ smoke'.order.price = smoke.order.price
        /\ smoke'.order.quantity = smoke.order.quantity
        /\ rules' = rules
    <3>1. smoke \in SmokeStates /\ smoke.order \in OrderStates /\ rules' = rules
      BY <1>3 DEF OnOrderAccepted, OnOrderRejected, VenueFills, Typed, SmokeStates
    <3>2. \/ smoke'.order = [smoke.order EXCEPT !.status = "resting"]
          \/ smoke'.order = [smoke.order EXCEPT !.status = "closed"]
          \/ smoke'.order = [smoke.order EXCEPT !.status = "filled"]
      BY <1>3, <3>1 DEF OnOrderAccepted, OnOrderRejected, VenueFills, SmokeStates
    <3> QED
      BY <3>1, <3>2 DEF OrderStates
  <2> QED
    BY <2>1, <2>2 DEF Sized, OrderQuantity
<1>4. CASE NodeStarts \/ DeadlinePasses \/ WatchdogStops
  <2>1. smoke'.order = smoke.order /\ rules' = rules
    BY <1>4 DEF NodeStarts, DeadlinePasses, WatchdogStops, Typed, SmokeStates
  <2> QED
    BY <2>1 DEF Sized, OrderQuantity
<1>5. CASE StartSmoke \/ NodeStops \/ NodeRaises
  <2>1. CASE StartSmoke
    <3>1. IdleSmoke.order = NoOrder /\ IdleSmoke \in SmokeStates
      BY IdleType DEF IdleSmoke
    <3> QED
      BY <2>1, <3>1 DEF StartSmoke, SmokeStates, Sized
  <2>2. CASE NodeStops \/ NodeRaises
    <3>1. smoke' = IdleSmoke
      BY <2>2 DEF NodeStops, NodeRaises, Ended
    <3> QED
      BY <3>1 DEF IdleSmoke, Sized
  <2> QED
    BY <1>5, <2>1, <2>2
<1> QED
  BY <1>1, <1>2, <1>3, <1>4, <1>5
     DEF Next, Thread, vars, forward, probe, Deploy, ArchiveWindow, EvaluateForward, Dispatch,
         SmokeBlocked, BuildBundle, AskGovernor

\* The order the smoke sends meets every rule of the exchange and is the
\* smallest that does, for all rules and prices.
THEOREM SmallestOrder == Spec => []OrderWithinRules
<1>1. Init => Sized
  BY DEF Init, Sized, IdleSmoke
<1>2. Typed /\ Sized => OrderWithinRules
  <2> SUFFICES ASSUME Typed, Sized, smoke.order.quantity > 0
               PROVE  LET q == smoke.order.quantity
                          p == smoke.order.price
                          Ok(n) == n >= rules.quantity /\ n * p >= rules.notional
                      IN q % rules.step = 0 /\ Ok(q) /\ ~Ok(q - rules.step)
    BY DEF OrderWithinRules
  <2>1. smoke.order.price \in Int /\ rules \in Rules
    BY DEF Typed, SmokeStates, OrderStates
  <2>2. /\ smoke.order.price > 0
        /\ smoke.order.quantity = OrderQuantity(smoke.order.price)
    BY DEF Sized, NoOrder
  <2> QED
    BY <2>1, <2>2, OrderQuantityIsLeast
<1> QED
  BY <1>1, <1>2, SizedStep, TypesInitially, TypeStep, PTL DEF Spec

-----------------------------------------------------------------------------
(* What a smoke record proves                                              *)

\* A running smoke process is bound to a manifest of its own code version
\* whose cap covers the exchange's minimum, or to no candidate at all.
ProcessBound ==
    smoke.phase # "idle" =>
        \/ smoke.manifest = NoManifest
        \/ smoke.manifest.code = smoke.code /\ rules.notional <= smoke.manifest.cap

\* The flag the threads share was set by an answer of the test network.
FlagTrue ==
    smoke.accepted = TRUE => [code |-> smoke.code, manifest |-> smoke.manifest] \in accepted

\* The test network accepted an order that stands behind the record r.
Behind(r, a) ==
    /\ a.code = r.code
    /\ r.genome = Genome => /\ a.manifest.code = a.code
                            /\ a.manifest.dataset = r.dataset
                            /\ rules.notional <= a.manifest.cap

Tried(r) == \E a \in accepted : Behind(r, a)

EvidenceTrue ==
    \A r \in evidence.records :
        /\ r.code = evidence.at
        /\ r.passed = TRUE => Tried(r) /\ evidence.left # "resting"

BundleTrue ==
    \A r \in bundle.records :
        r.type = "testnet_smoke" /\ r.passed = TRUE /\ r.genome = Genome => Tried(r)

ProbeInv == ProcessBound /\ FlagTrue /\ EvidenceTrue /\ BundleTrue

\* What was accepted stays accepted and the rules are fixed.
LEMMA TriedForever ==
    ASSUME NEW r, Tried(r), accepted \subseteq accepted', rules' = rules
    PROVE  Tried(r)'
BY DEF Tried, Behind

\* The history of accepted orders only grows.
LEMMA AcceptedGrows == [Next]_vars => accepted \subseteq accepted' /\ rules' = rules
BY DEF Next, Thread, vars, forward, probe, Deploy, ArchiveWindow, EvaluateForward, Dispatch,
       StartSmoke, SmokeBlocked, OnQuote, OnOrderAccepted, OnOrderRejected, VenueFills,
       NodeRaises, NodeStarts, DeadlinePasses, WatchdogStops, NodeStops, BuildBundle,
       AskGovernor

\* The process keeps its version and its manifest from start to end.
LEMMA ProcessBoundStep == Typed /\ ProbeInv /\ [Next]_vars => ProcessBound'
<1> SUFFICES ASSUME Typed, ProcessBound, [Next]_vars PROVE ProcessBound'
  BY DEF ProbeInv
<1>1. CASE UNCHANGED <<smoke, rules>>
  BY <1>1 DEF ProcessBound
<1>2. CASE NodeStarts \/ OnQuote \/ OnOrderAccepted \/ OnOrderRejected \/ VenueFills
             \/ DeadlinePasses \/ WatchdogStops
  <2>1. Running
    BY <1>2 DEF NodeStarts, OnQuote, OnOrderAccepted, OnOrderRejected, VenueFills,
                DeadlinePasses, WatchdogStops, Running
  <2>2. smoke'.code = smoke.code /\ smoke'.manifest = smoke.manifest
    BY <1>2, <2>1, RunningType
  <2> QED
    BY <2>1, <2>2, AcceptedGrows DEF ProcessBound, Running
<1>3. CASE StartSmoke
  <2>1. smoke'.code = code /\ smoke'.manifest = manifest
    BY <1>3, IdleType DEF StartSmoke, SmokeStates
  <2> QED
    BY <1>3, <2>1 DEF StartSmoke, ManifestMatches, ProcessBound
<1>4. CASE NodeStops \/ NodeRaises
  BY <1>4 DEF NodeStops, NodeRaises, Ended, IdleSmoke, ProcessBound
<1> QED
  BY <1>1, <1>2, <1>3, <1>4
     DEF Next, Thread, vars, forward, probe, Deploy, ArchiveWindow, EvaluateForward, Dispatch,
         SmokeBlocked, BuildBundle, AskGovernor

\* The flag is set by OnOrderAccepted only, and cleared with the process.
LEMMA FlagTrueStep == Typed /\ ProbeInv /\ [Next]_vars => FlagTrue'
<1> SUFFICES ASSUME Typed, FlagTrue, [Next]_vars PROVE FlagTrue'
  BY DEF ProbeInv
<1>1. CASE UNCHANGED smoke
  BY <1>1, AcceptedGrows DEF FlagTrue
<1>2. CASE OnOrderAccepted
  <2>1. Running
    BY <1>2 DEF OnOrderAccepted
  <2>2. smoke'.code = smoke.code /\ smoke'.manifest = smoke.manifest
    BY <1>2, <2>1, RunningType
  <2> QED
    BY <1>2, <2>2 DEF OnOrderAccepted, FlagTrue
<1>3. CASE NodeStarts \/ OnQuote \/ OnOrderRejected \/ VenueFills \/ DeadlinePasses
             \/ WatchdogStops
  <2>1. Running
    BY <1>3 DEF NodeStarts, OnQuote, OnOrderRejected, VenueFills, DeadlinePasses,
                WatchdogStops, Running
  <2>2. smoke'.code = smoke.code /\ smoke'.manifest = smoke.manifest
    BY <1>3, <2>1, RunningType
  <2>3. smoke'.accepted = smoke.accepted
    BY <1>3 DEF NodeStarts, OnQuote, OnOrderRejected, VenueFills, DeadlinePasses,
                WatchdogStops, Typed, SmokeStates
  <2> QED
    BY <2>2, <2>3, AcceptedGrows DEF FlagTrue
<1>4. CASE StartSmoke
  <2>1. IdleSmoke \in SmokeStates /\ IdleSmoke.accepted = FALSE
    BY IdleType DEF IdleSmoke
  <2>2. smoke'.accepted = FALSE
    BY <1>4, <2>1 DEF StartSmoke, SmokeStates
  <2> QED
    BY <2>2 DEF FlagTrue
<1>5. CASE NodeStops \/ NodeRaises
  BY <1>5 DEF NodeStops, NodeRaises, Ended, IdleSmoke, FlagTrue
<1> QED
  BY <1>1, <1>2, <1>3, <1>4, <1>5
     DEF Next, Thread, vars, forward, probe, Deploy, ArchiveWindow, EvaluateForward, Dispatch,
         SmokeBlocked, BuildBundle, AskGovernor

\* The record a process leaves is of its own version, and passes only with an
\* order behind it that does not rest any more.
LEMMA EvidenceTrueStep == Typed /\ ProbeInv /\ [Next]_vars => EvidenceTrue'
<1> SUFFICES ASSUME Typed, ProbeInv, [Next]_vars PROVE EvidenceTrue'
  OBVIOUS
<1>0. /\ accepted \subseteq accepted' /\ rules' = rules
      /\ ProcessBound /\ FlagTrue /\ EvidenceTrue
  BY AcceptedGrows DEF ProbeInv
<1>1. CASE UNCHANGED evidence
  <2> SUFFICES ASSUME NEW r \in evidence.records
               PROVE  /\ r.code = evidence.at
                      /\ r.passed = TRUE => Tried(r)' /\ evidence.left # "resting"
    BY <1>1 DEF EvidenceTrue
  <2>1. Tried(r) => Tried(r)'
    BY <1>0, TriedForever
  <2> QED
    BY <1>0, <2>1 DEF EvidenceTrue
<1>2. CASE SmokeBlocked
  <2>1. evidence' = [records |-> SmokeRecords(manifest, code, FALSE),
                     status |-> "CREDENTIALS_UNAVAILABLE", at |-> code, left |-> "none"]
    BY <1>2 DEF SmokeBlocked
  <2>2. \A r \in SmokeRecords(manifest, code, FALSE) : r.code = code /\ r.passed = FALSE
    BY <1>2 DEF SmokeBlocked, ManifestMatches, SmokeRecords, EvidenceRecord
  <2> QED
    BY <2>1, <2>2 DEF EvidenceTrue
<1>3. CASE NodeStops
  <2>1. PICK status \in Cancelled(smoke.order.status) :
           evidence' = [records |-> SmokeRecords(smoke.manifest, smoke.code, smoke.accepted),
                        at |-> smoke.code, left |-> status,
                        status |-> IF smoke.accepted THEN "COMPLETED" ELSE "FAILED"]
    BY <1>3 DEF NodeStops
  <2>2. /\ evidence'.records = SmokeRecords(smoke.manifest, smoke.code, smoke.accepted)
        /\ evidence'.at = smoke.code
        /\ evidence'.left = status
    BY <2>1
  <2>3. status # "resting"
    BY DEF Cancelled
  <2>4. smoke.phase # "idle"
    BY <1>3 DEF NodeStops, Running
  <2> SUFFICES ASSUME NEW r \in SmokeRecords(smoke.manifest, smoke.code, smoke.accepted)
               PROVE  r.code = smoke.code /\ (r.passed = TRUE => Tried(r)')
    BY <2>2, <2>3 DEF EvidenceTrue
  <2>5. r.passed = smoke.accepted
    BY DEF SmokeRecords, EvidenceRecord
  <2>6. CASE smoke.manifest = NoManifest
    <3>1. r.genome = "runner" /\ r.code = smoke.code
      BY <2>6 DEF SmokeRecords, EvidenceRecord
    <3>2. ASSUME r.passed = TRUE PROVE Tried(r)
      <4> DEFINE a == [code |-> smoke.code, manifest |-> smoke.manifest]
      <4>1. a \in accepted
        BY <1>0, <2>5, <3>2 DEF FlagTrue
      <4>2. Behind(r, a)
        BY <3>1, GenomeAssumption DEF Behind
      <4> QED
        BY <4>1, <4>2 DEF Tried
    <3> QED
      BY <1>0, <3>1, <3>2, TriedForever
  <2>7. CASE smoke.manifest # NoManifest
    <3>1. r.code = smoke.manifest.code /\ r.dataset = smoke.manifest.dataset
      BY <2>7 DEF SmokeRecords, EvidenceRecord
    <3>2. smoke.manifest.code = smoke.code /\ rules.notional <= smoke.manifest.cap
      BY <1>0, <2>4, <2>7 DEF ProcessBound
    <3>3. ASSUME r.passed = TRUE PROVE Tried(r)
      <4> DEFINE a == [code |-> smoke.code, manifest |-> smoke.manifest]
      <4>1. a \in accepted
        BY <1>0, <2>5, <3>3 DEF FlagTrue
      <4>2. Behind(r, a)
        BY <3>1, <3>2 DEF Behind
      <4> QED
        BY <4>1, <4>2 DEF Tried
    <3> QED
      BY <1>0, <3>1, <3>2, <3>3, TriedForever
  <2> QED
    BY <2>6, <2>7
<1> QED
  BY <1>1, <1>2, <1>3
     DEF Next, Thread, vars, forward, probe, Deploy, ArchiveWindow, EvaluateForward, Dispatch,
         StartSmoke, OnQuote, OnOrderAccepted, OnOrderRejected, VenueFills, NodeRaises,
         NodeStarts, DeadlinePasses, WatchdogStops, BuildBundle, AskGovernor

\* The only smoke records of a bundle are those of the file.
LEMMA BundleTrueStep == Typed /\ ProbeInv /\ [Next]_vars => BundleTrue'
<1> SUFFICES ASSUME Typed, ProbeInv, [Next]_vars PROVE BundleTrue'
  OBVIOUS
<1>0. /\ accepted \subseteq accepted' /\ rules' = rules
      /\ EvidenceTrue /\ BundleTrue
  BY AcceptedGrows DEF ProbeInv
<1>1. CASE UNCHANGED bundle
  <2> SUFFICES ASSUME NEW r \in bundle.records, r.type = "testnet_smoke", r.passed = TRUE,
                      r.genome = Genome
               PROVE  Tried(r)'
    BY <1>1 DEF BundleTrue
  <2> QED
    BY <1>0, TriedForever DEF BundleTrue
<1>2. CASE BuildBundle
  <2>1. bundle'.records = ProbeRecords(environment.mode = "TESTNET") \cup evidence.records
    BY <1>2 DEF BuildBundle
  <2>2. \A r \in ProbeRecords(environment.mode = "TESTNET") : r.type # "testnet_smoke"
    BY DEF ProbeRecords, EvidenceRecord
  <2> SUFFICES ASSUME NEW r \in evidence.records, r.passed = TRUE PROVE Tried(r)'
    BY <2>1, <2>2 DEF BundleTrue
  <2> QED
    BY <1>0, TriedForever DEF EvidenceTrue
<1> QED
  BY <1>1, <1>2
     DEF Next, Thread, vars, forward, probe, Deploy, ArchiveWindow, EvaluateForward, Dispatch,
         StartSmoke, SmokeBlocked, OnQuote, OnOrderAccepted, OnOrderRejected, VenueFills,
         NodeRaises, NodeStarts, DeadlinePasses, WatchdogStops, NodeStops, AskGovernor

\* The four parts together are inductive.
LEMMA ProbeInvariant == Spec => [](Typed /\ ProbeInv)
<1>1. Init => ProbeInv
  BY DEF Init, ProbeInv, ProcessBound, FlagTrue, EvidenceTrue, BundleTrue, IdleSmoke,
         NoEvidence, NoBundle
<1>2. Typed /\ ProbeInv /\ [Next]_vars => ProbeInv'
  BY ProcessBoundStep, FlagTrueStep, EvidenceTrueStep, BundleTrueStep DEF ProbeInv
<1> QED
  BY <1>1, <1>2, TypesInitially, TypeStep, PTL DEF Spec

\* A smoke record carries the version it ran under; it passes only if the test
\* network accepted an order of that version, and no order is left resting.
THEOREM SmokeRecordsHonest == Spec => []SmokeHonest
<1>1. Typed /\ ProbeInv => SmokeHonest
  <2> SUFFICES ASSUME EvidenceTrue, NEW r \in evidence.records
               PROVE  /\ r.code = evidence.at
                      /\ r.passed => \E a \in accepted : a.code = r.code
                      /\ r.passed => evidence.left # "resting"
    BY DEF ProbeInv, SmokeHonest
  <2>1. r.code = evidence.at
    BY DEF EvidenceTrue
  <2>2. ASSUME r.passed PROVE Tried(r) /\ evidence.left # "resting"
    BY <2>2 DEF EvidenceTrue
  <2> QED
    BY <2>1, <2>2 DEF Tried, Behind
<1> QED
  BY <1>1, ProbeInvariant, PTL

-----------------------------------------------------------------------------
(* LIVE_ELIGIBLE                                                           *)

\* Only the champion is one step away from LIVE_ELIGIBLE (governor.py 34-64).
LEMMA OnlyFromChampion ==
    ASSUME NEW state, NEW types, EvaluatePromotion(state, "LIVE_ELIGIBLE", types)
    PROVE  state = "CHAMPION"
BY DEF EvaluatePromotion, TerminalStates, NextState

\* LIVE_ELIGIBLE is granted to a champion only, for whose genome the test
\* network accepted an order under the code version and within the manifest
\* that every live probe of the bundle is bound to.
THEOREM LiveIsEarned == Spec => LiveEarned
<1> DEFINE Granted ==
       live' /\ ~live =>
          /\ cycle.state = "CHAMPION"
          /\ \E a \in accepted :
                /\ a.manifest.code = a.code
                /\ rules.notional <= a.manifest.cap
                /\ \A type \in LiveEvidence : \E r \in bundle.records :
                      /\ r.type = type /\ r.passed
                      /\ r.code = a.code /\ r.dataset = a.manifest.dataset
<1>1. Typed /\ ProbeInv /\ [Next]_vars => [Granted]_vars
  <2> SUFFICES ASSUME BundleTrue, AskGovernor, live' /\ ~live
               PROVE  Granted
    BY DEF ProbeInv, Next, Thread, vars, forward, probe, Deploy, ArchiveWindow,
           EvaluateForward, Dispatch, StartSmoke, SmokeBlocked, OnQuote, OnOrderAccepted,
           OnOrderRejected, VenueFills, NodeRaises, NodeStarts, DeadlinePasses,
           WatchdogStops, NodeStops, BuildBundle
  <2>1. EvaluateValidatedPromotion(cycle.state, "LIVE_ELIGIBLE", Family, Genome,
                                   bundle.records)
    BY DEF AskGovernor
  <2>2. cycle.state = "CHAMPION"
    BY <2>1, OnlyFromChampion DEF EvaluateValidatedPromotion
  <2>3. PICK witness \in Accepted(Genome, bundle.records) :
           \A type \in LiveEvidence : \E r \in Accepted(Genome, bundle.records) :
              r.type = type /\ r.code = witness.code /\ r.dataset = witness.dataset
    BY <2>1 DEF EvaluateValidatedPromotion, BundleIdentityOk
  <2>4. \A r \in Accepted(Genome, bundle.records) :
           r \in bundle.records /\ r.passed /\ r.genome = Genome
    BY DEF Accepted
  <2>5. PICK order \in Accepted(Genome, bundle.records) :
           /\ order.type = "testnet_smoke"
           /\ order.code = witness.code /\ order.dataset = witness.dataset
    BY <2>3 DEF LiveEvidence
  <2>6. PICK a \in accepted : Behind(order, a)
    BY <2>4, <2>5 DEF BundleTrue, Tried
  <2>7. /\ a.code = witness.code /\ a.manifest.code = a.code
        /\ a.manifest.dataset = witness.dataset
        /\ rules.notional <= a.manifest.cap
    BY <2>4, <2>5, <2>6 DEF Behind
  <2>8. \A type \in LiveEvidence : \E r \in bundle.records :
           /\ r.type = type /\ r.passed
           /\ r.code = a.code /\ r.dataset = a.manifest.dataset
    BY <2>3, <2>4, <2>7
  <2> QED
    BY <2>2, <2>7, <2>8
<1> QED
  BY <1>1, ProbeInvariant, PTL DEF Spec, LiveEarned

-----------------------------------------------------------------------------
(* The champion                                                            *)

\* What holds of 0 and of k + 1 whenever of k holds up to n.
LEMMA CountUp ==
    ASSUME NEW n \in Nat, NEW F, 0 \in F, \A k \in 0..(n - 1) : k \in F => k + 1 \in F
    PROVE  \A k \in 0..n : k \in F
<1> SUFFICES ASSUME NEW k \in 0..n, k \notin F PROVE FALSE
  OBVIOUS
<1> DEFINE Bad == {m \in 0..n : m \notin F}
           Less == OpToRel(<, Nat)
<1>1. IsWellFoundedOn(Less, Nat)
  BY NatLessThanWellFounded
<1>2. Bad \subseteq Nat /\ Bad # {}
  OBVIOUS
<1>3. PICK m \in Bad : \A l \in Bad : <<l, m>> \notin Less
  <2> HIDE DEF Bad, Less
  <2> QED
    BY <1>1, <1>2, WFMin
<1>4. m \in 0..n /\ m # 0 /\ m - 1 \in 0..(n - 1) /\ (m - 1) + 1 = m
  OBVIOUS
<1>5. m - 1 \notin Bad
  <2>1. <<m - 1, m>> \in Less
    BY <1>4 DEF OpToRel
  <2> QED
    BY <2>1, <1>3
<1> HIDE DEF Less
<1>6. m - 1 \in F
  BY <1>4, <1>5
<1>7. m \in F
  BY <1>4, <1>6
<1> QED
  BY <1>7

\* The recursive function of the products satisfies its equation.
LEMMA CompoundingSteps ==
    ASSUME NEW factors, Len(factors) \in Nat
    PROVE  \A k \in 0..Len(factors) :
               Compounding(factors)[k] =
                   IF k = 0 THEN 1 ELSE Compounding(factors)[k - 1] * factors[k]
<1> DEFINE Times(x, k) == x * factors[k]
           Step(f, k) == IF k = 0 THEN 1 ELSE Times(f[k - 1], k)
           L == Len(factors)
           F == {m \in 0..L : \E f : f = [k \in 0..m |-> Step(f, k)]}
<1>1. L \in Nat
  OBVIOUS
<1>2. Compounding(factors) = CHOOSE f : f = [k \in 0..L |-> Step(f, k)]
  BY DEF Compounding
<1> HIDE DEF L, Times
<1>3. 0 \in F
  <2> DEFINE f == [k \in 0..0 |-> 1]
  <2>1. f = [k \in 0..0 |-> Step(f, k)]
    OBVIOUS
  <2> HIDE DEF f
  <2> QED
    BY <2>1, <1>1
<1>4. ASSUME NEW m \in 0..(L - 1), m \in F
      PROVE  m + 1 \in F
  <2>1. PICK f : f = [k \in 0..m |-> Step(f, k)]
    BY <1>4
  <2> DEFINE g == [k \in 0..(m + 1) |-> IF k = m + 1 THEN Times(f[m], m + 1) ELSE f[k]]
  <2>2. ASSUME NEW k \in 0..(m + 1)
        PROVE  g[k] = Step(g, k)
    <3>1. CASE k = m + 1
      <4>1. k # 0 /\ k - 1 = m /\ m # m + 1 /\ m \in 0..(m + 1)
        BY <3>1, <1>1
      <4> QED
        BY <4>1, <3>1
    <3>2. CASE k # m + 1
      <4>1. k \in 0..m
        BY <3>2, <1>1
      <4>2. g[k] = f[k]
        BY <3>2
      <4>3. f[k] = Step(f, k)
        BY <2>1, <4>1
      <4>4. k # 0 => k - 1 \in 0..m /\ k - 1 # m + 1 /\ k - 1 \in 0..(m + 1)
        BY <4>1, <1>1
      <4> QED
        BY <4>2, <4>3, <4>4
    <3> QED
      BY <3>1, <3>2
  <2>3. g = [k \in 0..(m + 1) |-> Step(g, k)]
    BY <2>2
  <2> HIDE DEF g
  <2>4. m + 1 \in 0..L
    BY <1>1
  <2> QED
    BY <2>3, <2>4
<1> HIDE DEF F
<1>5. L \in F
  <2>1. L \in Nat /\ L \in 0..L
    BY <1>1
  <2>2. \A k \in 0..(L - 1) : k \in F => k + 1 \in F
    BY <1>4
  <2> QED
    BY <2>1, <2>2, <1>3, CountUp
<1>6. \E f : f = [k \in 0..L |-> Step(f, k)]
  BY <1>5 DEF F
<1> HIDE DEF Step
<1>7. Compounding(factors) = [k \in 0..L |-> Step(Compounding(factors), k)]
  BY <1>2, <1>6
<1> QED
  BY <1>7 DEF Step, Times, L

\* A product of whole numbers is one, and of positive ones is positive.
LEMMA CompoundedIsWhole ==
    ASSUME NEW factors \in Seq(Int)
    PROVE  /\ Compounded(factors) \in Int
           /\ (\A i \in DOMAIN factors : factors[i] > 0) => Compounded(factors) > 0
<1> DEFINE L == Len(factors)
           growth == Compounding(factors)
           positive == \A i \in DOMAIN factors : factors[i] > 0
           F == {k \in 0..L : growth[k] \in Int /\ (positive => growth[k] > 0)}
<1>1. L \in Nat /\ \A k \in 1..L : factors[k] \in Int /\ (positive => factors[k] > 0)
  OBVIOUS
<1>2. \A k \in 0..L : growth[k] = IF k = 0 THEN 1 ELSE growth[k - 1] * factors[k]
  BY <1>1, CompoundingSteps
<1> HIDE DEF growth, L, positive
<1>3. 0 \in F
  BY <1>1, <1>2
<1>4. ASSUME NEW k \in 0..(L - 1), k \in F
      PROVE  k + 1 \in F
  <2>1. k + 1 \in 0..L /\ k + 1 \in 1..L /\ k + 1 # 0 /\ (k + 1) - 1 = k
    BY <1>1
  <2>2. growth[k + 1] = growth[k] * factors[k + 1]
    BY <1>2, <2>1
  <2>3. \A x, y \in Int : x * y \in Int /\ (x > 0 /\ y > 0 => x * y > 0)
    OBVIOUS
  <2> QED
    BY <1>1, <1>4, <2>1, <2>2, <2>3
<1> HIDE DEF F
<1>5. L \in F
  <2>1. L \in 0..L
    BY <1>1
  <2>2. \A k \in 0..(L - 1) : k \in F => k + 1 \in F
    BY <1>4
  <2> QED
    BY <1>1, <1>3, <2>1, <2>2, CountUp
<1> QED
  BY <1>5 DEF F, L, growth, positive, Compounded

\* The reports the archive may hold.
Reports == [window : [duration : Nat, trades : Nat, ret : Int, dd : Nat, sound : BOOLEAN],
            code : Nat]

\* The growth of a sequence of reports is a number.
LEMMA GrowthFacts ==
    ASSUME NEW reports \in Seq(Reports)
    PROVE  /\ Growth(reports) \in Int
           /\ Unchanged(reports) \in Nat
<1>1. DOMAIN reports = 1..Len(reports) /\ Len(reports) \in Nat
  <2> HIDE DEF Reports
  <2> QED
    OBVIOUS
<1>2. \A i \in DOMAIN reports : 100 + reports[i].window.ret \in Int
  <2> TAKE i \in DOMAIN reports
  <2>1. reports[i] \in Reports
    OBVIOUS
  <2> QED
    BY <2>1 DEF Reports
<1>3. [i \in DOMAIN reports |-> 100 + reports[i].window.ret] \in Seq(Int)
  BY <1>1, <1>2
<1>4. [i \in DOMAIN reports |-> 100] \in Seq(Int)
  BY <1>1
<1>5. Growth(reports) \in Int
  BY <1>3, CompoundedIsWhole DEF Growth
<1>6. Compounded([i \in DOMAIN reports |-> 100]) \in Nat
  BY <1>4, CompoundedIsWhole
<1> QED
  BY <1>5, <1>6 DEF Unchanged

\* The worst window is at least as bad as every window.
LEMMA WorstIsWorst ==
    ASSUME NEW reports \in Seq(Reports)
    PROVE  /\ WorstDrawdown(reports) \in Nat
           /\ \A i \in DOMAIN reports : reports[i].window.dd <= WorstDrawdown(reports)
<1> DEFINE L == Len(reports)
           upTo(k) == {0} \cup {reports[i].window.dd : i \in 1..k}
           F == {k \in 0..L : \E x \in upTo(k) : \A y \in upTo(k) : x >= y}
<1>1. DOMAIN reports = 1..L /\ L \in Nat
  <2> HIDE DEF Reports
  <2> QED
    OBVIOUS
<1>2. \A i \in 1..L : reports[i].window.dd \in Nat
  <2> TAKE i \in 1..L
  <2>1. reports[i] \in Reports
    BY <1>1
  <2> QED
    BY <2>1 DEF Reports
<1> HIDE DEF L
<1>3. 0 \in F
  BY <1>1
<1>4. ASSUME NEW k \in 0..(L - 1), k \in F
      PROVE  k + 1 \in F
  <2>1. k + 1 \in 0..L /\ k + 1 \in 1..L /\ 1..(k + 1) = 1..k \cup {k + 1} /\ 1..k \subseteq 1..L
    BY <1>1
  <2> DEFINE dd == reports[k + 1].window.dd
  <2>2. dd \in Nat /\ upTo(k + 1) = upTo(k) \cup {dd} /\ upTo(k) \subseteq Nat
    BY <1>2, <2>1
  <2>3. PICK x \in upTo(k) : \A y \in upTo(k) : x >= y
    BY <1>4
  <2> HIDE DEF upTo, dd
  <2>4. CASE x >= dd
    BY <2>1, <2>2, <2>3, <2>4
  <2>5. CASE ~(x >= dd)
    <3>1. \A y \in upTo(k + 1) : dd >= y
      BY <2>2, <2>3, <2>5
    <3> QED
      BY <2>1, <2>2, <3>1
  <2> QED
    BY <2>4, <2>5
<1> HIDE DEF F
<1>5. L \in F
  <2>1. L \in 0..L
    BY <1>1
  <2>2. \A k \in 0..(L - 1) : k \in F => k + 1 \in F
    BY <1>4
  <2> QED
    BY <1>1, <1>3, <2>1, <2>2, CountUp
<1>6. \E x \in upTo(L) : \A y \in upTo(L) : x >= y
  BY <1>5 DEF F
<1>7. WorstDrawdown(reports) = CHOOSE x \in upTo(L) : \A y \in upTo(L) : x >= y
  BY <1>1 DEF WorstDrawdown, Max
<1>8. /\ WorstDrawdown(reports) \in upTo(L)
      /\ \A y \in upTo(L) : WorstDrawdown(reports) >= y
  <2> HIDE DEF upTo
  <2> QED
    BY <1>6, <1>7
<1>9. upTo(L) \subseteq Nat
  BY <1>2
<1>10. WorstDrawdown(reports) \in Nat
  BY <1>8, <1>9
<1>11. \A i \in 1..L : WorstDrawdown(reports) >= reports[i].window.dd
  BY <1>8
<1> QED
  BY <1>1, <1>2, <1>10, <1>11

\* The margin over the incumbent's return is paid in full: lowering what is
\* asked by a nonnegative amount only makes it easier.
LEMMA MarginPaid ==
    ASSUME NEW growth \in Int, NEW scale \in Nat, NEW asked \in Int, NEW less \in Int,
           less <= asked, growth >= asked * scale
    PROVE  growth >= less * scale
<1>1. less * scale <= asked * scale
  OBVIOUS
<1> QED
  BY <1>1

\* What the last evaluation rests on: it stands for windows of the archive, and
\* its state for the tests they passed.
Judged ==
    /\ environment \in Environments
    /\ cycle.of \in Seq(Archived)
    /\ \A i \in DOMAIN cycle.of : cycle.of[i].code \in 1..code
    /\ cycle.incumbent \in Forward[environment].incumbents \cup {NoIncumbent}
    /\ cycle.state # "PAPER" => OneVersion(cycle.of) /\ PaperMinimumPassed(cycle.of)
    /\ cycle.state = "CHAMPION" => ComparisonPassed(cycle.of, cycle.incumbent)

\* The governor asks for the test the evaluation ran.
LEMMA GovernorAsks ==
    /\ \A reports : Challenger(reports) => PaperMinimumPassed(reports)
    /\ \A reports, incumbent :
          Champion(reports, incumbent) => ComparisonPassed(reports, incumbent)
<1>1. RequiredEvidence["CHALLENGER"] = {"paper_minimum_evidence"}
  BY DEF RequiredEvidence
<1>2. RequiredEvidence["CHAMPION"] = {"champion_comparison"}
  BY DEF RequiredEvidence
<1>3. ASSUME NEW type, NEW passed, type \in ValidatedTypes(Genome, {Paper(type, passed)})
      PROVE  passed
  <2>1. PICK r \in Accepted(Genome, {Paper(type, passed)}) : TRUE
    BY <1>3 DEF ValidatedTypes
  <2>2. r.passed /\ r.passed = passed
    BY <2>1 DEF Accepted, Paper, EvidenceRecord
  <2> QED
    BY <2>2
<1>4. ASSUME NEW reports, Challenger(reports)
      PROVE  PaperMinimumPassed(reports)
  <2> DEFINE passed == PaperMinimumPassed(reports)
  <2>1. RequiredEvidence["CHALLENGER"]
            \subseteq ValidatedTypes(Genome, {Paper("paper_minimum_evidence", passed)})
    BY <1>4 DEF Challenger, EvaluateValidatedPromotion, EvaluatePromotion, TerminalStates
  <2> HIDE DEF passed
  <2>2. passed
    BY <1>1, <1>3, <2>1
  <2> QED
    BY <2>2 DEF passed
<1>5. ASSUME NEW reports, NEW incumbent, Champion(reports, incumbent)
      PROVE  ComparisonPassed(reports, incumbent)
  <2> DEFINE passed == ComparisonPassed(reports, incumbent)
  <2>1. RequiredEvidence["CHAMPION"]
            \subseteq ValidatedTypes(Genome, {Paper("champion_comparison", passed)})
    BY <1>5 DEF Champion, EvaluateValidatedPromotion, EvaluatePromotion, TerminalStates
  <2> HIDE DEF passed
  <2>2. passed
    BY <1>2, <1>3, <2>1
  <2> QED
    BY <2>2 DEF passed
<1> QED
  BY <1>4, <1>5

\* Every step keeps the evaluation true to the windows it is of.
LEMMA JudgedStep == Typed /\ Judged /\ [Next]_vars => Judged'
<1> SUFFICES ASSUME Typed, Judged, [Next]_vars PROVE Judged'
  OBVIOUS
<1>1. environment' = environment
  BY DEF Next, Thread, vars, forward, probe, Deploy, ArchiveWindow, EvaluateForward, Dispatch,
         StartSmoke, SmokeBlocked, OnQuote, OnOrderAccepted, OnOrderRejected, VenueFills,
         NodeRaises, NodeStarts, DeadlinePasses, WatchdogStops, NodeStops, BuildBundle,
         AskGovernor
<1>2. Archived' = Archived
  BY <1>1 DEF Archived
<1>3. CASE UNCHANGED cycle
  <2>1. code' = code \/ code' = code + 1
    BY DEF Next, Thread, vars, forward, probe, Deploy, ArchiveWindow, EvaluateForward, Dispatch,
           StartSmoke, SmokeBlocked, OnQuote, OnOrderAccepted, OnOrderRejected, VenueFills,
           NodeRaises, NodeStarts, DeadlinePasses, WatchdogStops, NodeStops, BuildBundle,
           AskGovernor
  <2>2. code \in Nat /\ 1..code \subseteq 1..code'
    BY <2>1, BoundAssumption DEF Typed
  <2>3. \A i \in DOMAIN cycle'.of : cycle'.of[i].code \in 1..code'
    BY <1>3, <2>2 DEF Judged
  <2>4. cycle'.of \in Seq(Archived')
    BY <1>2, <1>3 DEF Judged
  <2> QED
    BY <1>1, <1>3, <2>3, <2>4
       DEF Judged, OneVersion, PaperMinimumPassed, ComparisonPassed, Ahead, ReturnAtLeast
<1>4. CASE EvaluateForward
  <2>1. PICK incumbent \in Forward[environment].incumbents :
            cycle' = [state |-> IF ~OneVersion(archive) THEN "PAPER"
                                ELSE IF ~Challenger(archive) THEN "PAPER"
                                ELSE IF ~Champion(archive, incumbent) THEN "CHALLENGER"
                                ELSE "CHAMPION",
                      of |-> archive, incumbent |-> incumbent]
    BY <1>4 DEF EvaluateForward
  <2>2. cycle'.of = archive /\ cycle'.incumbent = incumbent /\ code' = code
    BY <1>4, <2>1 DEF EvaluateForward
  <2>3. cycle'.state # "PAPER" => OneVersion(archive) /\ PaperMinimumPassed(archive)
    BY <2>1, GovernorAsks
  <2>4. cycle'.state = "CHAMPION" => ComparisonPassed(archive, incumbent)
    BY <2>1, GovernorAsks
  <2>5. cycle'.of \in Seq(Archived') /\ \A i \in DOMAIN cycle'.of : cycle'.of[i].code \in 1..code'
    BY <1>2, <2>2 DEF Typed
  <2> QED
    BY <1>1, <2>2, <2>3, <2>4, <2>5 DEF Judged
<1> QED
  BY <1>3, <1>4
     DEF Next, Thread, vars, forward, probe, Deploy, ArchiveWindow, Dispatch,
         StartSmoke, SmokeBlocked, OnQuote, OnOrderAccepted, OnOrderRejected, VenueFills,
         NodeRaises, NodeStarts, DeadlinePasses, WatchdogStops, NodeStops, BuildBundle,
         AskGovernor

\* It is true at first: nothing has been evaluated.
LEMMA JudgedInitially == Init => Judged
<1> SUFFICES ASSUME Init PROVE Judged
  OBVIOUS
<1>1. cycle.state = "PAPER" /\ cycle.of = <<>> /\ cycle.incumbent = NoIncumbent
  BY DEF Init, NoCycle
<1>2. environment \in Environments
  BY Zenon DEF Init
<1> QED
  BY <1>1, <1>2 DEF Judged

\* A CHALLENGER or CHAMPION was judged on sound windows of one code version
\* only, long and busy enough, that grew enough and of which none fell too far;
\* and a CHAMPION beats the incumbent by the margin even if the drawdown of any
\* of its windows is taken from its return (paper_forward.py 90-176,
\* champion.py 42-96).
THEOREM ChampionIsEarned == Spec => []ChampionEarned
<1>1. ASSUME Typed, Judged PROVE ChampionEarned
  <2> DEFINE windows == cycle.of
             incumbent == cycle.incumbent
  <2> DEFINE Earned(dd) ==
                 /\ 100 * Growth(windows) >=
                       (100 + dd + incumbent.ret - incumbent.dd + ChampionPolicy.improvement)
                           * Unchanged(windows)
                 /\ 100 * dd <= ChampionPolicy.ratio * incumbent.dd
  <2> SUFFICES ASSUME cycle.state # "PAPER"
               PROVE  /\ \E version \in 1..code : \A i \in DOMAIN windows :
                            windows[i].code = version /\ windows[i].window.sound
                      /\ Len(windows) >= PaperPolicy.sessions
                      /\ Total(windows, "duration") >= PaperPolicy.duration
                      /\ Total(windows, "trades") >= PaperPolicy.trades
                      /\ 100 * Growth(windows) >= (100 + PaperPolicy.ret) * Unchanged(windows)
                      /\ \A i \in DOMAIN windows : windows[i].window.dd <= PaperPolicy.dd
                      /\ cycle.state = "CHAMPION" =>
                            /\ Total(windows, "trades") >= ChampionPolicy.trades
                            /\ incumbent # NoIncumbent =>
                                  /\ incumbent.passed
                                  /\ \A i \in DOMAIN windows : Earned(windows[i].window.dd)
    BY DEF ChampionEarned
  <2>1. OneVersion(windows) /\ PaperMinimumPassed(windows)
    BY <1>1 DEF Judged
  <2>2. windows \in Seq(Archived)
    BY <1>1 DEF Judged
  <2>3. Archived \subseteq Reports
    <3>1. Forward[environment].windows \subseteq
              [duration : Nat, trades : Nat, ret : Int, dd : Nat, sound : BOOLEAN]
      BY <1>1, ForwardAssumption DEF Judged
    <3> QED
      BY <3>1 DEF Archived, Reports
  <2>4. windows \in Seq(Reports)
    <3> HIDE DEF Archived, Reports, windows
    <3> QED
      BY <2>2, <2>3
  <2>5. Len(windows) \in Nat /\ DOMAIN windows = 1..Len(windows)
    <3> HIDE DEF Reports, windows
    <3> QED
      BY <2>4
  <2>6. Len(windows) >= PaperPolicy.sessions /\ 1 \in DOMAIN windows
    BY <2>1, <2>5, ForwardAssumption DEF PaperMinimumPassed
  <2>7. \A i \in DOMAIN windows : windows[i].window.sound
    BY <2>1 DEF PaperMinimumPassed
  <2>8. windows[1].code \in 1..code /\ \A i \in DOMAIN windows : windows[i].code = windows[1].code
    BY <1>1, <2>1, <2>6 DEF Judged, OneVersion
  <2>9. \A i \in DOMAIN windows : windows[i].window.dd <= PaperPolicy.dd
    <3> TAKE i \in DOMAIN windows
    <3>1. windows[i] \in Reports
      BY <2>4
    <3>2. windows[i].window.dd \in Nat
      BY <3>1 DEF Reports
    <3>3. WorstDrawdown(windows) <= PaperPolicy.dd
      BY <2>1 DEF PaperMinimumPassed
    <3> QED
      BY <2>4, <3>2, <3>3, WorstIsWorst, ForwardAssumption
  <2>10. ASSUME cycle.state = "CHAMPION", incumbent # NoIncumbent
         PROVE  incumbent.passed /\ \A i \in DOMAIN windows : Earned(windows[i].window.dd)
    <3> DEFINE worst == WorstDrawdown(windows)
               margin == incumbent.ret - incumbent.dd + ChampionPolicy.improvement
    <3>1. ComparisonPassed(windows, incumbent)
      BY <1>1, <2>10 DEF Judged
    <3>2. /\ incumbent.ret \in Int /\ incumbent.dd \in Nat
          /\ ChampionPolicy.improvement \in Nat /\ ChampionPolicy.ratio \in Nat
      <4>1. incumbent.ret \in Int /\ incumbent.dd \in Nat
        BY <1>1, <2>10, ForwardAssumption DEF Judged
      <4>2. ChampionPolicy.improvement \in Nat /\ ChampionPolicy.ratio \in Nat
        BY ForwardAssumption
      <4> QED
        BY <4>1, <4>2
    <3>3. worst \in Nat /\ \A i \in DOMAIN windows : windows[i].window.dd <= worst
      BY <2>4, WorstIsWorst
    <3>4. incumbent.passed /\ 100 * Growth(windows) >= (100 + (worst + margin)) * Unchanged(windows)
      <4>1. 100 + (worst + margin)
                = 100 + (worst + incumbent.ret - incumbent.dd + ChampionPolicy.improvement)
        BY <3>2, <3>3
      <4> QED
        BY <2>10, <3>1, <4>1 DEF ComparisonPassed, Ahead, ReturnAtLeast
    <3>5. IF incumbent.dd = 0 THEN worst = 0
          ELSE 100 * worst <= ChampionPolicy.ratio * incumbent.dd
      BY <2>10, <3>1 DEF ComparisonPassed
    <3>6. 100 * Growth(windows) \in Int /\ Unchanged(windows) \in Nat
      BY <2>4, GrowthFacts
    <3>7. ASSUME NEW i \in DOMAIN windows
          PROVE  Earned(windows[i].window.dd)
      <4> DEFINE dd == windows[i].window.dd
      <4>1. dd \in Nat
        <5>1. windows[i] \in Reports
          BY <2>4
        <5> QED
          BY <5>1 DEF Reports
      <4>2. dd <= worst
        BY <3>3
      <4> HIDE DEF dd, worst, windows, incumbent
      <4>3. dd + margin \in Int /\ worst + margin \in Int /\ dd + margin <= worst + margin
        BY <3>2, <3>3, <4>1, <4>2
      <4>4. 100 * Growth(windows) >= (100 + (dd + margin)) * Unchanged(windows)
        <5> HIDE DEF margin
        <5> QED
          BY <3>4, <3>6, <4>3, MarginPaid
      <4>5. 100 + (dd + margin)
                = 100 + dd + incumbent.ret - incumbent.dd + ChampionPolicy.improvement
        BY <3>2, <4>1
      <4>6. 100 * dd <= ChampionPolicy.ratio * incumbent.dd
        <5>1. ChampionPolicy.ratio * incumbent.dd \in Nat
          BY <3>2
        <5>2. CASE incumbent.dd = 0
          BY <3>2, <3>5, <4>1, <4>2, <5>1, <5>2
        <5>3. CASE incumbent.dd # 0
          BY <3>3, <3>5, <4>1, <4>2, <5>1, <5>3
        <5> QED
          BY <5>2, <5>3
      <4> QED
        BY <4>4, <4>5, <4>6 DEF dd
    <3> QED
      BY <3>4, <3>7
  <2>11. cycle.state = "CHAMPION" => Total(windows, "trades") >= ChampionPolicy.trades
    BY <1>1 DEF Judged, ComparisonPassed
  <2>12. /\ Total(windows, "duration") >= PaperPolicy.duration
         /\ Total(windows, "trades") >= PaperPolicy.trades
         /\ 100 * Growth(windows) >= (100 + PaperPolicy.ret) * Unchanged(windows)
    BY <2>1 DEF PaperMinimumPassed, ReturnAtLeast
  <2> HIDE DEF windows, incumbent, Earned
  <2> QED
    BY <2>6, <2>7, <2>8, <2>9, <2>10, <2>11, <2>12
<1> QED
  BY <1>1, TypesInitially, TypeStep, JudgedInitially, JudgedStep, PTL DEF Spec

=============================================================================
