------------------------- MODULE RiskGovernorProofs -------------------------
(***************************************************************************)
(* Theorems of RiskGovernor, for any sets of strategies, symbols, venues,  *)
(* orders and for any limits: types, the order rate, the duplicate window, *)
(* the kill switches and the states an accepted order rests on.            *)
(***************************************************************************)
EXTENDS RiskGovernor, SequenceTheorems, TLAPS

-----------------------------------------------------------------------------
(* Lemmas                                                                  *)

\* Whatever the snapshot says, the evaluation (risk.py:81) yields an action.
LEMMA EvaluateRiskType == \A s, count : EvaluateRisk(s, count) \in Actions
BY DEF EvaluateRisk, Actions, KillActions

\* The kill switch that covers an intent yields an action (risk_runtime.py:245).
LEMMA ManualKillType == \A intent : ManualKill(intent) \in Actions
BY DEF ManualKill, Actions, KillActions

\* A fingerprint names the identities the switches and the states are kept by.
LEMMA FingerprintType ==
    ASSUME NEW order \in Orders
    PROVE  /\ Fingerprint(order) \in Fingerprints
           /\ Fingerprint(order) \in Intents
           /\ Fingerprint(order).strategy \in Strategies
BY InputsAssumption DEF Fingerprint, Fingerprints, Intents

\* The history after a trim is the old one without its first k times
\* (risk_runtime.py:258).
LEMMA TrimmedHistory ==
    ASSUME NEW times \in Seq(Nat), NEW k \in 0..Len(times)
    PROVE  LET rest == SubSeq(times, k + 1, Len(times)) IN
           /\ rest \in Seq(Nat)
           /\ Len(rest) = Len(times) - k
           /\ \A i \in 1..Len(rest) : rest[i] = times[k + i]
BY SubSeqProperties

-----------------------------------------------------------------------------
(* Types                                                                   *)

\* Rejecting an order leaves the histories' types alone.
LEMMA RejectType ==
    ASSUME TypeOK, NEW strategy \in Strategies, NEW action \in Actions,
           Reject(strategy, action)
    PROVE  /\ lastAllowed' \in [Fingerprints -> Nat \cup {Absent}]
           /\ accepted' \in Seq([intent : Fingerprints, at : Nat])
           /\ telemetry' \in [Strategies -> Telemetry]
BY DEF TypeOK, Reject, CountRejected, Telemetry

\* Accepting an order records an intent and a time.
LEMMA AllowType ==
    ASSUME TypeOK, NEW intent \in Fingerprints, intent.strategy \in Strategies,
           Allow(intent)
    PROVE  /\ lastAllowed' \in [Fingerprints -> Nat \cup {Absent}]
           /\ accepted' \in Seq([intent : Fingerprints, at : Nat])
           /\ telemetry' \in [Strategies -> Telemetry]
BY DEF TypeOK, Allow, CountAllowed, Telemetry

\* Trimming the history keeps its type.
LEMMA PopsType ==
    ASSUME orderTimes \in Seq(Nat), NEW k \in 0..Len(orderTimes)
    PROVE  /\ SubSeq(orderTimes, k + 1, Len(orderTimes)) \in Seq(Nat)
           /\ now \in Nat =>
                 Append(SubSeq(orderTimes, k + 1, Len(orderTimes)), now) \in Seq(Nat)
BY TrimmedHistory, AppendProperties

\* The initial states are well typed.
LEMMA TypeInit == Init => TypeOK
<1> SUFFICES ASSUME Init PROVE TypeOK
  OBVIOUS
<1>1. kills \in [STRATEGY : SUBSET Strategies, SYMBOL : SUBSET Symbols,
                 VENUE : SUBSET Venues, PORTFOLIO : SUBSET Portfolios]
  BY DEF Init
<1>2. orderTimes \in Seq(Nat) /\ accepted \in Seq([intent : Fingerprints, at : Nat])
  BY EmptySeq DEF Init
<1>3. telemetry \in [Strategies -> Telemetry]
  BY DEF Init, Telemetry
<1> QED
  BY <1>1, <1>2, <1>3 DEF Init, TypeOK

\* Every step of the governor keeps the types.
LEMMA TypeNext == TypeOK /\ [Next]_vars => TypeOK'
<1> SUFFICES ASSUME TypeOK, [Next]_vars PROVE TypeOK'
  OBVIOUS
<1>1. CASE Tick
  BY <1>1 DEF TypeOK, Tick, providerVars, runtimeVars, orderVars
<1>2. ASSUME NEW portfolio \in Portfolios, NEW symbol \in Symbols,
             UpdateAccountState(portfolio, symbol)
      PROVE  TypeOK'
  <2>1. accounts' \in [Portfolios \X Symbols -> Accounts \cup {Absent}]
    BY <1>2, InputsAssumption DEF TypeOK, UpdateAccountState
  <2> QED
    BY <1>2, <2>1 DEF TypeOK, UpdateAccountState, runtimeVars, orderVars
<1>3. ASSUME NEW symbol \in Symbols, UpdateMarketState(symbol)
      PROVE  TypeOK'
  <2>1. markets' \in [Symbols -> Markets \cup {Absent}]
    BY <1>3 DEF TypeOK, UpdateMarketState, Markets
  <2> QED
    BY <1>3, <2>1 DEF TypeOK, UpdateMarketState, runtimeVars, orderVars
<1>4. CASE UpdateReconciliation
  <2>1. recon' \in Reconciliations \cup {Absent}
    BY <1>4 DEF TypeOK, UpdateReconciliation, Reconciliations
  <2> QED
    BY <1>4, <2>1 DEF TypeOK, UpdateReconciliation, runtimeVars, orderVars
<1>5. ASSUME NEW venue \in Venues, UpdateApiHealth(venue)
      PROVE  TypeOK'
  BY <1>5 DEF TypeOK, UpdateApiHealth, orderVars
<1>6. ASSUME NEW portfolio \in Portfolios, UpdateCorrelatedExposure(portfolio)
      PROVE  TypeOK'
  BY <1>6 DEF TypeOK, UpdateCorrelatedExposure, providerVars, orderVars
<1>7. CASE KillSystem
  BY <1>7 DEF TypeOK, KillSystem, providerVars, orderVars
<1>8. ASSUME NEW target \in KillTargets, KillKey(target.scope, target.key)
      PROVE  TypeOK'
  <2>1. kills' \in [STRATEGY : SUBSET Strategies, SYMBOL : SUBSET Symbols,
                    VENUE : SUBSET Venues, PORTFOLIO : SUBSET Portfolios]
    <3>1. \/ target.scope = "STRATEGY" /\ target.key \in Strategies
          \/ target.scope = "SYMBOL" /\ target.key \in Symbols
          \/ target.scope = "VENUE" /\ target.key \in Venues
          \/ target.scope = "PORTFOLIO" /\ target.key \in Portfolios
      BY InputsAssumption
    <3> QED
      BY <1>8, <3>1 DEF TypeOK, KillKey
  <2> QED
    BY <1>8, <2>1 DEF TypeOK, KillKey, providerVars, orderVars
<1>9. ASSUME NEW order \in Orders, SubmitKilled(order)
      PROVE  TypeOK'
  <2> DEFINE intent == Fingerprint(order)
             action == IF systemKilled THEN "KILL_SYSTEM" ELSE ManualKill(intent)
  <2>1. intent.strategy \in Strategies /\ action \in Actions
    BY FingerprintType, ManualKillType DEF Actions, KillActions
  <2>2. Reject(intent.strategy, action)
    BY <1>9 DEF SubmitKilled
  <2>3. /\ lastAllowed' \in [Fingerprints -> Nat \cup {Absent}]
        /\ accepted' \in Seq([intent : Fingerprints, at : Nat])
        /\ telemetry' \in [Strategies -> Telemetry]
    BY <2>1, <2>2, RejectType
  <2> QED
    BY <1>9, <2>3 DEF TypeOK, SubmitKilled, providerVars, runtimeVars
<1>10. ASSUME NEW order \in Orders, SubmitEvaluated(order)
       PROVE  TypeOK'
  <2> DEFINE intent == Fingerprint(order)
  <2>1. intent \in Fingerprints /\ intent.strategy \in Strategies
    BY FingerprintType
  <2>2. PICK price \in Prices, k \in 0..Len(orderTimes) :
           LET rest == SubSeq(orderTimes, k + 1, Len(orderTimes))
               action == EvaluateRisk(Effective(intent, price), Len(rest)) IN
           /\ action \in Actions
           /\ IF action = "ALLOW"
              THEN Allow(intent) /\ orderTimes' = Append(rest, now)
              ELSE Reject(intent.strategy, action) /\ orderTimes' = rest
    BY <1>10, EvaluateRiskType DEF SubmitEvaluated, SubmitAt
  <2>3. orderTimes' \in Seq(Nat)
    BY <2>2, PopsType DEF TypeOK
  <2>4. /\ lastAllowed' \in [Fingerprints -> Nat \cup {Absent}]
        /\ accepted' \in Seq([intent : Fingerprints, at : Nat])
        /\ telemetry' \in [Strategies -> Telemetry]
    BY <2>1, <2>2, RejectType, AllowType
  <2> QED
    BY <1>10, <2>3, <2>4 DEF TypeOK, SubmitEvaluated, SubmitAt, providerVars, runtimeVars
<1>11. CASE UNCHANGED vars
  BY <1>11 DEF TypeOK, vars, providerVars, runtimeVars, orderVars
<1> QED
  BY <1>1, <1>2, <1>3, <1>4, <1>5, <1>6, <1>7, <1>8, <1>9, <1>10, <1>11 DEF Next

\* Every reachable state of the governor is well typed.
THEOREM TypeCorrect == Spec => []TypeOK
BY TypeInit, TypeNext, PTL DEF Spec

-----------------------------------------------------------------------------
(* The order history                                                       *)

Popped == Len(accepted) - Len(orderTimes)

\* What makes the two bounds inductive: the history holds the times of the last
\* accepted orders, those it has dropped are a minute old, and _last_allowed is
\* never before an accepted order of its fingerprint.
HistoryInv ==
    /\ Popped \in Nat
    /\ \A i \in 1..Len(orderTimes) : orderTimes[i] = accepted[Popped + i].at
    /\ \A i \in 1..Popped : accepted[i].at + Minute <= now
    /\ \A i \in 1..Len(accepted) :
          /\ accepted[i].at <= now
          /\ lastAllowed[accepted[i].intent] \in Nat
          /\ accepted[i].at <= lastAllowed[accepted[i].intent]
          /\ lastAllowed[accepted[i].intent] <= now

IInv == TypeOK /\ HistoryInv /\ OrderRateBounded /\ DuplicatesSpaced

\* What an order that is judged finds: k entries dropped as a minute old, and
\* then it is rejected or it is neither a duplicate nor over the quota.
LEMMA SubmitEvaluatedCases ==
    ASSUME TypeOK, NEW order \in Orders, SubmitEvaluated(order)
    PROVE  \E k \in 0..Len(orderTimes) :
              LET intent == Fingerprint(order)
                  rest == SubSeq(orderTimes, k + 1, Len(orderTimes)) IN
              /\ \A i \in 1..k : orderTimes[i] + Minute <= now
              /\ \/ orderTimes' = rest /\ UNCHANGED <<accepted, lastAllowed>>
                 \/ /\ orderTimes' = Append(rest, now)
                    /\ Allow(intent)
                    /\ Len(rest) < MaxOrdersPerMinute
                    /\ ~Duplicate(intent)
                    /\ ~Killed(intent)
<1> DEFINE intent == Fingerprint(order)
<1>1. PICK price \in Prices, k \in 0..Len(orderTimes) :
         LET rest == SubSeq(orderTimes, k + 1, Len(orderTimes))
             action == EvaluateRisk(Effective(intent, price), Len(rest)) IN
         /\ Pops(k)
         /\ IF action = "ALLOW"
            THEN Allow(intent) /\ orderTimes' = Append(rest, now)
            ELSE Reject(intent.strategy, action) /\ orderTimes' = rest
  BY DEF SubmitEvaluated, SubmitAt
<1> DEFINE rest == SubSeq(orderTimes, k + 1, Len(orderTimes))
           action == EvaluateRisk(Effective(intent, price), Len(rest))
<1>2. \A i \in 1..k : orderTimes[i] + Minute <= now
  BY <1>1 DEF Pops, Expired
<1>3. CASE action # "ALLOW"
  BY <1>1, <1>2, <1>3 DEF Reject
<1>4. CASE action = "ALLOW"
  <2>1. ~Duplicate(intent) /\ ~RateReached(Len(rest))
    BY <1>4 DEF EvaluateRisk, Effective
  <2>2. Len(rest) < MaxOrdersPerMinute
    <3>1. Len(rest) \in Nat
      BY TrimmedHistory DEF TypeOK
    <3> QED
      BY <2>1, <3>1, LimitsAssumption DEF RateReached
  <2>3. ~Killed(intent)
    BY DEF SubmitEvaluated, SubmitAt
  <2> QED
    BY <1>1, <1>2, <1>4, <2>1, <2>2, <2>3
<1> QED
  BY <1>3, <1>4

\* The histories change only when an order is judged, and time never runs back.
LEMMA HistoryFrame ==
    ASSUME TypeOK, [Next]_vars
    PROVE  \/ \E order \in Orders : SubmitEvaluated(order)
           \/ /\ UNCHANGED <<accepted, lastAllowed, orderTimes>>
              /\ now <= now'
<1> DEFINE Frame == UNCHANGED <<accepted, lastAllowed, orderTimes>> /\ now <= now'
<1>1. Tick => Frame
  BY DEF TypeOK, Tick, orderVars
<1>2. \A portfolio \in Portfolios, symbol \in Symbols :
         UpdateAccountState(portfolio, symbol) => Frame
  BY DEF TypeOK, UpdateAccountState, orderVars
<1>3. \A symbol \in Symbols : UpdateMarketState(symbol) => Frame
  BY DEF TypeOK, UpdateMarketState, orderVars
<1>4. UpdateReconciliation => Frame
  BY DEF TypeOK, UpdateReconciliation, orderVars
<1>5. \A venue \in Venues : UpdateApiHealth(venue) => Frame
  BY DEF TypeOK, UpdateApiHealth, orderVars
<1>6. \A portfolio \in Portfolios : UpdateCorrelatedExposure(portfolio) => Frame
  BY DEF TypeOK, UpdateCorrelatedExposure, orderVars
<1>7. KillSystem => Frame
  BY DEF TypeOK, KillSystem, orderVars
<1>8. \A target \in KillTargets : KillKey(target.scope, target.key) => Frame
  BY DEF TypeOK, KillKey, orderVars
<1>9. \A order \in Orders : SubmitKilled(order) => Frame
  BY DEF TypeOK, SubmitKilled, Reject
<1>10. UNCHANGED vars => Frame
  BY DEF TypeOK, vars, orderVars
<1> QED
  BY <1>1, <1>2, <1>3, <1>4, <1>5, <1>6, <1>7, <1>8, <1>9, <1>10 DEF Next

\* A trim that drops expired entries keeps what the history says of the past.
LEMMA TrimKeepsHistory ==
    ASSUME IInv, NEW k \in 0..Len(orderTimes),
           \A i \in 1..k : orderTimes[i] + Minute <= now
    PROVE  LET rest == SubSeq(orderTimes, k + 1, Len(orderTimes))
               d == Popped + k IN
           /\ rest \in Seq(Nat) /\ Len(rest) = Len(orderTimes) - k
           /\ d \in Nat /\ d + Len(rest) = Len(accepted)
           /\ \A i \in 1..Len(rest) : rest[i] = accepted[d + i].at
           /\ \A i \in 1..d : accepted[i].at + Minute <= now
<1> DEFINE rest == SubSeq(orderTimes, k + 1, Len(orderTimes))
           d == Popped + k
<1>1. /\ orderTimes \in Seq(Nat) /\ accepted \in Seq([intent : Fingerprints, at : Nat])
      /\ Len(orderTimes) \in Nat /\ Len(accepted) \in Nat /\ Popped \in Nat
  BY DEF IInv, TypeOK, HistoryInv
<1>2. /\ rest \in Seq(Nat) /\ Len(rest) = Len(orderTimes) - k
      /\ \A i \in 1..Len(rest) : rest[i] = orderTimes[k + i]
  BY <1>1, TrimmedHistory
<1> HIDE DEF rest
<1>3. d \in Nat /\ d + Len(rest) = Len(accepted)
  BY <1>1, <1>2 DEF Popped
<1>4. ASSUME NEW i \in 1..Len(rest) PROVE rest[i] = accepted[d + i].at
  <2>1. k + i \in 1..Len(orderTimes)
    BY <1>1, <1>2
  <2>2. orderTimes[k + i] = accepted[Popped + (k + i)].at
    BY <2>1 DEF IInv, HistoryInv
  <2>3. Popped + (k + i) = d + i
    BY <1>1
  <2> QED
    BY <1>2, <2>2, <2>3
<1>5. ASSUME NEW i \in 1..d PROVE accepted[i].at + Minute <= now
  <2>1. CASE i <= Popped
    <3>1. i \in 1..Popped
      BY <1>1, <2>1
    <3> QED
      BY <3>1 DEF IInv, HistoryInv
  <2>2. CASE i > Popped
    <3>1. i - Popped \in 1..k
      BY <1>1, <2>2
    <3>2. orderTimes[i - Popped] = accepted[Popped + (i - Popped)].at
      BY <1>1, <3>1 DEF IInv, HistoryInv
    <3>3. Popped + (i - Popped) = i
      BY <1>1
    <3> QED
      BY <3>1, <3>2, <3>3
  <2> QED
    BY <1>1, <2>1, <2>2
<1> QED
  BY <1>2, <1>3, <1>4, <1>5 DEF rest

\* The strengthened invariant survives an order that is judged.
LEMMA SubmitKeepsInv ==
    ASSUME IInv, NEW order \in Orders, SubmitEvaluated(order)
    PROVE  HistoryInv' /\ OrderRateBounded' /\ DuplicatesSpaced'
<1> DEFINE intent == Fingerprint(order)
<1>1. PICK k \in 0..Len(orderTimes) :
         LET rest == SubSeq(orderTimes, k + 1, Len(orderTimes)) IN
         /\ \A i \in 1..k : orderTimes[i] + Minute <= now
         /\ \/ orderTimes' = rest /\ UNCHANGED <<accepted, lastAllowed>>
            \/ /\ orderTimes' = Append(rest, now)
               /\ Allow(intent)
               /\ Len(rest) < MaxOrdersPerMinute
               /\ ~Duplicate(intent)
               /\ ~Killed(intent)
  BY SubmitEvaluatedCases DEF IInv
<1> DEFINE rest == SubSeq(orderTimes, k + 1, Len(orderTimes))
           d == Popped + k
           n == Len(accepted)
<1>2. /\ rest \in Seq(Nat) /\ Len(rest) = Len(orderTimes) - k /\ Len(rest) \in Nat
      /\ d \in Nat /\ d + Len(rest) = n
      /\ \A i \in 1..Len(rest) : rest[i] = accepted[d + i].at
      /\ \A i \in 1..d : accepted[i].at + Minute <= now
  BY <1>1, TrimKeepsHistory
<1>3. /\ now \in Nat /\ now' = now /\ Minute \in Nat /\ DuplicateWindow \in Nat
      /\ MaxOrdersPerMinute \in Nat /\ MaxOrdersPerMinute > 0
      /\ accepted \in Seq([intent : Fingerprints, at : Nat]) /\ n \in Nat
      /\ lastAllowed \in [Fingerprints -> Nat \cup {Absent}]
      /\ intent \in Fingerprints
  BY LimitsAssumption, FingerprintType DEF IInv, TypeOK, SubmitEvaluated, SubmitAt
<1>31. d \in Nat /\ Len(rest) \in Nat /\ n \in Nat /\ d + Len(rest) = n
  BY <1>2, <1>3
<1> HIDE DEF rest, d
<1>4. CASE orderTimes' = rest /\ UNCHANGED <<accepted, lastAllowed>>
  <2>1. Popped' = d
    BY <1>31, <1>4 DEF Popped
  <2>2. HistoryInv'
    BY <1>2, <1>3, <1>4, <2>1 DEF IInv, HistoryInv
  <2> QED
    BY <1>4, <2>2 DEF IInv, OrderRateBounded, DuplicatesSpaced
<1>5. CASE /\ orderTimes' = Append(rest, now)
           /\ Allow(intent)
           /\ Len(rest) < MaxOrdersPerMinute
           /\ ~Duplicate(intent)
  <2>1. /\ Len(accepted') = n + 1
        /\ \A i \in 1..n : accepted'[i] = accepted[i]
        /\ accepted'[n + 1] = [intent |-> intent, at |-> now]
    <3>1. accepted' = Append(accepted, [intent |-> intent, at |-> now])
      BY <1>5 DEF Allow
    <3> QED
      BY <1>3, <3>1, AppendProperties
  <2>2. /\ Len(orderTimes') = Len(rest) + 1
        /\ \A i \in 1..Len(rest) : orderTimes'[i] = rest[i]
        /\ orderTimes'[Len(rest) + 1] = now
    BY <1>2, <1>3, <1>5, AppendProperties
  <2>3. Popped' = d
    <3>1. Len(accepted') = n + 1 /\ Len(orderTimes') = Len(rest) + 1
      BY <2>1, <2>2
    <3> QED
      BY <1>31, <3>1 DEF Popped
  <2>4. /\ lastAllowed'[intent] = now
        /\ \A i \in 1..n : accepted[i].intent # intent =>
              lastAllowed'[accepted[i].intent] = lastAllowed[accepted[i].intent]
    BY <1>3, <1>5 DEF Allow
  <2>5. HistoryInv'
    <3>1. \A i \in 1..Len(orderTimes') : orderTimes'[i] = accepted'[d + i].at
      <4> SUFFICES ASSUME NEW i \in 1..Len(orderTimes')
                   PROVE  orderTimes'[i] = accepted'[d + i].at
        OBVIOUS
      <4>1. CASE i = Len(rest) + 1
        BY <1>2, <1>3, <2>1, <2>2, <4>1
      <4>2. CASE i # Len(rest) + 1
        <5>1. i \in 1..Len(rest) /\ d + i \in 1..n
          <6>1. Len(orderTimes') = Len(rest) + 1
            BY <2>2
          <6> QED
            BY <1>31, <4>2, <6>1
        <5> QED
          BY <1>2, <2>1, <2>2, <5>1
      <4> QED
        BY <4>1, <4>2
    <3>2. \A i \in 1..d : accepted'[i].at + Minute <= now
      <4>1. \A i \in 1..d : i \in 1..n
        BY <1>31
      <4> QED
        BY <1>2, <2>1, <4>1
    <3>3. \A i \in 1..n + 1 :
             /\ accepted'[i].at <= now
             /\ lastAllowed'[accepted'[i].intent] \in Nat
             /\ accepted'[i].at <= lastAllowed'[accepted'[i].intent]
             /\ lastAllowed'[accepted'[i].intent] <= now
      <4> SUFFICES ASSUME NEW i \in 1..n + 1
                   PROVE  /\ accepted'[i].at <= now
                          /\ lastAllowed'[accepted'[i].intent] \in Nat
                          /\ accepted'[i].at <= lastAllowed'[accepted'[i].intent]
                          /\ lastAllowed'[accepted'[i].intent] <= now
        OBVIOUS
      <4>1. CASE i = n + 1
        BY <1>3, <2>1, <2>4, <4>1
      <4>2. CASE i # n + 1
        <5>1. i \in 1..n
          BY <1>3, <4>2
        <5>2. accepted'[i] = accepted[i]
          BY <2>1, <5>1
        <5>3. /\ accepted[i].at <= now
              /\ lastAllowed[accepted[i].intent] \in Nat
              /\ accepted[i].at <= lastAllowed[accepted[i].intent]
              /\ lastAllowed[accepted[i].intent] <= now
          BY <5>1 DEF IInv, HistoryInv
        <5>4. CASE accepted[i].intent = intent
          BY <1>3, <2>4, <5>2, <5>3, <5>4
        <5>5. CASE accepted[i].intent # intent
          BY <2>4, <5>1, <5>2, <5>3, <5>5
        <5> QED
          BY <5>4, <5>5
      <4> QED
        BY <4>1, <4>2
    <3> QED
      BY <1>2, <1>3, <2>1, <2>3, <3>1, <3>2, <3>3 DEF HistoryInv
  <2>6. OrderRateBounded'
    <3> SUFFICES ASSUME NEW i \in 1..n + 1, i + MaxOrdersPerMinute <= n + 1
                 PROVE  accepted'[i + MaxOrdersPerMinute].at >= accepted'[i].at + Minute
      BY <2>1 DEF OrderRateBounded
    <3>1. CASE i + MaxOrdersPerMinute = n + 1
      <4>1. i \in 1..d /\ i \in 1..n
        BY <1>3, <1>31, <1>5, <3>1
      <4>2. accepted[i].at + Minute <= now
        BY <1>2, <4>1
      <4>3. accepted'[i] = accepted[i] /\ accepted'[n + 1].at = now
        BY <2>1, <4>1
      <4>4. accepted[i] \in [intent : Fingerprints, at : Nat]
        BY <1>3, <4>1, ElementOfSeq
      <4>5. accepted[i].at \in Nat
        BY <4>4
      <4> QED
        BY <1>3, <3>1, <4>2, <4>3, <4>5
    <3>2. CASE i + MaxOrdersPerMinute <= n
      <4>1. i \in 1..n /\ i + MaxOrdersPerMinute \in 1..n
        BY <1>3, <3>2
      <4> QED
        BY <2>1, <3>2, <4>1 DEF IInv, OrderRateBounded
    <3> QED
      BY <1>3, <3>1, <3>2
  <2>7. DuplicatesSpaced'
    <3> SUFFICES ASSUME NEW i \in 1..n + 1, NEW j \in 1..n + 1, i < j,
                        accepted'[i].intent = accepted'[j].intent
                 PROVE  accepted'[j].at >= accepted'[i].at + DuplicateWindow
      BY <2>1 DEF DuplicatesSpaced
    <3>1. i \in 1..n /\ accepted'[i] = accepted[i] /\ accepted[i].at \in Nat
      <4>1. i \in 1..n
        BY <1>3
      <4>2. accepted[i] \in [intent : Fingerprints, at : Nat]
        BY <1>3, <4>1, ElementOfSeq
      <4> QED
        BY <2>1, <4>1, <4>2
    <3>2. CASE j = n + 1
      <4>1. /\ lastAllowed[intent] \in Nat /\ accepted[i].at <= lastAllowed[intent]
            /\ accepted[i].at <= now
        BY <2>1, <3>1, <3>2 DEF IInv, HistoryInv
      <4>2. DuplicateWindow = 0 \/ now - lastAllowed[intent] >= DuplicateWindow
        BY <1>3, <1>5, <4>1, InputsAssumption DEF Duplicate
      <4> QED
        BY <1>3, <2>1, <3>1, <3>2, <4>1, <4>2
    <3>3. CASE j # n + 1
      <4>1. j \in 1..n /\ accepted'[j] = accepted[j]
        BY <1>3, <2>1, <3>3
      <4> QED
        BY <3>1, <4>1 DEF IInv, DuplicatesSpaced
    <3> QED
      BY <3>2, <3>3
  <2> QED
    BY <2>5, <2>6, <2>7
<1> QED
  BY <1>1, <1>4, <1>5 DEF rest

\* The strengthened invariant holds of every reachable state.
THEOREM InductiveInvariant == Spec => []IInv
<1>1. Init => IInv
  <2> SUFFICES ASSUME Init PROVE HistoryInv /\ OrderRateBounded /\ DuplicatesSpaced
    BY TypeInit DEF IInv
  <2>1. Len(accepted) = 0 /\ Len(orderTimes) = 0 /\ Popped = 0
    BY EmptySeq DEF Init, Popped
  <2> QED
    BY <2>1 DEF HistoryInv, OrderRateBounded, DuplicatesSpaced
<1>2. IInv /\ [Next]_vars => IInv'
  <2> SUFFICES ASSUME IInv, [Next]_vars
               PROVE  HistoryInv' /\ OrderRateBounded' /\ DuplicatesSpaced'
    BY TypeNext DEF IInv
  <2>1. CASE \E order \in Orders : SubmitEvaluated(order)
    BY <2>1, SubmitKeepsInv
  <2>2. CASE UNCHANGED <<accepted, lastAllowed, orderTimes>> /\ now <= now'
    <3>1. now \in Nat /\ now' \in Nat /\ Minute \in Nat /\ Popped' = Popped
      BY <2>2, TypeNext, LimitsAssumption DEF IInv, TypeOK, Popped
    <3>2. /\ Len(accepted) \in Nat /\ Popped \in Nat /\ Popped <= Len(accepted)
          /\ \A i \in 1..Len(accepted) : accepted[i].at \in Nat
      <4>1. /\ accepted \in Seq([intent : Fingerprints, at : Nat])
            /\ orderTimes \in Seq(Nat) /\ Popped \in Nat
        BY DEF IInv, TypeOK, HistoryInv
      <4>2. Len(accepted) \in Nat /\ Len(orderTimes) \in Nat
        BY <4>1
      <4>3. Popped <= Len(accepted)
        BY <4>1, <4>2 DEF Popped
      <4>4. ASSUME NEW i \in 1..Len(accepted) PROVE accepted[i].at \in Nat
        <5>1. accepted[i] \in [intent : Fingerprints, at : Nat]
          BY <4>1, ElementOfSeq
        <5> QED
          BY <5>1
      <4> QED
        BY <4>1, <4>2, <4>3, <4>4
    <3>3. \A i \in 1..Popped : accepted[i].at + Minute <= now'
      BY <2>2, <3>1, <3>2 DEF IInv, HistoryInv
    <3>4. \A i \in 1..Len(accepted) :
             accepted[i].at <= now' /\ lastAllowed[accepted[i].intent] <= now'
      BY <2>2, <3>1, <3>2 DEF IInv, HistoryInv
    <3>5. HistoryInv'
      BY <2>2, <3>1, <3>3, <3>4 DEF IInv, HistoryInv
    <3> QED
      BY <2>2, <3>5 DEF IInv, OrderRateBounded, DuplicatesSpaced
  <2> QED
    BY <2>1, <2>2, HistoryFrame DEF IInv
<1> QED
  BY <1>1, <1>2, PTL DEF Spec

\* No minute ever holds more accepted orders than the limit (risk_runtime.py:258).
THEOREM OrderRate == Spec => []OrderRateBounded
BY InductiveInvariant, PTL DEF IInv

\* Accepted orders of one fingerprint lie a duplicate window apart
\* (risk_runtime.py:282).
THEOREM DuplicateSpacing == Spec => []DuplicatesSpaced
BY InductiveInvariant, PTL DEF IInv

-----------------------------------------------------------------------------
(* The kill switches                                                       *)

Scopes == {"STRATEGY", "SYMBOL", "VENUE", "PORTFOLIO"}

\* No step takes a kill switch back.
LEMMA KillsStay ==
    ASSUME TypeOK, [Next]_vars
    PROVE  /\ systemKilled => systemKilled'
           /\ \A scope \in Scopes : kills[scope] \subseteq kills'[scope]
<1> DEFINE Stay == /\ systemKilled => systemKilled'
                   /\ \A scope \in Scopes : kills[scope] \subseteq kills'[scope]
<1>1. ASSUME NEW target \in KillTargets, KillKey(target.scope, target.key)
      PROVE  Stay
  <2>1. /\ systemKilled' = systemKilled
        /\ kills' = [kills EXCEPT ![target.scope] = @ \cup {target.key}]
    BY <1>1 DEF KillKey
  <2>2. ASSUME NEW scope \in Scopes PROVE kills[scope] \subseteq kills'[scope]
    BY <2>1 DEF TypeOK, Scopes
  <2> QED
    BY <2>1, <2>2
<1>2. KillSystem => Stay
  BY DEF TypeOK, KillSystem
<1>3. UNCHANGED <<systemKilled, kills>> => Stay
  OBVIOUS
<1>4. \/ UNCHANGED <<systemKilled, kills>> \/ KillSystem
      \/ \E target \in KillTargets : KillKey(target.scope, target.key)
  BY DEF Next, Tick, UpdateAccountState, UpdateMarketState, UpdateReconciliation,
         UpdateApiHealth, UpdateCorrelatedExposure, SubmitKilled, SubmitEvaluated, SubmitAt,
         runtimeVars, vars
<1> QED
  BY <1>1, <1>2, <1>3, <1>4

\* A kill switch that covers an intent stays, and no order of the intent is
\* accepted from then on (risk_runtime.py:176, 245, 268).
THEOREM KillSwitches == Spec => KilledNeverTrades
<1>1. TypeOK /\ [Next]_vars => [KillStep]_vars
  <2> SUFFICES ASSUME TypeOK, [Next]_vars, NEW order \in Orders,
                      CoveredByKill(Fingerprint(order))
               PROVE  /\ CoveredByKill(Fingerprint(order))'
                      /\ accepted' # accepted =>
                            accepted'[Len(accepted')].intent # Fingerprint(order)
    BY DEF KillStep
  <2> DEFINE intent == Fingerprint(order)
  <2>1. CoveredByKill(intent)'
    BY KillsStay DEF CoveredByKill, Scopes, Fingerprint
  <2>2. Killed(intent)
    BY DEF CoveredByKill, KeyOf, Killed
  <2>3. ASSUME accepted' # accepted
        PROVE  accepted'[Len(accepted')].intent # intent
    <3>1. PICK other \in Orders : SubmitEvaluated(other)
      BY <2>3, HistoryFrame
    <3>2. Allow(Fingerprint(other)) /\ ~Killed(Fingerprint(other))
      BY <2>3, <3>1, SubmitEvaluatedCases
    <3>3. accepted' = Append(accepted, [intent |-> Fingerprint(other), at |-> now])
      BY <3>2 DEF Allow
    <3>4. /\ accepted \in Seq([intent : Fingerprints, at : Nat])
          /\ Fingerprint(other) \in Fingerprints /\ now \in Nat
      BY FingerprintType DEF TypeOK
    <3>5. accepted'[Len(accepted')] = [intent |-> Fingerprint(other), at |-> now]
      BY <3>3, <3>4, AppendProperties
    <3> QED
      BY <2>2, <3>2, <3>5
  <2> QED
    BY <2>1, <2>3
<1> QED
  BY <1>1, TypeCorrect, PTL DEF Spec, KilledNeverTrades

-----------------------------------------------------------------------------
(* The reported states                                                     *)

\* The provider only ever holds an account state that was reported.
ReportedInv ==
    \A key \in Portfolios \X Symbols : accounts[key] \in AccountStates \cup {Absent}

\* Every step keeps it: the provider invents no account state.
LEMMA ReportedStep ==
    ASSUME TypeOK, ReportedInv, [Next]_vars
    PROVE  ReportedInv'
<1>1. ASSUME NEW portfolio \in Portfolios, NEW symbol \in Symbols,
             UpdateAccountState(portfolio, symbol)
      PROVE  ReportedInv'
  <2>1. PICK state \in AccountStates :
           accounts' = [accounts EXCEPT ![<<portfolio, symbol>>] = state]
    BY <1>1 DEF UpdateAccountState
  <2> QED
    BY <2>1 DEF ReportedInv, TypeOK
<1>2. UNCHANGED accounts => ReportedInv'
  BY DEF ReportedInv
<1>3. \/ UNCHANGED accounts
      \/ \E portfolio \in Portfolios, symbol \in Symbols :
            UpdateAccountState(portfolio, symbol)
  BY DEF Next, Tick, UpdateMarketState, UpdateReconciliation, UpdateApiHealth,
         UpdateCorrelatedExposure, KillSystem, KillKey, SubmitKilled,
         SubmitEvaluated, SubmitAt, providerVars, vars
<1> QED
  BY <1>1, <1>2, <1>3

\* What the snapshot of an owned provider was taken from, when it is in order.
LEMMA OwnedInOrder ==
    ASSUME TypeOK, ReportedInv, NEW intent \in Intents, NEW price \in Prices,
           provider = "owned", NEW count,
           EvaluateRisk(Effective(intent, price), count) = "ALLOW"
    PROVE  LET account == accounts[<<intent.portfolio, intent.symbol>>] IN
           /\ account \in AccountStates /\ price # 0
           /\ ~account.loss /\ ~account.capped
           /\ account.symbolExposure + Notional(intent, price) <= MaxSymbolExposure
           /\ account.portfolioExposure + Notional(intent, price) <= MaxPortfolioExposure
           /\ markets[intent.symbol] # Absent
           /\ now <= markets[intent.symbol].observedAt + MaxMarketAge
           /\ recon # Absent /\ recon.ok /\ now <= recon.observedAt + MaxReconAge
           /\ venues[intent.venue] = TRUE /\ health[intent.venue] # FALSE
<1> DEFINE account == accounts[<<intent.portfolio, intent.symbol>>]
           market == markets[intent.symbol]
           s == Effective(intent, price)
<1>1. /\ <<intent.portfolio, intent.symbol>> \in Portfolios \X Symbols
      /\ intent.symbol \in Symbols /\ intent.qty \in Nat
  BY DEF Intents
<1>2. /\ account \in AccountStates \cup {Absent} /\ market \in Markets \cup {Absent}
      /\ recon \in Reconciliations \cup {Absent} /\ now \in Nat
  BY <1>1 DEF TypeOK, ReportedInv
<1>3. ~s.stop /\ ~s.stale /\ s.reconciled /\ s.healthy /\ ~s.loss /\ ~OverLimit(s)
  <2> HIDE DEF s
  <2> QED
    BY DEF EvaluateRisk, s
<1>4. SnapshotForOrder(intent, price) = OwnedSnapshot(intent, price)
  BY DEF SnapshotForOrder
<1>5. /\ s.stop <=> EmergencyStop(account, price)
      /\ s.stale <=> MarketStale(intent.symbol)
      /\ s.reconciled <=> ReconciliationOk
      /\ s.healthy <=> venues[intent.venue] = TRUE /\ health[intent.venue] # FALSE
      /\ s.loss <=> account # Absent /\ account.loss
      /\ s.capped <=> (account # Absent /\ account.capped) \/ correlated[intent.portfolio]
      /\ s.notional = Notional(intent, price)
      /\ s.symbolExposure = IF account = Absent THEN 0 ELSE account.symbolExposure
      /\ s.portfolioExposure = IF account = Absent THEN 0 ELSE account.portfolioExposure
  <2> DEFINE snapshot == OwnedSnapshot(intent, price)
  <2>1. /\ snapshot.stop = EmergencyStop(account, price)
        /\ snapshot.stale = MarketStale(intent.symbol)
        /\ snapshot.reconciled = ReconciliationOk
    BY Zenon DEF OwnedSnapshot
  <2>2. /\ snapshot.healthy = (venues[intent.venue] = TRUE)
        /\ snapshot.loss = (account # Absent /\ account.loss)
        /\ snapshot.capped = (account # Absent /\ account.capped)
    BY Zenon DEF OwnedSnapshot
  <2>3. /\ snapshot.notional = Notional(intent, price)
        /\ snapshot.symbolExposure = IF account = Absent THEN 0 ELSE account.symbolExposure
        /\ snapshot.portfolioExposure
             = IF account = Absent THEN 0 ELSE account.portfolioExposure
    BY DEF OwnedSnapshot
  <2>4. /\ s.stop = snapshot.stop /\ s.stale = snapshot.stale
        /\ s.reconciled = snapshot.reconciled /\ s.loss = snapshot.loss
        /\ s.notional = snapshot.notional
        /\ s.symbolExposure = snapshot.symbolExposure
        /\ s.portfolioExposure = snapshot.portfolioExposure
    BY <1>4 DEF Effective
  <2>5. /\ s.capped = (snapshot.capped \/ correlated[intent.portfolio])
        /\ s.healthy = (snapshot.healthy /\ health[intent.venue] # FALSE)
    BY <1>4, Zenon DEF Effective
  <2> HIDE DEF s, snapshot
  <2> QED
    BY <2>1, <2>2, <2>3, <2>4, <2>5
<1>6. account \in AccountStates /\ account \in Accounts /\ price # 0
  BY <1>2, <1>3, <1>5, InputsAssumption DEF EmergencyStop
<1>7. ~account.loss /\ ~account.capped
  BY <1>3, <1>5, <1>6, InputsAssumption DEF OverLimit
<1>8. /\ account.symbolExposure + Notional(intent, price) <= MaxSymbolExposure
      /\ account.portfolioExposure + Notional(intent, price) <= MaxPortfolioExposure
  <2>1. /\ account.symbolExposure \in Nat /\ account.portfolioExposure \in Nat
        /\ Notional(intent, price) \in Nat
    BY <1>1, <1>6, InputsAssumption DEF Accounts, Notional
  <2>2. /\ ~(s.symbolExposure + s.notional > MaxSymbolExposure)
        /\ ~(s.portfolioExposure + s.notional > MaxPortfolioExposure)
    BY <1>3 DEF OverLimit
  <2>3. /\ s.symbolExposure = account.symbolExposure
        /\ s.portfolioExposure = account.portfolioExposure
        /\ s.notional = Notional(intent, price)
    BY <1>5, <1>6, InputsAssumption
  <2> HIDE DEF s, account
  <2> QED
    BY <2>1, <2>2, <2>3, LimitsAssumption
<1>9. market # Absent /\ now <= market.observedAt + MaxMarketAge
  <2>1. market # Absent /\ ~(Elapsed(market.observedAt) > MaxMarketAge)
    BY <1>3, <1>5 DEF MarketStale
  <2>2. market.observedAt \in Nat
    BY <1>2, <2>1 DEF Markets
  <2> QED
    BY <1>2, <2>1, <2>2, LimitsAssumption DEF Elapsed
<1>10. recon # Absent /\ recon.ok /\ now <= recon.observedAt + MaxReconAge
  <2>1. recon # Absent /\ recon.ok /\ Elapsed(recon.observedAt) <= MaxReconAge
    BY <1>3, <1>5 DEF ReconciliationOk
  <2>2. recon.observedAt \in Nat
    BY <1>2, <2>1 DEF Reconciliations
  <2> QED
    BY <1>2, <2>1, <2>2, LimitsAssumption DEF Elapsed
<1>11. venues[intent.venue] = TRUE /\ health[intent.venue] # FALSE
  BY <1>3, <1>5
<1> HIDE DEF s
<1> QED
  BY <1>6, <1>7, <1>8, <1>9, <1>10, <1>11

\* Without a provider nothing is allowed.
LEMMA AllowedProviders ==
    ASSUME TypeOK, NEW intent, NEW price, NEW count, provider \notin {"owned", "simulation"}
    PROVE  EvaluateRisk(Effective(intent, price), count) # "ALLOW"
<1> DEFINE s == Effective(intent, price)
<1>1. SnapshotForOrder(intent, price) = ClosedSnapshot(intent, price)
  BY DEF SnapshotForOrder
<1>2. s.stop
  BY <1>1 DEF Effective, ClosedSnapshot, SimulationSnapshot
<1> HIDE DEF s
<1> QED
  BY <1>2 DEF EvaluateRisk, s

\* An execution path owns its risk state: an order is accepted only while every
\* state it depends on was reported, is recent and in order, and the exposure it
\* adds fits the caps (risk_state.py:82).
THEOREM ReportedStatesOnly == Spec => AcceptedOnlyOnReportedState
<1>1. Init => ReportedInv
  BY DEF Init, ReportedInv
<1>2. ASSUME TypeOK, ReportedInv, [Next]_vars
      PROVE  [ReportedStateStep]_vars
  <2> SUFFICES ASSUME accepted' # accepted
               PROVE  ReportedStateStep
    BY DEF ReportedStateStep
  <2>1. PICK order \in Orders : SubmitEvaluated(order)
    BY <1>2, HistoryFrame
  <2> DEFINE intent == Fingerprint(order)
  <2>2. PICK price \in Prices, k \in 0..Len(orderTimes) :
           /\ EvaluateRisk(Effective(intent, price),
                           Len(SubSeq(orderTimes, k + 1, Len(orderTimes)))) = "ALLOW"
           /\ Allow(intent)
    BY <2>1 DEF SubmitEvaluated, SubmitAt, Reject
  <2>3. accepted'[Len(accepted')].intent = intent
    <3>1. accepted' = Append(accepted, [intent |-> intent, at |-> now])
      BY <2>2 DEF Allow
    <3>2. /\ accepted \in Seq([intent : Fingerprints, at : Nat])
          /\ intent \in Fingerprints /\ now \in Nat
      BY <1>2, FingerprintType DEF TypeOK
    <3>3. accepted'[Len(accepted')] = [intent |-> intent, at |-> now]
      BY <3>1, <3>2, AppendProperties
    <3> QED
      BY <3>3
  <2>4. intent \in Intents
    BY InputsAssumption DEF Fingerprint
  <2>5. provider = "owned" \/ provider = "simulation"
    BY <1>2, <2>2, AllowedProviders
  <2> HIDE DEF intent
  <2>6. CASE provider = "owned"
    BY <1>2, <2>2, <2>3, <2>4, <2>6, OwnedInOrder DEF ReportedStateStep
  <2>7. CASE provider = "simulation"
    BY <2>7 DEF ReportedStateStep
  <2> QED
    BY <2>5, <2>6, <2>7
<1>3. TypeOK /\ ReportedInv /\ [Next]_vars => ReportedInv'
  BY ReportedStep
<1> QED
  BY <1>1, <1>2, <1>3, TypeCorrect, PTL DEF Spec, AcceptedOnlyOnReportedState

=============================================================================
