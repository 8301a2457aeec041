--------------------------- MODULE ExitMonitorProofs ---------------------------
(***************************************************************************)
(* The exit monitor for every set of symbols and prices and any number of  *)
(* plans: what the trailing stop remembers, and what may liquidate.        *)
(***************************************************************************)
EXTENDS ExitMonitor, TLAPS, SequenceTheorems, WellFoundedInduction

-------------------------------------------------------------------------------
(* The plan that governs *)

\* A nonempty set of positions in a sequence has a last one.
LEMMA LastExists ==
    ASSUME NEW n \in Nat, NEW L \in SUBSET (1..n), L # {}
    PROVE  \E i \in L : \A j \in L : j <= i
<1> DEFINE T == {n - i : i \in L}
<1>1. T \subseteq Nat /\ T # {}
  <2>1. PICK i \in L : TRUE
    OBVIOUS
  <2>2. n - i \in T
    OBVIOUS
  <2>3. \A j \in L : n - j \in Nat
    OBVIOUS
  <2> QED
    BY <2>2, <2>3
<1>2. PICK x \in T : \A y \in T : <<y, x>> \notin OpToRel(<, Nat)
  <2> HIDE DEF T
  <2> QED
    BY <1>1, NatLessThanWellFounded, WFMin, Zenon
<1>3. \A y \in T : ~(y < x)
  <2> SUFFICES ASSUME NEW y \in T, y < x PROVE FALSE
    OBVIOUS
  <2>1. <<y, x>> \in Nat \X Nat /\ <<y, x>>[1] < <<y, x>>[2]
    BY <1>1
  <2> HIDE DEF T
  <2>2. <<y, x>> \in OpToRel(<, Nat)
    BY <2>1, Zenon DEF OpToRel
  <2> QED
    BY <1>2, <2>2, Zenon
<1>4. PICK i \in L : x = n - i
  OBVIOUS
<1>5. ASSUME NEW j \in L PROVE j <= i
  <2>1. n - j \in T
    OBVIOUS
  <2>2. ~(n - j < n - i)
    BY <1>3, <1>4, <2>1
  <2>3. i \in Int /\ j \in Int
    OBVIOUS
  <2> HIDE DEF T
  <2> QED
    BY ONLY <2>2, <2>3, n \in Nat
<1> QED
  BY <1>5

\* The part of TypeOK the arguments need.
PlanTypes ==
    /\ price \in [Symbols -> Prices]
    /\ plans \in [Symbols -> Seq(Plan)]
    /\ assessed \in Assessment

\* The governing plan is one of the symbol's plans.
LEMMA GoverningIsLive ==
    ASSUME PlanTypes, NEW s \in Symbols, Governing(s) # 0
    PROVE  Governing(s) \in DOMAIN plans[s]
<1>1. plans[s] \in Seq(Plan) /\ LivePlans(s) # {}
  BY DEF PlanTypes, Governing
<1>2. LivePlans(s) \in SUBSET (1..Len(plans[s])) /\ Len(plans[s]) \in Nat
  BY <1>1 DEF LivePlans
<1>3. \E i \in LivePlans(s) : \A j \in LivePlans(s) : j <= i
  BY <1>1, <1>2, LastExists
<1>4. Governing(s) \in LivePlans(s)
  BY <1>1, <1>3 DEF Governing
<1> QED
  BY <1>4 DEF LivePlans

-------------------------------------------------------------------------------
(* The marks *)

\* Every plan's stored mark is at least the highest price it was evaluated at.
MarksHold == \A s \in Symbols : \A i \in DOMAIN plans[s] : plans[s][i].highWaterMark >= plans[s][i].peak

MarkInv == PlanTypes /\ MarksHold

\* There are no plans at boot.
LEMMA MarkInit == Init => MarkInv
BY ExitAssumption DEF Init, MarkInv, PlanTypes, MarksHold, Assessment, detectRegimeOfNothing

\* Writing marks raises them to the price at least.
LEMMA MarkingKeeps ==
    ASSUME MarkInv, NEW symbols, plans' = Marked(symbols), price' = price, assessed' = assessed
    PROVE  MarkInv'
<1>1. ASSUME NEW s \in Symbols
      PROVE  /\ plans'[s] \in Seq(Plan)
             /\ \A i \in DOMAIN plans'[s] : plans'[s][i].highWaterMark >= plans'[s][i].peak
  <2> DEFINE g == Governing(s)
             old == plans[s][g]
             peak == IF price[s] > old.peak THEN price[s] ELSE old.peak
             new == [old EXCEPT !.highWaterMark = Ratcheted(old, s), !.peak = peak]
  <2>1. CASE ~(s \in symbols /\ Governed(s))
    <3>1. plans'[s] = plans[s]
      BY <2>1 DEF Marked
    <3> QED
      BY <3>1 DEF MarkInv, PlanTypes, MarksHold
  <2>2. CASE s \in symbols /\ Governed(s)
    <3>1. plans'[s] = [plans[s] EXCEPT ![g] = new]
      <4>1. plans'[s] = [plans[s] EXCEPT ![g].highWaterMark = Ratcheted(old, s),
                                         ![g].peak = peak]
        BY <2>2 DEF Marked
      <4> HIDE DEF peak
      <4> QED
        BY <4>1
    <3>2. g \in DOMAIN plans[s] /\ plans[s] \in Seq(Plan) /\ old \in Plan
      BY <2>2, GoverningIsLive DEF MarkInv, PlanTypes, Governed
    <3>3. /\ price[s] \in Prices /\ price[s] \in Nat /\ old.highWaterMark \in Prices
          /\ old.peak \in Prices /\ old.highWaterMark \in Nat /\ old.peak \in Nat
          /\ old.highWaterMark >= old.peak
      BY <3>2, ExitAssumption DEF MarkInv, PlanTypes, MarksHold, Plan
    <3>4. Ratcheted(old, s) \in Prices /\ peak \in Prices /\ Ratcheted(old, s) >= peak
      BY <3>3 DEF Ratcheted
    <3> HIDE DEF peak, g
    <3>5. new \in Plan /\ new.highWaterMark >= new.peak
      BY <3>2, <3>4 DEF Plan
    <3> HIDE DEF new, old
    <3>6. plans'[s] \in Seq(Plan)
      BY <3>1, <3>2, <3>5, ExceptSeq
    <3>7. ASSUME NEW i \in DOMAIN plans'[s]
          PROVE  plans'[s][i].highWaterMark >= plans'[s][i].peak
      <4>1. CASE i = g
        BY <3>1, <3>2, <3>5, <4>1
      <4>2. CASE i # g
        BY <3>1, <4>2 DEF MarkInv, MarksHold
      <4> QED
        BY <4>1, <4>2
    <3> QED
      BY <3>6, <3>7
  <2> QED
    BY <2>1, <2>2
<1>2. plans' = [s \in Symbols |-> plans'[s]]
  BY DEF Marked
<1>3. plans' \in [Symbols -> Seq(Plan)]
  BY <1>1, <1>2
<1> QED
  BY <1>1, <1>3 DEF MarkInv, PlanTypes, MarksHold

\* A plan that is appended or changed in its status or its time keeps its mark.
LEMMA PlanChangeKeeps ==
    ASSUME MarkInv, NEW s \in Symbols, NEW new \in Seq(Plan),
           \A i \in DOMAIN new : new[i].highWaterMark >= new[i].peak,
           plans' = [plans EXCEPT ![s] = new], price' = price, assessed' = assessed
    PROVE  MarkInv'
BY DEF MarkInv, PlanTypes, MarksHold

\* The end or the time of one plan.
LEMMA FieldChangeKeeps ==
    ASSUME MarkInv, NEW s \in Symbols, NEW i \in DOMAIN plans[s], NEW changed \in Plan,
           changed.highWaterMark = plans[s][i].highWaterMark,
           changed.peak = plans[s][i].peak,
           plans' = [plans EXCEPT ![s][i] = changed], price' = price, assessed' = assessed
    PROVE  MarkInv'
<1> DEFINE new == [plans[s] EXCEPT ![i] = changed]
<1>1. plans[s] \in Seq(Plan) /\ plans' = [plans EXCEPT ![s] = new]
  BY DEF MarkInv, PlanTypes
<1>2. new \in Seq(Plan)
  BY <1>1, ExceptSeq
<1>3. \A j \in DOMAIN new : new[j].highWaterMark >= new[j].peak
  BY <1>1 DEF MarkInv, MarksHold
<1> HIDE DEF new
<1> QED
  BY <1>1, <1>2, <1>3, PlanChangeKeeps

\* Every step keeps the marks at or above the peaks.
LEMMA MarkNext == MarkInv /\ [Next]_vars => MarkInv'
<1> SUFFICES ASSUME MarkInv, [Next]_vars PROVE MarkInv'
  OBVIOUS
<1> USE ExitAssumption
<1>1. CASE Evaluate
  BY <1>1, MarkingKeeps DEF Evaluate, broker
<1>2. CASE EvaluateDegraded
  BY <1>2, MarkingKeeps DEF EvaluateDegraded, broker
<1>3. ASSUME NEW s \in Symbols, Buy(s) PROVE MarkInv'
  <2> DEFINE plan == [status |-> "open", due |-> FALSE, highWaterMark |-> EntryPrice,
                      peak |-> EntryPrice]
             new == Append(plans[s], plan)
  <2>1. plan \in Plan /\ plan.highWaterMark >= plan.peak
    BY DEF Plan
  <2>2. plans[s] \in Seq(Plan) /\ plans' = [plans EXCEPT ![s] = new]
        /\ price' = price /\ assessed' = assessed
    BY <1>3 DEF Buy, MarkInv, PlanTypes, broker
  <2>3. \A i \in DOMAIN plans[s] : plans[s][i].highWaterMark >= plans[s][i].peak
    BY DEF MarkInv, MarksHold
  <2> HIDE DEF plan
  <2>4. /\ new \in Seq(Plan)
        /\ \A i \in DOMAIN new : (i \in DOMAIN plans[s] /\ new[i] = plans[s][i]) \/ new[i] = plan
    BY <2>1, <2>2, AppendProperties
  <2>5. \A i \in DOMAIN new : new[i].highWaterMark >= new[i].peak
    BY <2>1, <2>3, <2>4
  <2> HIDE DEF new
  <2> QED
    BY <2>2, <2>4, <2>5, PlanChangeKeeps
<1>4. ASSUME NEW s \in Symbols, NEW i \in 1..MaxPlans[s], BuyEnds(s, i) PROVE MarkInv'
  <2>1. i \in DOMAIN plans[s] /\ plans[s][i] \in Plan
    BY <1>4 DEF BuyEnds, MarkInv, PlanTypes
  <2>2. PICK end \in {"filled", "dead"} : plans' = [plans EXCEPT ![s][i].status = end]
    BY <1>4 DEF BuyEnds
  <2> DEFINE changed == [plans[s][i] EXCEPT !.status = end]
  <2>3. /\ changed \in Plan /\ changed.highWaterMark = plans[s][i].highWaterMark
        /\ changed.peak = plans[s][i].peak
    BY <2>1 DEF Plan
  <2>4. plans' = [plans EXCEPT ![s][i] = changed] /\ price' = price /\ assessed' = assessed
    BY <1>4, <2>2 DEF BuyEnds
  <2> HIDE DEF changed
  <2> QED
    BY <2>1, <2>3, <2>4, FieldChangeKeeps
<1>5. ASSUME NEW s \in Symbols, NEW i \in 1..MaxPlans[s], PlanDue(s, i) PROVE MarkInv'
  <2>1. i \in DOMAIN plans[s] /\ plans[s][i] \in Plan
    BY <1>5 DEF PlanDue, MarkInv, PlanTypes
  <2> DEFINE changed == [plans[s][i] EXCEPT !.due = TRUE]
  <2>2. /\ changed \in Plan /\ changed.highWaterMark = plans[s][i].highWaterMark
        /\ changed.peak = plans[s][i].peak
    BY <2>1 DEF Plan
  <2>3. plans' = [plans EXCEPT ![s][i] = changed] /\ price' = price /\ assessed' = assessed
    BY <1>5 DEF PlanDue, broker
  <2> HIDE DEF changed
  <2> QED
    BY <2>1, <2>2, <2>3, FieldChangeKeeps
<1>6. ASSUME NEW s \in Symbols, PriceMoves(s) PROVE MarkInv'
  BY <1>6 DEF PriceMoves, MarkInv, PlanTypes, MarksHold, stored
<1>7. CASE Assess \/ RegimeAges
  <2>1. plans' = plans /\ price' = price
    BY <1>7 DEF Assess, ReuseRegime, FetchRegime, RegimeStoreFails, RegimeAges, broker, stored
  <2>2. assessed' \in Assessment
    <3>1. Fetched \subseteq Assessment
      BY DEF Fetched, Assessment, detectRegimeOfNothing
    <3> QED
      BY <1>7, <3>1 DEF Assess, ReuseRegime, FetchRegime, RegimeStoreFails, RegimeAges,
                        stored, MarkInv, PlanTypes, Assessment
  <2> QED
    BY <2>1, <2>2 DEF MarkInv, PlanTypes, MarksHold
<1>8. CASE UNCHANGED <<plans, price, assessed>>
  BY <1>8 DEF MarkInv, PlanTypes, MarksHold
<1>9. ASSUME NEW s \in Symbols,
             \/ Sell(s) \/ Invalidate(s) \/ SellFills(s) \/ PositionCloses(s) \/ SellDies(s)
      PROVE  UNCHANGED <<plans, price, assessed>>
  BY <1>9 DEF Sell, SellRefused, SellSubmitted, SellFails, SellingThrows, Invalidate, SellFills,
              PositionCloses, SellDies, broker, stored
<1>10. ASSUME EndCycle \/ Crash \/ NewDay \/ UNCHANGED vars
       PROVE  UNCHANGED <<plans, price, assessed>>
  BY <1>10 DEF EndCycle, Crash, NewDay, vars, broker, stored
<1> QED
  BY <1>1, <1>2, <1>3, <1>4, <1>5, <1>6, <1>7, <1>8, <1>9, <1>10 DEF Next

-------------------------------------------------------------------------------
(* The trailing stop *)

\* A higher mark only makes the trailing stop tighter.
LEMMA TighterMark ==
    ASSUME PlanTypes, NEW s \in Symbols, NEW peak \in Nat, NEW mark \in Nat,
           mark >= peak, TrailingStopHit(s, peak)
    PROVE  TrailingStopHit(s, mark)
<1> DEFINE k == 100 - TrailingStopPercent
<1>1. k \in Nat /\ price[s] \in Nat /\ EntryPrice \in Nat
  <2>1. TrailingStopPercent \in 0..100
    BY ExitAssumption
  <2>2. k \in Nat
    BY <2>1
  <2>3. price[s] \in Prices
    BY DEF PlanTypes
  <2> QED
    BY <2>2, <2>3, ExitAssumption
<1>2. peak > EntryPrice /\ price[s] * 100 <= peak * k
  BY DEF TrailingStopHit
<1> HIDE DEF k
<1>3. mark * k = peak * k + (mark - peak) * k /\ (mark - peak) * k >= 0
  <2>1. mark - peak \in Nat
    OBVIOUS
  <2>2. (mark - peak) * k \in Nat /\ peak * k \in Nat
    BY <1>1, <2>1
  <2>3. PICK d \in Nat : mark = peak + d /\ d = mark - peak
    BY <2>1
  <2>4. (peak + d) * k = peak * k + d * k
    BY <1>1, <2>3
  <2> QED
    BY <2>2, <2>3, <2>4
<1>4. peak * k \in Nat /\ price[s] * 100 \in Nat /\ (mark - peak) * k \in Int
  BY <1>1
<1>5. price[s] * 100 <= mark * k
  BY <1>2, <1>3, <1>4
<1>6. mark > EntryPrice
  BY <1>1, <1>2
<1> QED
  BY <1>5, <1>6 DEF TrailingStopHit, k

\* Some reason is found whenever the trailing stop is hit, and the remembered mark is at
\* least the peak.
LEMMA ReasonFound ==
    ASSUME MarkInv, NEW s \in Symbols, Governed(s), NEW regime,
           TrailingStopHit(s, plans[s][Governing(s)].peak)
    PROVE  Asked(s, regime)
<1> DEFINE plan == plans[s][Governing(s)]
<1>1. Governing(s) \in DOMAIN plans[s] /\ plan \in Plan
  BY GoverningIsLive DEF MarkInv, PlanTypes, Governed
<1>2. /\ plan.highWaterMark >= plan.peak /\ price[s] \in Nat
      /\ plan.highWaterMark \in Nat /\ plan.peak \in Nat
  BY <1>1, ExitAssumption DEF MarkInv, PlanTypes, MarksHold, Plan
<1>3. Ratcheted(plan, s) \in Nat /\ Ratcheted(plan, s) >= plan.peak
  BY <1>2 DEF Ratcheted
<1>4. TrailingStopHit(s, Ratcheted(plan, s))
  BY <1>2, <1>3, TighterMark DEF MarkInv
<1> QED
  BY <1>4 DEF Asked, Reason

\* Only the undisturbed evaluation moves a cycle from evaluating to selling faultlessly.
LEMMA OnlyEvaluate ==
    ASSUME [Next]_vars, faults \in Nat,
           cycle.pc = "evaluating", cycle'.pc = "selling", faults' = faults
    PROVE  Evaluate
<1>1. faults + 1 # faults
  OBVIOUS
<1>2. ~EvaluateDegraded /\ ~Crash /\ ~RegimeStoreFails
  BY <1>1 DEF EvaluateDegraded, Crash, RegimeStoreFails, Fault
<1>3. cycle' # cycle
  OBVIOUS
<1>4. \A s \in Symbols : ~Sell(s)
  BY DEF Sell, SellRefused, SellSubmitted, SellFails, SellingThrows, Selling, NextExit
<1> QED
  BY <1>2, <1>3, <1>4 DEF Next, vars, Assess, ReuseRegime, FetchRegime, EndCycle, NewDay,
     RegimeAges, Buy, Invalidate, PriceMoves, SellFills, PositionCloses, SellDies, BuyEnds,
     PlanDue

\* Faults are counted.
LEMMA FaultCount == faults \in Nat /\ [Next]_vars => faults' \in Nat
BY DEF Next, vars, Assess, ReuseRegime, FetchRegime, RegimeStoreFails, Evaluate,
   EvaluateDegraded, EndCycle, Crash, NewDay, RegimeAges, Sell, SellRefused, SellSubmitted,
   SellFails, SellingThrows, Buy, Invalidate, PriceMoves, SellFills, PositionCloses, SellDies, BuyEnds,
   PlanDue, Fault

\* The step the theorem is about.
LEMMA TrailingStep ==
    ASSUME MarkInv, faults \in Nat, [Next]_vars
    PROVE  [\A s \in Symbols :
              (/\ cycle.pc = "evaluating" /\ cycle'.pc = "selling" /\ faults' = faults
               /\ Governed(s)
               /\ TrailingStopHit(s, plans[s][Governing(s)].peak))
              => s \in cycle'.planExits]_vars
<1> SUFFICES ASSUME NEW s \in Symbols,
                    cycle.pc = "evaluating", cycle'.pc = "selling", faults' = faults,
                    Governed(s), TrailingStopHit(s, plans[s][Governing(s)].peak)
             PROVE  s \in cycle'.planExits
  OBVIOUS
<1>1. cycle'.planExits = {t \in held : Governed(t) /\ Asked(t, cycle.regime)}
  BY OnlyEvaluate DEF Evaluate, Decide
<1>2. Asked(s, cycle.regime)
  BY ReasonFound
<1> QED
  BY <1>1, <1>2 DEF Governed

\* A position whose price fell from the highest price its plan was evaluated at by the
\* trailing stop is asked to exit, across cycles and restarts, whatever lower prices were
\* seen in between (the persisted high-water mark of exitMonitor.ts).
THEOREM TrailingStopHolds == Spec => TrailingStopRemembers
<1>1. Init => MarkInv /\ faults \in Nat
  BY MarkInit DEF Init
<1>2. MarkInv /\ faults \in Nat /\ [Next]_vars => (MarkInv /\ faults \in Nat)'
  BY MarkNext, FaultCount
<1> QED
  BY <1>1, <1>2, TrailingStep, PTL DEF Spec, TrailingStopRemembers

-------------------------------------------------------------------------------
(* The regime *)

\* A fresh close_only row stands for market data of the last staleness limit.
FreshMeansSeen ==
    /\ assessed \in Assessment
    /\ assessed.permission = "close_only" /\ assessed.age = "fresh" => closeOnly

\* Nothing was fetched at boot.
LEMMA RegimeInit == Init => FreshMeansSeen
BY DEF Init, FreshMeansSeen, Assessment, detectRegimeOfNothing

\* Every step but an assessment and the passing of time leaves row and history.
LEMMA RegimeStays ==
    ASSUME [Next]_vars, ~Assess, ~RegimeAges
    PROVE  /\ assessed' = assessed /\ closeOnly' = closeOnly
           /\ ~(cycle.pc = "idle" /\ cycle'.pc = "evaluating")
<1>1. ASSUME NEW s \in Symbols, Sell(s)
      PROVE  assessed' = assessed /\ closeOnly' = closeOnly /\ cycle.pc # "idle"
  BY <1>1 DEF Sell, SellRefused, SellSubmitted, SellFails, SellingThrows, Selling, NextExit,
              stored
<1>2. CASE Evaluate \/ EvaluateDegraded \/ EndCycle \/ Crash
  BY <1>2 DEF Evaluate, EvaluateDegraded, Decide, EndCycle, Crash, stored
<1>3. ASSUME NEW s \in Symbols,
             \/ Buy(s) \/ Invalidate(s) \/ PriceMoves(s)
             \/ SellFills(s) \/ PositionCloses(s) \/ SellDies(s)
             \/ \E i \in 1..MaxPlans[s] : BuyEnds(s, i) \/ PlanDue(s, i)
      PROVE  assessed' = assessed /\ closeOnly' = closeOnly /\ cycle' = cycle
  BY <1>3 DEF Buy, Invalidate, PriceMoves, SellFills, PositionCloses, SellDies, BuyEnds,
              PlanDue, stored
<1>4. CASE NewDay \/ UNCHANGED vars
  BY <1>4 DEF NewDay, vars, stored
<1> QED
  BY <1>1, <1>2, <1>3, <1>4 DEF Next

\* A fetched close_only is noted, and noted ones are forgotten when their row is stale.
LEMMA RegimeNext ==
    ASSUME FreshMeansSeen, [Next]_vars
    PROVE  /\ FreshMeansSeen'
           /\ [(cycle.pc = "idle" /\ cycle'.pc = "evaluating"
                /\ cycle'.regime = "close_only") => closeOnly']_vars
<1> USE DEF FreshMeansSeen
<1>0. Fetched \subseteq Assessment
  BY DEF Fetched, Assessment, detectRegimeOfNothing
<1>1. CASE ReuseRegime
  BY <1>1 DEF ReuseRegime, Reusable, Use, stored
<1>2. CASE FetchRegime
  <2>1. PICK new \in Fetched : assessed' = new /\ cycle' = [pc |-> "evaluating",
                                 regime |-> new.permission]
                               /\ closeOnly' = (closeOnly \/ new.permission = "close_only")
    BY <1>2 DEF FetchRegime, Use, Note
  <2> QED
    BY <1>0, <2>1
<1>3. CASE RegimeStoreFails
  <2>1. PICK new \in Fetched : assessed' \in {assessed, new}
                               /\ cycle' = [pc |-> "evaluating", regime |-> new.permission]
                               /\ closeOnly' = (closeOnly \/ new.permission = "close_only")
    BY <1>3 DEF RegimeStoreFails, Use, Note
  <2> QED
    BY <1>0, <2>1
<1>4. CASE RegimeAges
  <2>1. assessed' \in Assessment /\ assessed'.age # "fresh"
    BY <1>4 DEF RegimeAges, Assessment
  <2> QED
    BY <1>4, <2>1 DEF RegimeAges
<1>5. CASE ~Assess /\ ~RegimeAges
  BY <1>5, RegimeStays
<1> QED
  BY <1>1, <1>2, <1>3, <1>4, <1>5 DEF Assess

\* A cycle liquidates only on market data that arrived within the staleness limit: an
\* outage of the feed or of the store never sells by an assessment that used to hold
\* (module 2.5 of runSyncCycle).
THEOREM OutagesDoNotSell == Spec => OutageNeverLiquidates
<1> QED
  BY RegimeInit, RegimeNext, PTL DEF Spec, OutageNeverLiquidates

-------------------------------------------------------------------------------
(* Types *)

\* The parts of TypeOK the other arguments do without.
PositionTypes ==
    /\ held \in SUBSET Symbols
    /\ working \in SUBSET Symbols
    /\ invalidated \in SUBSET Symbols
    /\ tradesToday \in Nat
    /\ closeOnly \in BOOLEAN
    /\ faults \in Nat

\* A start has traded nothing and runs no cycle.
LEMMA PositionInit == Init => PositionTypes /\ cycle \in Cycle
<1> SUFFICES ASSUME Init PROVE PositionTypes /\ cycle \in Cycle
  OBVIOUS
<1>1. maxDailyTradeCount \in Nat \ {0}
  BY ExitAssumption
<1>2. /\ held \in SUBSET Symbols /\ working = {} /\ invalidated = {} /\ tradesToday = 0
      /\ cycle = Idle /\ closeOnly = FALSE /\ faults = 0
  BY DEF Init
<1>3. 0 \in Nat
  BY <1>1
<1>4. cycle \in Cycle
  BY <1>2 DEF Cycle
<1>5. PositionTypes
  BY <1>2, <1>3 DEF PositionTypes
<1> QED
  BY <1>4, <1>5

\* A cycle sells nothing but symbols.
LEMMA CycleNext == PositionTypes /\ PlanTypes /\ cycle \in Cycle /\ [Next]_vars => cycle' \in Cycle
<1> SUFFICES ASSUME PositionTypes, PlanTypes, cycle \in Cycle, [Next]_vars PROVE cycle' \in Cycle
  OBVIOUS
<1>1. CASE Assess
  <2>1. ASSUME NEW regime \in {"close_only", "other"}, Use(regime) PROVE cycle' \in Cycle
    BY <2>1 DEF Use, Cycle
  <2>2. assessed.permission \in {"close_only", "other"}
    BY DEF PlanTypes, Assessment
  <2>3. \A new \in Fetched : new.permission \in {"close_only", "other"}
    BY DEF Fetched, detectRegimeOfNothing
  <2> QED
    BY <1>1, <2>1, <2>2, <2>3 DEF Assess, ReuseRegime, FetchRegime, RegimeStoreFails
<1>2. ASSUME NEW planExits \in SUBSET Symbols, NEW legacyExits \in SUBSET Symbols,
             Decide(planExits, legacyExits)
      PROVE  cycle' \in Cycle
  BY <1>2 DEF Decide, Cycle
<1>3. CASE Evaluate \/ EvaluateDegraded
  <2>1. PICK planExits \in SUBSET Symbols, legacyExits \in SUBSET Symbols :
               Decide(planExits, legacyExits)
    <3>1. CASE Evaluate
      <4> DEFINE planExits == {s \in held : Governed(s) /\ Asked(s, cycle.regime)}
                 legacyExits == {s \in held : LegacyAsked(s)}
      <4>1. planExits \in SUBSET Symbols /\ legacyExits \in SUBSET Symbols
        BY DEF PositionTypes
      <4>2. Decide(planExits, legacyExits)
        BY <3>1 DEF Evaluate
      <4> HIDE DEF planExits, legacyExits
      <4> QED
        BY <4>1, <4>2
    <3>2. CASE EvaluateDegraded
      <4>1. PICK found \in SUBSET held :
              Decide({s \in found : /\ Governed(s) /\ s \notin invalidated
                                    /\ Asked(s, cycle.regime)},
                     {s \in held \ found : StopLossHit(s)})
        BY <3>2 DEF EvaluateDegraded
      <4> DEFINE planExits == {s \in found : /\ Governed(s) /\ s \notin invalidated
                                             /\ Asked(s, cycle.regime)}
                 legacyExits == {s \in held \ found : StopLossHit(s)}
      <4>2. planExits \in SUBSET Symbols /\ legacyExits \in SUBSET Symbols
        BY DEF PositionTypes
      <4>3. Decide(planExits, legacyExits)
        BY <4>1
      <4> HIDE DEF planExits, legacyExits
      <4> QED
        BY <4>2, <4>3
    <3> QED
      BY <1>3, <3>1, <3>2
  <2> QED
    BY <1>2, <2>1
<1>4. ASSUME NEW s \in Symbols, Selling(s) PROVE cycle' \in Cycle
  <2>1. /\ cycle.pc = "selling"
        /\ cycle' = [cycle EXCEPT !.planExits = @ \ {s}, !.legacyExits = @ \ {s},
                                  !.gated = @ \ {s}]
    BY <1>4 DEF Selling, NextExit
  <2>2. cycle \in [pc : {"selling"}, planExits : SUBSET Symbols, legacyExits : SUBSET Symbols,
                   gated : SUBSET Gateable]
    BY <2>1 DEF Cycle, Idle
  <2> QED
    BY <2>1, <2>2 DEF Cycle
<1>5. CASE EndCycle \/ Crash
  BY <1>5 DEF EndCycle, Crash, Cycle
<1>6. ASSUME NEW s \in Symbols, Sell(s) PROVE cycle' \in Cycle
  <2>1. CASE SellRefused(s) \/ SellSubmitted(s) \/ SellFails(s)
    BY <1>4, <2>1 DEF SellRefused, SellSubmitted, SellFails
  <2>2. CASE SellingThrows(s)
    <3>1. /\ cycle.pc = "selling"
          /\ cycle' = [cycle EXCEPT !.planExits = {}, !.legacyExits = {}, !.gated = {}]
      BY <2>2 DEF SellingThrows, NextExit
    <3>2. cycle \in [pc : {"selling"}, planExits : SUBSET Symbols, legacyExits : SUBSET Symbols,
                     gated : SUBSET Gateable]
      BY <3>1 DEF Cycle, Idle
    <3> QED
      BY <3>1, <3>2 DEF Cycle
  <2> QED
    BY <1>6, <2>1, <2>2 DEF Sell
<1>7. CASE cycle' = cycle
  BY <1>7
<1>8. ASSUME NEW s \in Symbols, NEW i, BuyEnds(s, i) \/ PlanDue(s, i) PROVE cycle' = cycle
  BY <1>8 DEF BuyEnds, PlanDue
<1>9. ASSUME NEW s \in Symbols,
             Buy(s) \/ Invalidate(s) \/ PriceMoves(s) \/ SellFills(s) \/ PositionCloses(s) \/ SellDies(s)
      PROVE  cycle' = cycle
  BY <1>9 DEF Buy, Invalidate, PriceMoves, SellFills, PositionCloses, SellDies
<1>10. CASE NewDay \/ RegimeAges \/ UNCHANGED vars
  BY <1>10 DEF NewDay, RegimeAges, vars
<1> QED
  BY <1>1, <1>2, <1>3, <1>4, <1>5, <1>6, <1>7, <1>8, <1>9, <1>10 DEF Next

\* Symbols stay symbols, whatever is bought, sold or refused.
LEMMA PositionNext == PositionTypes /\ PlanTypes /\ [Next]_vars => PositionTypes'
<1> SUFFICES ASSUME PositionTypes, PlanTypes, [Next]_vars PROVE PositionTypes'
  OBVIOUS
<1> USE DEF PositionTypes
<1>0. maxDailyTradeCount \in Nat \ {0} /\ MaxFaults \in Nat
  BY ExitAssumption
<1>1. CountTrade => tradesToday' \in Nat
  BY <1>0 DEF CountTrade
<1>2. Fault => faults' \in Nat
  BY DEF Fault
<1>3. CASE Assess
  <2>1. UNCHANGED <<held, working, invalidated, tradesToday>>
    BY <1>3 DEF Assess, ReuseRegime, FetchRegime, RegimeStoreFails, broker, stored
  <2>2. closeOnly' \in BOOLEAN
    BY <1>3 DEF Assess, ReuseRegime, FetchRegime, RegimeStoreFails, Note
  <2>3. faults' \in Nat
    BY <1>2, <1>3 DEF Assess, ReuseRegime, FetchRegime, RegimeStoreFails
  <2> QED
    BY <2>1, <2>2, <2>3
<1>4. CASE Evaluate \/ EvaluateDegraded \/ EndCycle \/ Crash
  <2>1. UNCHANGED <<held, working, invalidated, tradesToday, closeOnly>>
    BY <1>4 DEF Evaluate, EvaluateDegraded, EndCycle, Crash, broker, stored
  <2>2. faults' \in Nat
    BY <1>2, <1>4 DEF Evaluate, EvaluateDegraded, EndCycle, Crash
  <2> QED
    BY <2>1, <2>2
<1>5. ASSUME NEW s \in Symbols, Sell(s) PROVE PositionTypes'
  <2>1. UNCHANGED <<held, invalidated, closeOnly>>
    BY <1>5 DEF Sell, SellRefused, SellSubmitted, SellFails, SellingThrows, broker, stored
  <2>2. working' \in SUBSET Symbols
    BY <1>5 DEF Sell, SellRefused, SellSubmitted, SellFails, SellingThrows, broker
  <2>3. tradesToday' \in Nat
    BY <1>1, <1>5 DEF Sell, SellRefused, SellSubmitted, SellFails, SellingThrows, stored
  <2>4. faults' \in Nat
    BY <1>2, <1>5 DEF Sell, SellRefused, SellSubmitted, SellFails, SellingThrows
  <2> QED
    BY <2>1, <2>2, <2>3, <2>4
<1>6. ASSUME NEW s \in Symbols, Buy(s) PROVE PositionTypes'
  BY <1>1, <1>6 DEF Buy, broker
<1>7. ASSUME NEW s \in Symbols, NEW i, BuyEnds(s, i) \/ PlanDue(s, i) PROVE PositionTypes'
  BY <1>7 DEF BuyEnds, PlanDue, broker
<1>8. ASSUME NEW s \in Symbols, Invalidate(s) \/ PriceMoves(s) PROVE PositionTypes'
  BY <1>8 DEF Invalidate, PriceMoves, broker, stored
<1>9. ASSUME NEW s \in Symbols, SellFills(s) \/ PositionCloses(s) \/ SellDies(s) PROVE PositionTypes'
  BY <1>2, <1>9 DEF SellFills, PositionCloses, SellDies, stored
<1>10. CASE NewDay \/ RegimeAges
  <2>1. UNCHANGED <<held, working, invalidated, faults>> /\ closeOnly' \in {closeOnly, FALSE}
    BY <1>10 DEF NewDay, RegimeAges, broker, stored
  <2>2. tradesToday' \in {tradesToday, 0}
    BY <1>10 DEF NewDay, RegimeAges, broker, stored
  <2>3. 0 \in Nat
    BY <1>0
  <2> QED
    BY <2>1, <2>2, <2>3
<1>11. CASE UNCHANGED vars
  BY <1>11 DEF vars, broker, stored
<1> QED
  BY <1>3, <1>4, <1>5, <1>6, <1>7, <1>8, <1>9, <1>10, <1>11 DEF Next

\* Every variable keeps its type: whichever of the paths of modules 2 and 2.5 of
\* runSyncCycle a step takes, the exits of a cycle stay symbols and the plans sequences of
\* plans.
THEOREM TypesCorrect == Spec => []TypeOK
<1> DEFINE Inv == MarkInv /\ PositionTypes /\ cycle \in Cycle
<1>1. Init => Inv
  BY MarkInit, PositionInit
<1>2. Inv /\ [Next]_vars => Inv'
  BY MarkNext, PositionNext, CycleNext DEF MarkInv
<1>3. Inv => TypeOK
  BY DEF MarkInv, PlanTypes, PositionTypes, TypeOK
<1> HIDE DEF Inv
<1> QED
  BY <1>1, <1>2, <1>3, PTL DEF Spec
===============================================================================
