----------------------------- MODULE ExitMonitor -----------------------------
(***************************************************************************)
(* The software exits of a sync cycle: the market regime (module 2.5 of    *)
(* runSyncCycle), the evaluation of every open position against its exit   *)
(* plan (exitMonitor.ts, exitEngine.ts), and the sells it asks for, under  *)
(* the gates a sell has to pass (riskEngine.ts).  Prices, fills, the       *)
(* account, the market's hours and the day move on their own; store and    *)
(* broker may fail, the process may die between the awaits of a cycle.     *)
(* Without autoTrading nothing of this happens, so it is taken to be on.   *)
(*                                                                         *)
(* A cycle holds the appStore mutex; BUYs take it between cycles.  The     *)
(* bracket legs a sell cancels first are the subject of BracketPosition.   *)
(* Plans are made at one entry price.  Ages count whole REGIME_STALENESS.  *)
(***************************************************************************)
EXTENDS Integers, Sequences

CONSTANTS
    Symbols,
    Prices,
    EntryPrice, StopLossPercent, TakeProfitPercent, TrailingStopPercent,
    maxDailyTradeCount,
    Gateable,    \* symbols whose sells daily loss or buying power may refuse (bound)
    MaxPlans,    \* BUYs of each symbol (bound)
    MaxFaults    \* failures of store, broker or process (bound)

ASSUME ExitAssumption ==
    /\ Prices \subseteq Nat /\ EntryPrice \in Prices
    /\ StopLossPercent \in 0..100 /\ TakeProfitPercent \in Nat
    /\ TrailingStopPercent \in 0..100
    /\ maxDailyTradeCount \in Nat \ {0} /\ Gateable \subseteq Symbols
    /\ MaxPlans \in [Symbols -> Nat] /\ MaxFaults \in Nat

VARIABLES
    price, held,   \* broker: the positions
    working,       \* broker: symbols with an open sell
    plans,         \* exit_plans joined with the status of their BUY, oldest first
    invalidated,   \* thesis_invalidations
    assessed,      \* regime_assessments: the newest row
    tradesToday,   \* trades listed for the UTC day; maxDailyTradeCount is that many or more
    cycle,
    closeOnly,     \* history: market data of the last staleness limit meant close_only
    faults

broker == <<price, held, working>>
stored == <<plans, invalidated, assessed, tradesToday>>
vars == <<broker, stored, cycle, closeOnly, faults>>

\* status: of the BUY; a dead one was canceled, rejected or expired.
\* peak: history, the highest price the plan was evaluated at and the store took.
Plan == [status : {"open", "filled", "dead"}, due : BOOLEAN, highWaterMark : Prices, peak : Prices]
Assessment == [permission : {"close_only", "other"},
               age : {"fresh", "stale", "unfetched"}]
detectRegimeOfNothing == [permission |-> "other", age |-> "unfetched"]

Idle == [pc |-> "idle"]
Cycle == {Idle} \cup [pc : {"evaluating"}, regime : {"close_only", "other"}]
           \cup [pc : {"selling"}, planExits : SUBSET Symbols, legacyExits : SUBSET Symbols,
                   gated : SUBSET Gateable]

Init ==
    /\ price = [s \in Symbols |-> EntryPrice]
    /\ held \in SUBSET Symbols   \* opened by hand
    /\ working = {}
    /\ plans = [s \in Symbols |-> <<>>]
    /\ invalidated = {}
    /\ assessed = detectRegimeOfNothing
    /\ tradesToday = 0
    /\ cycle = Idle
    /\ closeOnly = FALSE
    /\ faults = 0

Fault == faults < MaxFaults /\ faults' = faults + 1
\* Every attempt is listed, a refused one too, so the list outgrows the limit; the gate
\* asks only whether it has reached it, and past that it is not counted here.
CountTrade == tradesToday' = IF tradesToday < maxDailyTradeCount
                             THEN tradesToday + 1 ELSE tradesToday

-------------------------------------------------------------------------------
(* evaluateExitPlan and the plan that governs a position *)

StopLossHit(s) == price[s] * 100 <= EntryPrice * (100 - StopLossPercent)
TakeProfitHit(s) == price[s] * 100 >= EntryPrice * (100 + TakeProfitPercent)
TrailingStopHit(s, highWaterMark) ==
    /\ highWaterMark > EntryPrice
    /\ price[s] * 100 <= highWaterMark * (100 - TrailingStopPercent)

\* latestBuySideExitPlanForSymbol: the newest plan whose BUY is not dead, or 0.
LivePlans(s) == {i \in DOMAIN plans[s] : plans[s][i].status # "dead"}
Governing(s) == IF LivePlans(s) = {} THEN 0
                ELSE CHOOSE i \in LivePlans(s) : \A j \in LivePlans(s) : j <= i

\* mutant of Ratcheted: the mark follows the price down too
Followed(plan, s) == price[s]
\* The stored mark only rises.
Ratcheted(plan, s) == IF price[s] > plan.highWaterMark THEN price[s] ELSE plan.highWaterMark

\* In the order of evaluateExitPlan.
Reason(s, plan, regime) ==
    IF s \in invalidated THEN "thesis_invalidation"
    ELSE IF regime = "close_only" THEN "regime_change"
    ELSE IF plan.due THEN "time_exit"
    ELSE IF StopLossHit(s) THEN "stop_loss"
    ELSE IF TakeProfitHit(s) THEN "take_profit"
    ELSE IF TrailingStopHit(s, Ratcheted(plan, s)) THEN "trailing_stop"
    ELSE "none"

-------------------------------------------------------------------------------
(* A cycle *)

\* mutant of Reusable: any assessment made of market data is reused
ReusableOnceFetched(assessment) == assessment.age # "unfetched"
\* Younger than REGIME_STALENESS_MS since the market data was fetched.
Reusable(assessment) == assessment.age = "fresh"

Use(regime) == cycle' = [pc |-> "evaluating", regime |-> regime]

ReuseRegime ==
    /\ cycle.pc = "idle" /\ Reusable(assessed)
    /\ Use(assessed.permission)
    /\ UNCHANGED <<broker, stored, closeOnly, faults>>

\* The fetch yields an assessment or, without usable data, the conservative one, which
\* carries no fetch time.
Fetched == [permission : {"close_only", "other"}, age : {"fresh"}] \cup {detectRegimeOfNothing}
Note(new) == closeOnly' = (closeOnly \/ new.permission = "close_only")

FetchRegime ==
    /\ cycle.pc = "idle" /\ ~Reusable(assessed)
    /\ \E new \in Fetched : assessed' = new /\ Use(new.permission) /\ Note(new)
    /\ UNCHANGED <<broker, plans, invalidated, tradesToday, faults>>

\* The stored assessment cannot be read, or the new one not be written.
RegimeStoreFails ==
    /\ cycle.pc = "idle" /\ Fault
    /\ \E new \in Fetched : assessed' \in {assessed, new} /\ Use(new.permission) /\ Note(new)
    /\ UNCHANGED <<broker, plans, invalidated, tradesToday>>

\* Every open position, at the snapshot just fetched: its governing plan, or the legacy
\* stop loss where there is none.
Governed(s) == s \in held /\ Governing(s) # 0
Asked(s, regime) == Reason(s, plans[s][Governing(s)], regime) # "none"

LegacyAsked(s) == ~Governed(s) /\ StopLossHit(s)

\* The plans once the marks of some symbols are written.
Marked(symbols) ==
    [s \in Symbols |->
        IF s \in symbols /\ Governed(s)
        THEN [plans[s] EXCEPT ![Governing(s)].highWaterMark = Ratcheted(plans[s][Governing(s)], s),
                              ![Governing(s)].peak = IF price[s] > @ THEN price[s] ELSE @]
        ELSE plans[s]]

\* gated: the exits the account just fetched refuses, for the day's loss or its buying power.
Decide(planExits, legacyExits) ==
    \E gated \in SUBSET (Gateable \cap (planExits \cup legacyExits)) :
        cycle' = [pc |-> "selling", planExits |-> planExits, legacyExits |-> legacyExits,
                  gated |-> gated]

Evaluate ==
    /\ cycle.pc = "evaluating"
    /\ plans' = Marked(held)
    /\ Decide({s \in held : Governed(s) /\ Asked(s, cycle.regime)},
              {s \in held : LegacyAsked(s)})
    /\ UNCHANGED <<broker, invalidated, assessed, tradesToday, closeOnly, faults>>

\* A plan cannot be looked up (only the legacy check is left), a mark cannot be written,
\* the invalidations or the positions cannot be read: fewer exits are seen.
EvaluateDegraded ==
    /\ cycle.pc = "evaluating" /\ Fault
    /\ \E found \in SUBSET held :
          /\ \E written \in SUBSET found : plans' = Marked(written)
          /\ Decide({s \in found : /\ Governed(s) /\ s \notin invalidated
                                  /\ Asked(s, cycle.regime)},
                    {s \in held \ found : StopLossHit(s)})
    /\ UNCHANGED <<broker, invalidated, assessed, tradesToday, closeOnly>>

\* Plan exits are sold before legacy ones.
NextExit(s) ==
    /\ cycle.pc = "selling"
    /\ IF cycle.planExits = {} THEN s \in cycle.legacyExits ELSE s \in cycle.planExits
Selling(s) ==
    /\ NextExit(s)
    /\ cycle' = [cycle EXCEPT !.planExits = @ \ {s}, !.legacyExits = @ \ {s},
                              !.gated = @ \ {s}]

\* evaluateSellFatalRiskGates: daily loss, daily trade count, buying power.
Refused(s) == tradesToday >= maxDailyTradeCount \/ s \in cycle.gated

\* mutant of SellRefused: the refused exit is listed as a trade like any other attempt
SellRefusedListed(s) ==
    /\ Selling(s) /\ Refused(s)
    /\ CountTrade
    /\ UNCHANGED <<broker, plans, invalidated, assessed, closeOnly, faults>>
\* sellRiskPreflight: a refused exit leaves its legs alone and lists no trade.
SellRefused(s) ==
    /\ Selling(s) /\ Refused(s)
    /\ UNCHANGED <<broker, stored, closeOnly, faults>>

\* executeTradeIntent: a symbol with an open sell is rejected as a duplicate.  The
\* attempt is listed as a trade of the day either way.
SellSubmitted(s) ==
    /\ Selling(s) /\ ~Refused(s)
    /\ working' = IF s \in held THEN working \cup {s} ELSE working
    /\ CountTrade
    /\ UNCHANGED <<price, held, plans, invalidated, assessed, closeOnly, faults>>

\* Legs that cannot be canceled (nothing is listed), a broker that refuses, or a gate that
\* closed since the preflight (the attempt is listed).
SellFails(s) ==
    /\ Selling(s) /\ ~Refused(s) /\ Fault
    /\ CountTrade \/ UNCHANGED tradesToday
    /\ UNCHANGED <<broker, plans, invalidated, assessed, closeOnly>>

\* The store throws at the preflight, its audit event or the listing of the trade: the
\* other exits of this cycle are dropped, and a sell that did go out is not listed.
SellingThrows(s) ==
    /\ NextExit(s) /\ Fault
    /\ cycle' = [cycle EXCEPT !.planExits = {}, !.legacyExits = {}, !.gated = {}]
    /\ working' \in {working, IF Refused(s) THEN working ELSE working \cup ({s} \cap held)}
    /\ UNCHANGED <<price, held, stored, closeOnly>>

EndCycle ==
    /\ cycle.pc = "selling" /\ cycle.planExits = {} /\ cycle.legacyExits = {}
    /\ cycle' = Idle
    /\ UNCHANGED <<broker, stored, closeOnly, faults>>

Crash ==
    /\ cycle.pc # "idle" /\ Fault
    /\ cycle' = Idle
    /\ UNCHANGED <<broker, stored, closeOnly>>

-------------------------------------------------------------------------------
(* The world around a cycle *)

\* A BUY reaches the broker between cycles and its plan is stored.
Buy(s) ==
    /\ cycle.pc = "idle" /\ Len(plans[s]) < MaxPlans[s]
    /\ price[s] = EntryPrice /\ tradesToday < maxDailyTradeCount
    /\ plans' = [plans EXCEPT ![s] = Append(@, [status |-> "open", due |-> FALSE,
                    highWaterMark |-> EntryPrice, peak |-> EntryPrice])]
    /\ CountTrade
    /\ UNCHANGED <<broker, invalidated, assessed, cycle, closeOnly, faults>>

\* The BUY fills, or dies with what it filled before.
BuyEnds(s, i) ==
    /\ i \in DOMAIN plans[s] /\ plans[s][i].status = "open"
    /\ \/ held' = held \cup {s} /\ plans' = [plans EXCEPT ![s][i].status = "filled"]
       \/ held' \in {held, held \cup {s}} /\ plans' = [plans EXCEPT ![s][i].status = "dead"]
    /\ UNCHANGED <<price, working, invalidated, assessed, tradesToday, cycle,
                   closeOnly, faults>>

\* timeExitAt passes.
PlanDue(s, i) ==
    /\ i \in DOMAIN plans[s]
    /\ plans' = [plans EXCEPT ![s][i].due = TRUE]
    /\ UNCHANGED <<broker, invalidated, assessed, tradesToday, cycle, closeOnly, faults>>

\* The bearish mapping of a later module of a cycle, and the expiry of its entry.
Invalidate(s) ==
    /\ cycle.pc = "idle" /\ s \in held /\ MaxPlans[s] > 0
    /\ invalidated' \in {invalidated \cup {s}, invalidated \ {s}}
    /\ UNCHANGED <<broker, plans, assessed, tradesToday, cycle, closeOnly, faults>>

PriceMoves(s) ==
    /\ \E p \in Prices : price' = [price EXCEPT ![s] = p]
    /\ UNCHANGED <<held, working, stored, cycle, closeOnly, faults>>

\* A sell placed while the market is closed is queued for the open and fills many cycles
\* later; a leg or a sell by hand closes the position otherwise.
SellFills(s) ==
    /\ s \in working
    /\ working' = working \ {s} /\ held' = held \ {s}
    /\ UNCHANGED <<price, stored, cycle, closeOnly, faults>>

PositionCloses(s) ==
    /\ s \in held \ working
    /\ held' = held \ {s}
    /\ UNCHANGED <<price, working, stored, cycle, closeOnly, faults>>

SellDies(s) ==
    /\ s \in working /\ Fault
    /\ working' = working \ {s}
    /\ UNCHANGED <<price, held, stored, cycle, closeOnly>>

NewDay ==
    /\ tradesToday > 0 /\ tradesToday' = 0
    /\ UNCHANGED <<broker, plans, invalidated, assessed, cycle, closeOnly, faults>>

RegimeAges ==
    /\ assessed' = [assessed EXCEPT !.age = IF @ = "fresh" THEN "stale" ELSE @]
    /\ closeOnly' = FALSE
    /\ UNCHANGED <<broker, plans, invalidated, tradesToday, cycle, faults>>

Assess == ReuseRegime \/ FetchRegime \/ RegimeStoreFails
Sell(s) == SellRefused(s) \/ SellSubmitted(s) \/ SellFails(s) \/ SellingThrows(s)
Next ==
    \/ Assess \/ Evaluate \/ EvaluateDegraded \/ EndCycle \/ Crash
    \/ NewDay \/ RegimeAges
    \/ \E s \in Symbols :
          \/ Sell(s) \/ Buy(s) \/ Invalidate(s) \/ PriceMoves(s)
          \/ SellFills(s) \/ PositionCloses(s) \/ SellDies(s)
          \/ \E i \in 1..MaxPlans[s] : BuyEnds(s, i) \/ PlanDue(s, i)

Spec == Init /\ [][Next]_vars

\* The scheduler keeps the cycles coming (SyncScheduler) and a cycle's awaits end; days
\* pass, and the market fills market orders when it opens.
FairSpec ==
    /\ Spec
    /\ WF_vars(Assess) /\ WF_vars(Evaluate) /\ WF_vars(EndCycle)
    /\ \A s \in Symbols : WF_vars(Sell(s)) /\ WF_vars(SellFills(s))
    /\ WF_vars(NewDay)

-------------------------------------------------------------------------------
(* Properties *)

\* Broker, stored rows and the cycle keep their types.
TypeOK ==
    /\ price \in [Symbols -> Prices]
    /\ held \in SUBSET Symbols
    /\ working \in SUBSET Symbols
    /\ plans \in [Symbols -> Seq(Plan)]
    /\ invalidated \in SUBSET Symbols
    /\ assessed \in Assessment
    /\ tradesToday \in Nat
    /\ cycle \in Cycle
    /\ closeOnly \in BOOLEAN
    /\ faults \in Nat

\* An evaluation asks for the exit whenever the price is as far below the highest price
\* its plan was ever evaluated at as the trailing stop allows, across cycles and
\* restarts (the persisted high-water mark of exitMonitor.ts).
TrailingStopRemembers ==
    [][\A s \in Symbols :
          (/\ cycle.pc = "evaluating" /\ cycle'.pc = "selling" /\ faults' = faults
           /\ Governed(s)
           /\ TrailingStopHit(s, plans[s][Governing(s)].peak))
          => s \in cycle'.planExits]_vars

\* A cycle takes close_only, on which it liquidates, only from market data that did
\* arrive and is younger than the staleness limit: an outage of feed or store never
\* liquidates by what used to be (module 2.5 of runSyncCycle).
OutageNeverLiquidates ==
    [][(cycle.pc = "idle" /\ cycle'.pc = "evaluating" /\ cycle'.regime = "close_only")
       => closeOnly']_vars

\* A held position whose exit stays due has its sell placed at last, unless daily loss or
\* buying power refuse it again and again: the exits they do refuse, duplicates and
\* refusals by the daily trade count do not use up the count it needs
\* (sellRiskPreflight).  Trades of others (Buy, SellFails) are finitely many here.
ExitDue(s) ==
    IF Governed(s) THEN Asked(s, "other") ELSE s \in held /\ StopLossHit(s)
AccountRefuses(s) == cycle.pc = "selling" /\ s \in cycle.gated
ExitGoesOut ==
    \A s \in Symbols : ExitDue(s) ~> (s \in working \/ ~ExitDue(s) \/ AccountRefuses(s))
===============================================================================
