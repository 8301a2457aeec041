----------------------- MODULE PositionReconciliation -----------------------
(***************************************************************************)
(* Module 1.6 of a sync cycle: what the trade rows imply the account holds *)
(* of one symbol is compared with what the broker reports, after the       *)
(* cycle's order poll and before its trades.  A mismatch latches the       *)
(* breaker, which only an admin's reset clears, and is told to the         *)
(* operator at most once per window.                                       *)
(*                                                                         *)
(* The broker and the operator's own trades in it are external; orders     *)
(* fill, die and are traded around at any moment, also between the poll of *)
(* an order and the fetch of the positions.  The drawdown side of the      *)
(* latch is BreakerLatch's; here only the mismatch trips it.               *)
(***************************************************************************)
EXTENDS TradeStates, Integers, FiniteSets, Functions

CONSTANTS
    Buys, Sells,     \* the orders that may be placed, one row each
    Q,               \* shares of every order
    FillSteps,       \* cumulative fills an order may report before it is done
    HandQuantities,  \* net shares the operator may have traded by hand
    MaxCrashes,      \* process deaths (bound)
    Faults           \* adverse conditions switched on, see FaultKinds

\* pollFails:   an order's poll may fail, its row stays as it is
\* fetchFails:  the account or positions fetch may fail
\* storeFails:  the report may fail to be stored, which skips the latch too
\* alertFails:  Telegram may not take the alert
FaultKinds == {"pollFails", "fetchFails", "storeFails", "alertFails"}

Orders == Buys \cup Sells
None == -1
NoMismatch == <<>>

ASSUME ReconciliationAssumption ==
    /\ Buys \cap Sells = {} /\ IsFiniteSet(Orders)
    /\ Q \in Nat \ {0} /\ FillSteps \subseteq 1..(Q - 1)
    /\ 0 \in HandQuantities /\ HandQuantities \subseteq Int
    /\ MaxCrashes \in Nat
    /\ Faults \subseteq FaultKinds

VARIABLES
    order,      \* broker truth: status ("absent" before it is placed) and shares filled
    hand,       \* broker truth: net shares traded by hand
    row,        \* trade_intents: status ("none" before it is saved), filledQty or None
    baseline,   \* acknowledged baseline of the symbol
    latched,    \* the breaker is latched for a mismatch
    alertState, \* the mismatch of the delivered alert whose window still runs, or NoMismatch
    pc,         \* of the cycle: idle, polling, fetching, alerting, trading
    unpolled,   \* orders this cycle has yet to poll
    missed,     \* history: orders whose poll failed in this cycle or that moved after it
    report,     \* the mismatch this cycle reported and has yet to tell
    unresolved, \* history: a mismatch was reported and no reset followed
    told,       \* history: the last mismatch the operator was told, or NoMismatch
    crashes

vars == <<order, hand, row, baseline, latched, alertState, pc, unpolled, missed, report,
          unresolved, told, crashes>>
brokerSide == <<order, hand>>

Held(os) == SumFunction([o \in os |-> order[o].filled])
actualPosition == Held(Buys) - Held(Sells) + hand

Init ==
    /\ order = [o \in Orders |-> [status |-> "absent", filled |-> 0]]
    /\ hand = 0
    /\ row = [o \in Orders |-> [status |-> "none", filledQty |-> None]]
    /\ baseline = 0
    /\ latched = FALSE
    /\ alertState = NoMismatch
    /\ pc = "idle" /\ unpolled = {} /\ missed = {} /\ report = NoMismatch
    /\ unresolved = FALSE /\ told = NoMismatch
    /\ crashes = 0

-------------------------------------------------------------------------------
(* The comparison (reconciliationEngine.ts) *)

\* mutant of the next operator: every placed order counts as filled whole
AskedQuantity(o) == IF row[o].status \in BROKER_SUCCESS_TRADE_STATUSES THEN Q ELSE 0

\* What a row contributes: its polled fill if it has one, else the quantity asked for.
LedgerQuantity(o) ==
    IF row[o].status \notin BROKER_SUCCESS_TRADE_STATUSES THEN 0
    ELSE IF row[o].filledQty # None THEN row[o].filledQty ELSE Q

\* The expected position, with the acknowledged baseline added, never below 0.
computeExpectedPositions ==
    LET net == SumFunction([o \in Buys |-> LedgerQuantity(o)])
                 - SumFunction([o \in Sells |-> LedgerQuantity(o)]) + baseline
    IN IF net < 0 THEN 0 ELSE net

Beyond(expected, actual) ==
    LET diff == IF expected > actual THEN expected - actual ELSE actual - expected
        tolerance == IF 2 * expected > 100 THEN 2 * expected ELSE 100 \* in hundredths of a share
    IN 100 * diff > tolerance

\* mutant of the next operator: only quantities are compared, never presence
OnlyDriftCompared(expected, actual) == expected # 0 /\ actual # 0 /\ Beyond(expected, actual)

\* Presence decides when only one side has the symbol, the tolerance when both have.
comparePositions(expected, actual) ==
    \/ (expected = 0) # (actual = 0)
    \/ expected # 0 /\ actual # 0 /\ Beyond(expected, actual)

-------------------------------------------------------------------------------
(* The cycle *)

\* Module 1.5 polls every open order of ours ...
BeginCycle ==
    /\ pc = "idle"
    /\ pc' = "polling"
    /\ unpolled' = {o \in Orders : row[o].status \in POLLABLE_TRADE_STATES}
    /\ missed' = {}
    /\ UNCHANGED <<brokerSide, row, baseline, latched, alertState, report, unresolved, told,
                   crashes>>

\* ... one after the other: a usable answer moves the row to the order's state, and
\* a fill-implying one sets the filled quantity.
Poll(o) ==
    /\ pc = "polling" /\ o \in unpolled
    /\ unpolled' = unpolled \ {o}
    /\ LET st == mapBrokerStatusToTradeState(order[o].status) IN
       row' = [row EXCEPT ![o] =
                 [status |-> st,
                  filledQty |-> IF st \in {"PartiallyFilled", "Filled"}
                                THEN order[o].filled ELSE @.filledQty]]
    /\ UNCHANGED <<brokerSide, baseline, latched, alertState, pc, missed, report, unresolved,
                   told, crashes>>

PollFails(o) ==
    /\ "pollFails" \in Faults
    /\ pc = "polling" /\ o \in unpolled
    /\ unpolled' = unpolled \ {o}
    /\ missed' = missed \cup {o}
    /\ UNCHANGED <<brokerSide, row, baseline, latched, alertState, pc, report, unresolved, told,
                   crashes>>

PollEnds ==
    /\ pc = "polling" /\ unpolled = {}
    /\ pc' = "fetching"
    /\ UNCHANGED <<brokerSide, row, baseline, latched, alertState, unpolled, missed, report,
                   unresolved, told, crashes>>

\* mutant of the next operator: the latch follows the last comparison
Unlatching(was, mismatch) == mismatch

\* A mismatch trips the latch, and a clean comparison never releases it.
Latch(was, mismatch) == was \/ mismatch

\* The positions arrive: comparison, report and latch are one synchronous step.
Reconcile ==
    /\ pc = "fetching"
    /\ LET expected == computeExpectedPositions
           mismatch == comparePositions(expected, actualPosition)
       IN /\ report' = IF mismatch THEN <<expected, actualPosition>> ELSE NoMismatch
          /\ latched' = Latch(latched, mismatch)
          /\ unresolved' = (unresolved \/ mismatch)
          /\ pc' = IF mismatch THEN "alerting" ELSE "trading"
    /\ UNCHANGED <<brokerSide, row, baseline, alertState, unpolled, missed, told, crashes>>

\* No data is not drift: a failed fetch leaves everything as it was.  So does a
\* report that cannot be stored, mismatch or not.
ReconcileFails ==
    /\ Faults \cap {"fetchFails", "storeFails"} # {}
    /\ pc = "fetching"
    /\ pc' = "trading"
    /\ UNCHANGED <<brokerSide, row, baseline, latched, alertState, unpolled, missed, report,
                   unresolved, told, crashes>>

\* mutant of the next operator: a mismatch is told once
NotYetTold == told # report

\* A mismatch other than the last one told is told at once, the same one when the
\* window of its last alert is over.
Due == alertState # report

AlertDelivered ==
    /\ pc = "alerting" /\ Due
    /\ alertState' = report
    /\ told' = report
    /\ pc' = "trading" /\ report' = NoMismatch
    /\ UNCHANGED <<brokerSide, row, baseline, latched, unpolled, missed, unresolved, crashes>>

\* mutant of the next operator: an alert counts as told once it was tried
StampedWhenTried == report

\* Only a delivered alert is stamped.
AfterUndelivered == alertState

AlertUndelivered ==
    /\ "alertFails" \in Faults
    /\ pc = "alerting" /\ Due
    /\ alertState' = AfterUndelivered
    /\ pc' = "trading" /\ report' = NoMismatch
    /\ UNCHANGED <<brokerSide, row, baseline, latched, unpolled, missed, unresolved, told,
                   crashes>>

AlertThrottled ==
    /\ pc = "alerting" /\ ~Due
    /\ pc' = "trading" /\ report' = NoMismatch
    /\ UNCHANGED <<brokerSide, row, baseline, latched, alertState, unpolled, missed, unresolved,
                   told, crashes>>

EndCycle ==
    /\ pc = "trading"
    /\ pc' = "idle"
    /\ UNCHANGED <<brokerSide, row, baseline, latched, alertState, unpolled, missed, report,
                   unresolved, told, crashes>>

-------------------------------------------------------------------------------
(* Orders: placed by the cycle's own modules or by a route between two cycles.   *)
(* Both hold the mutex, so no order of ours is placed while a cycle polls or     *)
(* compares.                                                                     *)

Place(o) ==
    /\ pc \in {"idle", "trading"}
    /\ order[o].status = "absent"
    /\ order' = [order EXCEPT ![o].status = "new"]
    /\ row' = [row EXCEPT ![o].status = "Accepted"]
    /\ UNCHANGED <<hand, baseline, latched, alertState, pc, unpolled, missed, report,
                   unresolved, told, crashes>>

\* The breaker gate rejects every BUY while the latch is tripped; SELLs go through.
PlaceBuy(o) == o \in Buys /\ ~latched /\ Place(o)
PlaceSell(o) == o \in Sells /\ actualPosition >= Q /\ Place(o)

\* An admin accepts a quantity of the symbol as not of our trading ...
Acknowledge(qty) ==
    /\ baseline' = qty /\ qty # baseline
    /\ UNCHANGED <<brokerSide, row, latched, alertState, pc, unpolled, missed, report,
                   unresolved, told, crashes>>

\* ... and resets the breaker, under the mutex, whatever the next comparison will say.
Reset ==
    /\ pc = "idle" /\ latched
    /\ latched' = FALSE /\ unresolved' = FALSE
    /\ UNCHANGED <<brokerSide, row, baseline, alertState, pc, unpolled, missed, report, told,
                   crashes>>

-------------------------------------------------------------------------------
(* The broker, the clock and the death of the process *)

Working(o) == order[o].status \in {"new", "partially_filled"}

\* The order moves at the broker; a cycle that has polled it does not see it any more.
Moves(o, new) ==
    /\ order' = [order EXCEPT ![o] = new]
    /\ missed' = IF pc \in {"polling", "fetching"} /\ o \notin unpolled
                 THEN missed \cup {o} ELSE missed
    /\ UNCHANGED <<hand, row, baseline, latched, alertState, pc, unpolled, report, unresolved,
                   told, crashes>>

PartFill(o) ==
    /\ order[o].status = "new"
    /\ \E f \in FillSteps : Moves(o, [status |-> "partially_filled", filled |-> f])

Fill(o) == Working(o) /\ Moves(o, [status |-> "filled", filled |-> Q])

Die(o) == Working(o) /\ Moves(o, [order[o] EXCEPT !.status = "canceled"])

HandTrade(net) ==
    /\ net # hand
    /\ hand' = net
    /\ UNCHANGED <<order, row, baseline, latched, alertState, pc, unpolled, missed, report,
                   unresolved, told, crashes>>

\* EMPTY_SYNC_ALERT_WINDOW_MS have passed since the last delivered alert.
WindowPasses ==
    /\ alertState # NoMismatch
    /\ alertState' = NoMismatch
    /\ UNCHANGED <<brokerSide, row, baseline, latched, pc, unpolled, missed, report, unresolved,
                   told, crashes>>

Crash ==
    /\ crashes < MaxCrashes
    /\ crashes' = crashes + 1
    /\ pc' = "idle" /\ unpolled' = {} /\ report' = NoMismatch
    /\ UNCHANGED <<brokerSide, row, baseline, latched, alertState, missed, unresolved, told>>

-------------------------------------------------------------------------------
Alert == AlertDelivered \/ AlertUndelivered \/ AlertThrottled

CycleStep ==
    \/ BeginCycle
    \/ (\E o \in Orders : Poll(o) \/ PollFails(o))
    \/ PollEnds
    \/ Reconcile \/ ReconcileFails
    \/ Alert
    \/ EndCycle

Next ==
    \/ CycleStep
    \/ (\E o \in Orders : PlaceBuy(o) \/ PlaceSell(o))
    \/ (\E qty \in HandQuantities : Acknowledge(qty))
    \/ Reset
    \/ (\E o \in Orders : PartFill(o) \/ Fill(o) \/ Die(o))
    \/ (\E net \in HandQuantities : HandTrade(net))
    \/ WindowPasses
    \/ Crash

Spec == Init /\ [][Next]_vars

\* Cycles go on, and no fault lasts for ever: an order polled again and again, a
\* fetch and an alert tried again and again succeed in the end.  Time passes.
FairSpec ==
    /\ Spec
    /\ WF_vars(CycleStep)
    /\ \A o \in Orders : SF_vars(Poll(o))
    /\ SF_vars(Reconcile)
    /\ SF_vars(AlertDelivered)
    /\ WF_vars(WindowPasses)

-------------------------------------------------------------------------------
(* Properties *)

\* Type correctness of the rows, the latch, the alert state and the cycle.
TypeOK ==
    /\ order \in [Orders -> [status : BrokerStatus \cup {"absent"}, filled : 0..Q]]
    /\ hand \in HandQuantities
    /\ row \in [Orders -> [status : TradeState \cup {"none"}, filledQty : 0..Q \cup {None}]]
    /\ baseline \in HandQuantities
    /\ latched \in BOOLEAN /\ unresolved \in BOOLEAN
    /\ {report, alertState, told} \subseteq {NoMismatch} \cup (Nat \X Int)
    /\ pc \in {"idle", "polling", "fetching", "alerting", "trading"}
    /\ unpolled \subseteq Orders /\ missed \subseteq Orders
    /\ crashes \in 0..MaxCrashes

\* The row tells what the order holds: terminal with the same outcome, or part-filled
\* by as much.  An order accepted but not filled is counted as if it were, and the
\* shares of one that died part-filled are not counted at all.
Booked(o) ==
    \/ order[o].status = "absent"
    \/ row[o].status = "Filled"
    \/ row[o].status = "Canceled" /\ order[o].filled = 0
    \/ row[o].status = "PartiallyFilled" /\ row[o].filledQty = order[o].filled

\* Everything our orders hold is on the books.
Settled == \A o \in Orders : Booked(o)

\* The account holds more, or less, than our orders and the acknowledged baseline
\* explain, by more than the tolerance or with one of the two sides at zero.
Drifted ==
    LET explained == Held(Buys) - Held(Sells) + baseline IN
    /\ Settled
    /\ explained >= 0
    /\ explained # actualPosition
    /\ explained = 0 \/ actualPosition = 0 \/ Beyond(explained, actualPosition)

\* Once a mismatch was reported no BUY goes out until an admin's reset: not in the
\* same cycle, not after a clean comparison, not after a restart (server.ts's "mismatch
\* halts buys").
MismatchHaltsBuys ==
    [][(\E o \in Buys : order[o].status = "absent" /\ order'[o].status = "new") => ~unresolved]_vars

\* What can make the rows of the moment and the account differ.
Causes ==
    \/ hand # baseline        \* shares traded by hand that no admin acknowledged
    \/ actualPosition \notin Nat  \* the account is short
    \/ missed # {}            \* a failed poll, or a fill or death between poll and fetch
    \/ \E o \in Orders :      \* counted as filled already, or no more counted at all
          order[o].status = "new" \/ (order[o].status = "canceled" /\ order[o].filled > 0)

\* Every alarm has a cause outside the comparison: with the operator's shares acknowledged,
\* every poll of the cycle answered and no order moving between its poll and the fetch of the
\* positions, none waiting for its first fill and none dead with a part, no mismatch is
\* reported -- whatever moved before the poll, however many cycles, failures and crashes ago.
AlarmsHaveACause ==
    [][report' \notin {report, NoMismatch} => Causes]_vars

\* Stronger than the code is: an order that fills between its poll and the fetch does not
\* raise an alarm.  The positions then hold shares the row does not know of, the mismatch is
\* reported and the breaker latched until an admin's reset (server.ts:2267).
LateFillsAreHarmless ==
    [][report' \notin {report, NoMismatch}
         => hand # baseline \/ \E o \in Orders : order[o].status \notin {"absent", "filled"}]_vars

\* Drift that lasts is caught: the latch is tripped again after every reset, through
\* failed polls, fetches and report saves.
DriftIsCaught == (<>[]Drifted) => []<>latched

\* Drift that lasts is told again and again, window after window, through
\* undelivered alerts and a crash between the latch and its alert.
OperatorIsTold == (<>[]Drifted) => []<><<AlertDelivered>>_vars

\* Only an alert the operator received silences the next one: an undelivered try, or a
\* delivery about another mismatch, never uses up the window.
SilencedOnlyByDelivery == alertState # NoMismatch => alertState = told
=============================================================================
