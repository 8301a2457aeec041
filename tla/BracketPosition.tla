---------------------------- MODULE BracketPosition ----------------------------
(***************************************************************************)
(* One position entered by a bracket order: the broker's entry order and   *)
(* its two protective legs, the local trade rows that describe them, the   *)
(* order-status poller that brings broker truth into those rows, and the   *)
(* liquidation path (software exit, close-all, manual sell) that cancels   *)
(* the legs and then sells.                                                *)
(*                                                                         *)
(* The poller of the sync cycle and the liquidation path run under the     *)
(* appStore mutex; the poller of a startup-reconciliation retry does not.  *)
(* Every broker call is a step of its own: fills, deaths and crashes land  *)
(* between any two of them.  The broker itself is external.  Orders and    *)
(* rows share names: one local row per order, its content keys distinct    *)
(* (OrderSubmission models colliding keys).                                *)
(***************************************************************************)
EXTENDS TradeStates, Integers, Functions

CONSTANTS
    Conditions,  \* the combinations of conditions considered, see Condition
    MaxSells     \* liquidation sells attempted (bound)

\* gone404:     DELETE of an order that filled answers 404 instead of 422
\* cancelRace:  DELETE answers 2xx while the order can still fill
\* legPartial:  a leg may fill in part
\* partialDies: an order filled in part may be canceled or expire at the broker
\* lostResponse: a POST reaches the broker but its answer is lost
QuirkKinds == {"gone404", "cancelRace", "legPartial", "partialDies", "lostResponse"}

Poller == {"cycle", "boot"}

\* q:           shares of the entry order
\* maxCrashes:  process deaths (bound)
\* pollers:     which of the two pollers run
\* deaths:      how the exchange may end a working order
\* staleCancel: partial fills may outlive PARTIAL_FILL_MAX_AGE_MIN
ASSUME BracketAssumption ==
    /\ MaxSells \in Nat
    /\ \A c \in Conditions :
         /\ c.q \in Nat \ {0} /\ c.maxCrashes \in Nat
         /\ c.pollers \subseteq Poller
         /\ c.deaths \subseteq {"canceled", "expired", "rejected"}
         /\ c.staleCancel \in BOOLEAN
         /\ c.quirks \subseteq QuirkKinds

Entry == <<"entry", 0>>
Leg(n) == <<"leg", n>>
Sell(n) == <<"sell", n>>
Legs == {Leg(1), Leg(2)}
Sells == {Sell(n) : n \in 1..MaxSells}
Rows == {Entry} \cup Sells
Orders == Rows \cup Legs

VARIABLES
    given,    \* the one of Conditions that holds throughout
    broker,   \* broker truth: order -> [st, filled, qty]
    rows,     \* trade_intents: row -> [status, qty, filledQty, legStates]
    synth,    \* synthetic broker_leg_fill rows: leg -> shares booked, or NoQty
    poll,     \* poller -> its working set of rows and remaining targets
    sell,     \* the liquidation in progress
    crashes

vars == <<given, broker, rows, synth, poll, sell, crashes>>

Q == given.q
MaxCrashes == given.maxCrashes
Pollers == given.pollers
Quirks == given.quirks

NoQty == -1
Absent == "absent"

BrokerOrder == [st : BrokerStatus \cup {Absent}, filled : 0..Q, qty : 0..Q]
LegState == TradeState \cup {Absent}
Row == [status : TradeState \cup {Absent}, qty : 0..Q, filledQty : 0..Q \cup {NoQty},
        legStates : [Legs -> LegState]]

NoLegStates == [l \in Legs |-> Absent]
NoRow == [status |-> Absent, qty |-> 0, filledQty |-> NoQty, legStates |-> NoLegStates]

NotPolling == [pc |-> "idle", work |-> [r \in Rows |-> NoRow], todo |-> {}, touched |-> {}]
NotSelling == [pc |-> "idle", n |-> 0, qty |-> 0, todo |-> {}]

Live(o) == broker[o].st \in {"new", "partially_filled", "held"}
Sibling(leg) == CHOOSE l \in Legs : l # leg

\* Shares the broker holds for the account.
Position ==
    broker[Entry].filled
      - SumFunction([s \in Sells |-> broker[s].filled])
      - SumFunction([l \in Legs |-> broker[l].filled])

-------------------------------------------------------------------------------
(* reconciliationEngine.ts: what the rows imply the account holds, before the   *)
(* comparison floors the sum at zero                                            *)

BookedQty(row) ==
    IF row.status \notin BROKER_SUCCESS_TRADE_STATUSES THEN 0
    ELSE IF row.filledQty = NoQty THEN row.qty ELSE row.filledQty

NetBooked ==
    BookedQty(rows[Entry])
      - SumFunction([s \in Sells |-> BookedQty(rows[s])])
      - SumFunction([l \in Legs |-> IF synth[l] = NoQty THEN 0 ELSE synth[l]])

-------------------------------------------------------------------------------
(* orderStatusPoller.ts: targets and the effect of one answer on a row *)

RowOf(o) == IF o \in Legs THEN Entry ELSE o

\* mutant of Pollable: legs are polled only while their entry is
LegsPolledWithEntry(table, o) ==
    /\ table[RowOf(o)].status \in POLLABLE_TRADE_STATES
    /\ o \in Legs => ~isTerminalTradeState(table[Entry].legStates[o])

Pollable(table, o) ==
    IF o \in Legs
    THEN table[Entry].status # Absent /\ ~isTerminalTradeState(table[Entry].legStates[o])
    ELSE table[o].status \in POLLABLE_TRADE_STATES

selectPollTargets(table) == {o \in Orders : Pollable(table, o)}

\* oldest row first; a row's own order before its legs
Place(o) == IF o \in Sells THEN 2 + o[2] ELSE o[2]
NextTarget(p) == CHOOSE o \in poll[p].todo : \A x \in poll[p].todo : Place(o) <= Place(x)

\* mutant of applyTradePollResult: a fill is taken for the whole order
FillTakenAsWhole(row, order) ==
    LET mapped == mapBrokerStatusToTradeState(order.st)
    IN  [row EXCEPT !.status = mapped,
                    !.filledQty = IF mapped \in {"PartiallyFilled", "Filled"}
                                  THEN row.qty ELSE @]

applyTradePollResult(row, order) ==
    LET mapped == mapBrokerStatusToTradeState(order.st)
    IN  [row EXCEPT !.status = mapped,
                    !.filledQty = IF mapped \in {"PartiallyFilled", "Filled"}
                                  THEN order.filled ELSE @]

applyLegPollResult(row, leg, order) ==
    [row EXCEPT !.legStates[leg] = mapBrokerStatusToTradeState(order.st)]

\* mutant of BookLegFill: no leg fill is booked
BookNothing(o) == UNCHANGED synth

\* the deterministic row id makes a repeated booking of one fill an overwrite
BookLegFill(o) ==
    synth' = IF o \in Legs /\ broker[o].st = "filled"
             THEN [synth EXCEPT ![o] = broker[o].filled] ELSE synth

-------------------------------------------------------------------------------
(* The broker (external) *)

CancelAt(o) ==
    [x \in Orders |->
        IF x = o \/ (o = Entry /\ x \in Legs /\ Live(x))
        THEN [broker[x] EXCEPT !.st = "canceled"] ELSE broker[x]]

Answers == {"ok", "refused", "lost"}

\* DELETE of an order: answered 2xx (or 404), answered 422, or not answered.
Delete(o, answer) ==
    CASE answer = "ok" -> \/ Live(o) /\ broker' = CancelAt(o)
                          \/ Live(o) /\ "cancelRace" \in Quirks /\ UNCHANGED broker
                          \/ ~Live(o) /\ "gone404" \in Quirks /\ UNCHANGED broker
      [] answer = "refused" -> ~Live(o) /\ UNCHANGED broker
      [] answer = "lost" -> \/ UNCHANGED broker
                            \/ Live(o) /\ broker' = CancelAt(o)

FillTo(o, qty) ==
    [broker[o] EXCEPT !.filled = qty,
                      !.st = IF qty = broker[o].qty THEN "filled" ELSE "partially_filled"]

\* The legs work once the entry is filled completely.
EntryFills(qty) ==
    /\ broker[Entry].st \in {"new", "partially_filled"}
    /\ qty > broker[Entry].filled
    /\ broker' = [x \in Orders |->
           IF x = Entry THEN FillTo(Entry, qty)
           ELSE IF qty = Q /\ x \in Legs /\ broker[x].st = "held"
           THEN [broker[x] EXCEPT !.st = "new"] ELSE broker[x]]
    /\ UNCHANGED <<rows, synth, poll, sell, crashes, given>>

\* One leg filling cancels the other.
LegFills(leg, qty) ==
    /\ broker[leg].st \in {"new", "partially_filled"}
    /\ qty > broker[leg].filled
    /\ qty = Q \/ "legPartial" \in Quirks
    /\ LET other == Sibling(leg)
       IN  broker' = [broker EXCEPT ![leg] = FillTo(leg, qty),
                                    ![other].st = IF Live(other) THEN "canceled" ELSE @]
    /\ UNCHANGED <<rows, synth, poll, sell, crashes, given>>

SellFills(s, qty) ==
    /\ broker[s].st \in {"new", "partially_filled"}
    /\ qty > broker[s].filled /\ qty <= broker[s].qty
    /\ broker' = [broker EXCEPT ![s] = FillTo(s, qty)]
    /\ UNCHANGED <<rows, synth, poll, sell, crashes, given>>

\* The exchange cancels, expires or rejects a working order.
Dies(o, st) ==
    /\ Live(o)
    /\ broker[o].filled = 0 \/ "partialDies" \in Quirks
    /\ broker' = [CancelAt(o) EXCEPT ![o].st = st]
    /\ UNCHANGED <<rows, synth, poll, sell, crashes, given>>

-------------------------------------------------------------------------------
Init ==
    /\ given \in Conditions
    /\ broker = [o \in Orders |->
          CASE o = Entry    -> [st |-> "new", filled |-> 0, qty |-> Q]
            [] o \in Legs   -> [st |-> "held", filled |-> 0, qty |-> Q]
            [] o \in Sells  -> [st |-> Absent, filled |-> 0, qty |-> 0]]
    /\ rows = [r \in Rows |-> IF r = Entry THEN [NoRow EXCEPT !.status = "Accepted", !.qty = Q]
                               ELSE NoRow]
    /\ synth = [l \in Legs |-> NoQty]
    /\ poll = [p \in Poller |-> NotPolling]
    /\ sell = NotSelling
    /\ crashes = 0

MutexFree == sell.pc = "idle" /\ poll["cycle"].pc = "idle"

-------------------------------------------------------------------------------
(* pollPendingOrders *)

StartPoll(p) ==
    /\ p \in Pollers /\ poll[p].pc = "idle"
    /\ p = "cycle" => MutexFree
    /\ selectPollTargets(rows) # {}
    /\ poll' = [poll EXCEPT ![p] = [pc |-> "get", work |-> rows,
                                    todo |-> selectPollTargets(rows), touched |-> {}]]
    /\ UNCHANGED <<broker, rows, synth, sell, crashes, given>>

\* GET of the next target answers usably: the working copy advances, and a leg
\* fill is booked at once.
PollTarget(p) ==
    LET o   == NextTarget(p)
        r   == RowOf(o)
        row == IF o \in Legs THEN applyLegPollResult(poll[p].work[r], o, broker[o])
               ELSE applyTradePollResult(poll[p].work[r], broker[o])
    IN  /\ poll[p].pc = "get"
        /\ poll[p].todo # {}
        /\ \E stale \in IF given.staleCancel /\ row.status = "PartiallyFilled" /\ o \notin Legs
                        THEN BOOLEAN ELSE {FALSE} :
              poll' = [poll EXCEPT ![p] = [poll[p] EXCEPT
                          !.work[r] = row, !.touched = @ \cup {r},
                          !.pc = IF stale THEN "cancel" ELSE "get",
                          !.todo = IF stale THEN @ ELSE @ \ {o}]]
        /\ BookLegFill(o)
        /\ UNCHANGED <<broker, rows, sell, crashes, given>>

\* The GET fails, or reports a fill without a usable quantity: only the error
\* marker changes, but the row will be saved all the same.
PollTargetFails(p) ==
    /\ poll[p].pc = "get"
    /\ poll[p].todo # {}
    /\ poll' = [poll EXCEPT ![p] = [poll[p] EXCEPT !.touched = @ \cup {RowOf(NextTarget(p))},
                                                   !.todo = @ \ {NextTarget(p)}]]
    /\ UNCHANGED <<broker, rows, synth, sell, crashes, given>>

\* mutant of CancelStalePartial: the row is closed without waiting for a poll to confirm
CancelStaleUnconfirmed(p, answer) ==
    LET r == NextTarget(p)
    IN  /\ poll[p].pc = "cancel"
        /\ Delete(r, answer)
        /\ poll' = [poll EXCEPT ![p] = [poll[p] EXCEPT
                       !.pc = "get", !.todo = @ \ {r}, !.work[r].status = "Canceled"]]
        /\ UNCHANGED <<rows, synth, sell, crashes, given>>

\* A partial fill past its age: cancel the remainder, shrink the row to the fill.  The
\* status waits for a later poll to confirm the cancel.
CancelStalePartial(p, answer) ==
    LET r == NextTarget(p)
    IN  /\ poll[p].pc = "cancel"
        /\ Delete(r, answer)
        /\ poll' = [poll EXCEPT ![p] = [poll[p] EXCEPT
                       !.pc = "get", !.todo = @ \ {r},
                       !.work[r].qty = IF answer = "ok" THEN poll[p].work[r].filledQty ELSE @]]
        /\ UNCHANGED <<rows, synth, sell, crashes, given>>

\* Whole rows go back to the store, whatever happened to them meanwhile.
FinishPoll(p) ==
    /\ poll[p].pc = "get"
    /\ poll[p].todo = {}
    /\ rows' = [r \in Rows |-> IF r \in poll[p].touched THEN poll[p].work[r] ELSE rows[r]]
    /\ poll' = [poll EXCEPT ![p] = NotPolling]
    /\ UNCHANGED <<broker, synth, sell, crashes, given>>

-------------------------------------------------------------------------------
(* cancelBracketLegsBeforeSell and the sell that follows *)

\* The caller reads the live positions; the quantity to sell is fixed here.
StartSell ==
    /\ MutexFree
    /\ sell.n < MaxSells
    /\ \E qty \in 1..Q :
          /\ qty = Position
          /\ sell' = [pc |-> "lookup", n |-> sell.n + 1, qty |-> qty, todo |-> {}]
    /\ UNCHANGED <<broker, rows, synth, poll, crashes, given>>

\* latestBuySideExitPlanForSymbol; legs already recorded terminal are skipped.
LookUpLegs ==
    /\ sell.pc = "lookup"
    /\ sell' = [sell EXCEPT !.pc = "legs",
          !.todo = IF rows[Entry].status \in BROKER_SUCCESS_TRADE_STATUSES
                   THEN {l \in Legs : Pollable(rows, l)} ELSE {}]
    /\ UNCHANGED <<broker, rows, synth, poll, crashes, given>>

GiveUp == [NotSelling EXCEPT !.n = sell.n]

\* The legs are canceled in their order.
NextLeg == IF Leg(1) \in sell.todo THEN Leg(1) ELSE Leg(2)

\* mutant of CancelLeg: an unanswered DELETE is taken for done
CancelLegAssumingDone(answer) ==
    LET leg == NextLeg
    IN  /\ sell.pc = "legs"
        /\ sell.todo # {}
        /\ Delete(leg, answer)
        /\ IF answer = "refused" THEN sell' = [sell EXCEPT !.pc = "repoll"] /\ UNCHANGED rows
           ELSE /\ rows' = [rows EXCEPT ![Entry].legStates[leg] = "Canceled"]
                /\ sell' = [sell EXCEPT !.todo = @ \ {leg}]
        /\ UNCHANGED <<synth, poll, crashes, given>>

CancelLeg(answer) ==
    LET leg == NextLeg
    IN  /\ sell.pc = "legs"
        /\ sell.todo # {}
        /\ Delete(leg, answer)
        /\ CASE answer = "ok" ->
                 /\ rows' = [rows EXCEPT ![Entry].legStates[leg] = "Canceled"]
                 /\ sell' = [sell EXCEPT !.todo = @ \ {leg}]
             [] answer = "refused" ->
                 sell' = [sell EXCEPT !.pc = "repoll"] /\ UNCHANGED rows
             [] answer = "lost" ->
                 sell' = GiveUp /\ UNCHANGED rows
        /\ UNCHANGED <<synth, poll, crashes, given>>

\* After a 422 the leg is read once; only a terminal leg lets the sell go on.
RepollLeg ==
    LET leg == NextLeg
        row == applyLegPollResult(rows[Entry], leg, broker[leg])
    IN  /\ sell.pc = "repoll"
        /\ rows' = [rows EXCEPT ![Entry] = row]
        /\ BookLegFill(leg)
        /\ sell' = IF isTerminalTradeState(row.legStates[leg])
                   THEN [sell EXCEPT !.pc = "legs", !.todo = @ \ {leg}] ELSE GiveUp
        /\ UNCHANGED <<broker, poll, crashes, given>>

RepollLegFails ==
    /\ sell.pc = "repoll"
    /\ sell' = GiveUp
    /\ UNCHANGED <<broker, rows, synth, poll, crashes, given>>

\* executeTradeIntent up to the broker call.  A live order on the sell side is a
\* duplicate for reviewRisk, unless the open-order read failed and looks empty; or
\* the account moved across a limit since sellRiskPreflight.
SellRiskRejected ==
    /\ sell.pc = "legs"
    /\ sell.todo = {}
    /\ rows' = [rows EXCEPT ![Sell(sell.n)] =
                  [NoRow EXCEPT !.status = "RiskRejected", !.qty = sell.qty]]
    /\ sell' = GiveUp
    /\ UNCHANGED <<broker, synth, poll, crashes, given>>

\* POST of the market sell; the broker refuses shares held for a live leg.
PostSell(answer) ==
    /\ sell.pc = "legs"
    /\ sell.todo = {}
    /\ answer = "lost" => "lostResponse" \in Quirks
    /\ IF answer = "refused" THEN UNCHANGED broker
       ELSE /\ \A l \in Legs : ~Live(l)
            /\ broker' = [broker EXCEPT ![Sell(sell.n)] =
                            [st |-> "new", filled |-> 0, qty |-> sell.qty]]
    /\ sell' = [sell EXCEPT !.pc = IF answer = "ok" THEN "accepted" ELSE "failed"]
    /\ UNCHANGED <<rows, synth, poll, crashes, given>>

SaveSell ==
    /\ sell.pc \in {"accepted", "failed"}
    /\ rows' = [rows EXCEPT ![Sell(sell.n)] =
          [NoRow EXCEPT !.status = IF sell.pc = "accepted" THEN "Accepted" ELSE "BrokerFailed",
                        !.qty = sell.qty]]
    /\ sell' = GiveUp
    /\ UNCHANGED <<broker, synth, poll, crashes, given>>

\* The process dies: working sets and the liquidation are gone, rows survive.
Crash ==
    /\ crashes < MaxCrashes
    /\ crashes' = crashes + 1
    /\ poll' = [p \in Poller |-> NotPolling]
    /\ sell' = GiveUp
    /\ UNCHANGED <<broker, rows, synth, given>>

-------------------------------------------------------------------------------
BrokerStep ==
    \/ \E qty \in 1..Q : EntryFills(qty)
    \/ \E leg \in Legs, qty \in 1..Q : LegFills(leg, qty)
    \/ \E s \in Sells, qty \in 1..Q : SellFills(s, qty)
    \/ \E o \in Orders, st \in given.deaths : Dies(o, st)

PollerStep(p) ==
    \/ StartPoll(p) \/ PollTarget(p) \/ PollTargetFails(p) \/ FinishPoll(p)
    \/ \E answer \in Answers : CancelStalePartial(p, answer)

SellStep ==
    \/ StartSell \/ LookUpLegs \/ RepollLeg \/ RepollLegFails
    \/ SellRiskRejected \/ SaveSell
    \/ \E answer \in Answers : CancelLeg(answer) \/ PostSell(answer)

Next == BrokerStep \/ (\E p \in Poller : PollerStep(p)) \/ SellStep \/ Crash

Spec == Init /\ [][Next]_vars

\* The scheduler starts a cycle again and again, the cycle finishes what it
\* started, and the broker answers the GET of each order every now and then.
Fairness ==
    /\ WF_vars(StartPoll("cycle")) /\ WF_vars(FinishPoll("cycle"))
    /\ WF_vars(PollTarget("cycle") \/ PollTargetFails("cycle"))
    /\ WF_vars(\E answer \in Answers : CancelStalePartial("cycle", answer))
    /\ \A o \in Orders : SF_vars(PollTarget("cycle") /\ NextTarget("cycle") = o)
    /\ WF_vars(LookUpLegs \/ RepollLeg \/ RepollLegFails \/ SellRiskRejected \/ SaveSell
               \/ \E answer \in Answers : CancelLeg(answer) \/ PostSell(answer))

FairSpec == Spec /\ Fairness

-------------------------------------------------------------------------------
(* Properties *)

Working == [pc : {"idle", "get", "cancel"}, work : [Rows -> Row],
            todo : SUBSET Orders, touched : SUBSET Rows]

\* Type correctness of broker orders, rows and the work in progress.
TypeOK ==
    /\ given \in Conditions
    /\ broker \in [Orders -> BrokerOrder]
    /\ rows \in [Rows -> Row]
    /\ synth \in [Legs -> (1..Q) \cup {NoQty}]
    /\ poll \in [Poller -> Working]
    /\ sell \in [pc : {"idle", "lookup", "legs", "repoll", "accepted", "failed"},
                 n : 0..MaxSells, qty : 0..Q, todo : SUBSET Legs]
    /\ crashes \in 0..MaxCrashes

\* The poller never invents a fill: a recorded quantity never exceeds what the
\* broker filled, a row is Filled only if its order is, and the synthetic sale
\* of a leg is exactly that leg's fill -- through stale whole-row saves, failed
\* polls, crashes and a repeated discovery of the same fill.
RecordedFillsAreReal ==
    /\ \A r \in Rows :
         /\ rows[r].filledQty <= broker[r].filled
         /\ rows[r].status = "Filled" => broker[r].st = "filled"
    /\ \A l \in Legs : synth[l] # NoQty => broker[l].st = "filled" /\ synth[l] = broker[l].filled

\* The broker answers a DELETE by what it did: 2xx only for an order it canceled.
TruthfulDelete == Quirks \cap {"gone404", "cancelRace"} = {}

\* A leg recorded terminal, which is never polled or canceled again, is
\* terminal at the broker in that very state, if the broker answers DELETEs truly.
RecordedTerminalIsTrue ==
    TruthfulDelete => \A l \in Legs : isTerminalTradeState(rows[Entry].legStates[l])
        => rows[Entry].legStates[l] = mapBrokerStatusToTradeState(broker[l].st)

\* Nothing in progress, nothing left to poll, and every order has its row.
Settled ==
    /\ sell.pc = "idle" /\ \A p \in Poller : poll[p].pc = "idle"
    /\ selectPollTargets(rows) = {}
    /\ \A s \in Sells : broker[s].st # Absent => rows[s].status # Absent

\* No order fills in part and then dies, and no answer to a POST is lost.
WholeFills == Quirks = {} /\ ~given.staleCancel

\* Once everything is polled to its end, and orders fill whole, the rows add up to exactly what the
\* account holds: no fill is missed, none is counted twice, whichever of the
\* two pollers, the 422 re-poll or a poll after a crash discovers it.
LedgerTracksBroker == WholeFills /\ Settled => NetBooked = Position

\* When the liquidation path is about to sell, no leg can still fill: legs it
\* skipped, canceled or found terminal are all dead at the broker; and a leg once
\* recorded terminal stays so in that very state (if DELETEs are answered truly).
LegsClearedBeforeSell ==
    /\ RecordedTerminalIsTrue
    /\ TruthfulDelete /\ sell.pc = "legs" /\ sell.todo = {} => \A l \in Legs : ~Live(l)

\* The entry ended at the broker without filling to its whole quantity.
Gone == broker[Entry].st \in {"rejected", "canceled", "expired"}

\* An entry row with a recorded fill leaves the statuses under which
\* latestBuySideExitPlanForSymbol finds its plan only once the order is over at the broker:
\* no stale save of either poller, no cancel of a stale remainder that was refused, lost or
\* answered too early, and no crash takes the plan from a position that is still filling.
PlanLostOnlyAtTheEnd ==
    rows[Entry].filledQty > 0 /\ ~Gone
        => rows[Entry].status \in BROKER_SUCCESS_TRADE_STATUSES

\* As long as the account holds shares of a recorded fill, the entry row stays
\* one that latestBuySideExitPlanForSymbol returns, so the filled portion keeps
\* its exit plan (orderStatusPoller.ts:517).  Violated once the poller reads the end of
\* an entry that filled in part.
FilledPortionKeepsPlan ==
    rows[Entry].filledQty > 0 /\ Position > 0
        => rows[Entry].status \in BROKER_SUCCESS_TRADE_STATUSES

\* The system is long-only: sells never take the account below zero shares.
NeverShort == Position >= 0

\* A sell skipped because a leg could not be canceled leaves the shares it
\* wanted to sell protected by at least one working leg.
SkippedSellStaysProtected ==
    [][sell.pc \in {"legs", "repoll"} /\ sell'.pc = "idle" /\ sell.todo # {}
         /\ crashes' = crashes /\ Position' > 0
         => \E l \in Legs : Live(l)']_vars

\* Every fill of a leg is eventually booked as a sale, so a broker-side exit does
\* not leave a phantom position in the ledger forever.
LegFillEventuallyBooked ==
    \A l \in Legs : (broker[l].st = "filled") ~> (synth[l] = broker[l].filled)
================================================================================
