--------------------- MODULE PositionReconciliationProofs ---------------------
(***************************************************************************)
(* The mismatch latch, the alert throttle and the comparison, for every    *)
(* set of orders and every account.  Sums over rows are never computed:    *)
(* two of them are equal because their terms are.                          *)
(***************************************************************************)
EXTENDS PositionReconciliation, TLAPS

-------------------------------------------------------------------------------
(* The orders *)

\* The part of TypeOK the argument about placing needs.
OrderTypes == order \in [Orders -> [status : BrokerStatus \cup {"absent"}, filled : 0..Q]]

\* The order statuses a step can write.
LEMMA WrittenStatuses ==
    {"new", "partially_filled", "filled", "canceled", "absent"}
        \subseteq BrokerStatus \cup {"absent"}
BY DEF BrokerStatus

\* No order is placed at boot.
LEMMA OrderInit == Init => OrderTypes
BY ReconciliationAssumption, WrittenStatuses DEF Init, OrderTypes

\* Orders are placed, filled and canceled one at a time.
LEMMA OrderNext ==
    ASSUME OrderTypes, [Next]_vars
    PROVE  /\ OrderTypes'
           /\ \A o \in Orders :
                 order[o].status = "absent" /\ order'[o].status = "new"
                 => PlaceBuy(o) \/ PlaceSell(o)
<1> USE ReconciliationAssumption, WrittenStatuses DEF OrderTypes
<1>1. CASE order' = order
  BY <1>1
<1>2. ASSUME NEW o \in Orders, PlaceBuy(o) \/ PlaceSell(o)
      PROVE  /\ OrderTypes'
             /\ \A p \in Orders : order[p].status = "absent" /\ order'[p].status = "new"
                                  => p = o
  BY <1>2 DEF PlaceBuy, PlaceSell, Place
<1>3. ASSUME NEW o \in Orders, PartFill(o) \/ Fill(o) \/ Die(o)
      PROVE  /\ OrderTypes'
             /\ \A p \in Orders : order[p].status = "absent" => order'[p] = order[p]
  <2>1. PICK new \in [status : BrokerStatus \cup {"absent"}, filled : 0..Q] :
          order' = [order EXCEPT ![o] = new] /\ order[o].status # "absent"
    <3>1. CASE PartFill(o)
      <4>1. PICK f \in FillSteps :
               order' = [order EXCEPT ![o] = [status |-> "partially_filled", filled |-> f]]
        BY <3>1 DEF PartFill, Moves
      <4>2. f \in 0..Q
        OBVIOUS
      <4> QED
        BY <3>1, <4>1, <4>2 DEF PartFill
    <3>2. CASE Fill(o)
      <4>1. order' = [order EXCEPT ![o] = [status |-> "filled", filled |-> Q]] /\ Q \in 0..Q
        BY <3>2 DEF Fill, Moves
      <4> QED
        BY <3>2, <4>1 DEF Fill, Working
    <3>3. CASE Die(o)
      <4>1. order' = [order EXCEPT ![o] = [order[o] EXCEPT !.status = "canceled"]]
        BY <3>3 DEF Die, Moves
      <4> QED
        BY <3>3, <4>1 DEF Die, Working
    <3> QED
      BY <1>3, <3>1, <3>2, <3>3
  <2> QED
    BY <2>1
<1>4. ASSUME order' # order
      PROVE  \E o \in Orders : \/ PlaceBuy(o) \/ PlaceSell(o)
                               \/ PartFill(o) \/ Fill(o) \/ Die(o)
  BY <1>4 DEF Next, vars, brokerSide, CycleStep, Alert, BeginCycle, Poll, PollFails, PollEnds,
              Reconcile, ReconcileFails, AlertDelivered, AlertUndelivered, AlertThrottled,
              EndCycle, Acknowledge, Reset, HandTrade, WindowPasses, Crash
<1> QED
  BY <1>1, <1>2, <1>3, <1>4

-------------------------------------------------------------------------------
(* A mismatch halts the buys *)

\* A reported mismatch nobody reset is latched.
HaltInv == OrderTypes /\ (unresolved => latched)

\* Nothing is reported at boot.
LEMMA HaltInit == Init => HaltInv
BY OrderInit DEF Init, HaltInv

\* The report and the latch are one step, and only a reset releases both.
LEMMA HaltNext == HaltInv /\ [Next]_vars => HaltInv'
<1> SUFFICES ASSUME HaltInv, [Next]_vars PROVE HaltInv'
  OBVIOUS
<1>1. OrderTypes'
  BY OrderNext DEF HaltInv
<1>2. unresolved' => latched'
  <2>1. CASE Reconcile
    <3>1. PICK mismatch : /\ latched' = (latched \/ mismatch)
                          /\ unresolved' = (unresolved \/ mismatch)
      BY <2>1 DEF Reconcile, Latch
    <3> QED
      BY <3>1, Zenon DEF HaltInv
  <2>2. CASE Reset
    BY <2>2 DEF Reset
  <2>3. CASE ~Reconcile /\ ~Reset
    <3>1. latched' = latched /\ unresolved' = unresolved
      BY <2>3 DEF Next, vars, CycleStep, Alert, BeginCycle, Poll, PollFails, PollEnds,
                  ReconcileFails, AlertDelivered, AlertUndelivered, AlertThrottled,
                  EndCycle, PlaceBuy, PlaceSell, Place, Acknowledge, PartFill, Fill, Die, Moves,
                  HandTrade, WindowPasses, Crash
    <3> QED
      BY <3>1 DEF HaltInv
  <2> QED
    BY <2>1, <2>2, <2>3
<1> QED
  BY <1>1, <1>2 DEF HaltInv

\* A BUY that is placed finds the breaker unlatched.
LEMMA BuysFindNoMismatch ==
    ASSUME HaltInv, [Next]_vars
    PROVE  [(\E o \in Buys : order[o].status = "absent" /\ order'[o].status = "new")
                => ~unresolved]_vars
<1> SUFFICES ASSUME NEW o \in Buys, order[o].status = "absent", order'[o].status = "new"
             PROVE  ~unresolved
  OBVIOUS
<1>1. o \in Orders /\ o \notin Sells
  BY ReconciliationAssumption DEF Orders
<1>2. PlaceBuy(o)
  BY <1>1, OrderNext DEF HaltInv, PlaceSell
<1> QED
  BY <1>2 DEF PlaceBuy, HaltInv

\* From the report of a mismatch to an admin's reset no BUY goes out, through clean
\* comparisons, failed fetches and restarts (server.ts's "mismatch halts buys").
THEOREM MismatchHalts == Spec => MismatchHaltsBuys
<1> QED
  BY HaltInit, HaltNext, BuysFindNoMismatch, PTL DEF Spec, MismatchHaltsBuys

-------------------------------------------------------------------------------
(* The alert throttle *)

\* The window is silent for the mismatch the operator was told last: a delivery sets
\* both, a failed delivery neither.
LEMMA SilenceNext == SilencedOnlyByDelivery /\ [Next]_vars => SilencedOnlyByDelivery'
<1> SUFFICES ASSUME SilencedOnlyByDelivery, [Next]_vars PROVE SilencedOnlyByDelivery'
  OBVIOUS
<1> USE DEF SilencedOnlyByDelivery
<1>1. CASE AlertDelivered
  BY <1>1 DEF AlertDelivered
<1>2. CASE WindowPasses
  BY <1>2 DEF WindowPasses
<1>3. CASE ~AlertDelivered /\ ~WindowPasses
  <2>1. alertState' = alertState /\ told' = told
    BY <1>3 DEF Next, vars, CycleStep, Alert, BeginCycle, Poll, PollFails, PollEnds, Reconcile,
                ReconcileFails, AlertUndelivered, AfterUndelivered, AlertThrottled, EndCycle,
                PlaceBuy, PlaceSell, Place, Acknowledge, Reset, PartFill, Fill, Die, Moves,
                HandTrade, Crash
  <2> QED
    BY <2>1
<1> QED
  BY <1>1, <1>2, <1>3

\* Only an alert the operator received silences the next one, whatever alerts failed and
\* wherever the process died (server.ts stamps the throttle after the send).
THEOREM SilenceIsEarned == Spec => []SilencedOnlyByDelivery
<1>1. Init => SilencedOnlyByDelivery
  BY DEF Init, SilencedOnlyByDelivery
<1> QED
  BY <1>1, SilenceNext, PTL DEF Spec

-------------------------------------------------------------------------------
(* No alarm without a cause *)

RowRec == [status : TradeState \cup {"none"}, filledQty : 0..Q \cup {None}]
OrderRec == [status : BrokerStatus \cup {"absent"}, filled : 0..Q]

\* The part of TypeOK the argument about rows needs.
RowTypes == row \in [Orders -> RowRec] /\ unpolled \subseteq Orders /\ missed \subseteq Orders

\* The row is what a poll of the order makes of it now.
Current(ord, rw) ==
    /\ rw.status = mapBrokerStatusToTradeState(ord.status)
    /\ rw.status \in {"PartiallyFilled", "Filled"} => rw.filledQty = ord.filled

\* What an order and its row can be: nothing before the order is placed; afterwards open, or
\* ended with the order and current for ever.
Fits(ord, rw) ==
    /\ ord \in OrderRec /\ rw \in RowRec
    /\ ord.status \in {"absent", "new", "partially_filled", "filled", "canceled"}
    /\ ord.status = "absent" =>
          ord.filled = 0 /\ rw = [status |-> "none", filledQty |-> None]
    /\ ord.status # "absent" =>
          rw.status \in POLLABLE_TRADE_STATES \/ (ord.status \in {"filled", "canceled"} /\ Current(ord, rw))

\* A cycle has polled an order, or will, or missed it, or its row is current.
Seen(o) ==
    \/ pc \notin {"polling", "fetching"}
    \/ order[o].status = "absent"
    \/ o \in unpolled \cup missed
    \/ Current(order[o], row[o])

LedgerInv ==
    /\ RowTypes /\ order \in [Orders -> OrderRec]
    /\ \A o \in Orders : /\ Fits(order[o], row[o])
                         /\ Seen(o)
                         /\ o \in unpolled => order[o].status # "absent"
    /\ pc = "fetching" => unpolled = {}

\* No order is placed, no row saved and no poll planned at boot.
LEMMA LedgerInit == Init => LedgerInv
<1> SUFFICES ASSUME Init PROVE LedgerInv
  OBVIOUS
<1> DEFINE ord == [status |-> "absent", filled |-> 0]
           rw == [status |-> "none", filledQty |-> None]
<1>1. ord \in OrderRec /\ rw \in RowRec /\ Fits(ord, rw)
  BY ReconciliationAssumption DEF OrderRec, RowRec, Fits
<1>2. order = [o \in Orders |-> ord] /\ row = [o \in Orders |-> rw]
      /\ pc = "idle" /\ unpolled = {} /\ missed = {}
  BY DEF Init
<1> HIDE DEF ord, rw
<1> QED
  BY <1>1, <1>2 DEF LedgerInv, RowTypes, Seen

\* A poll makes the row current.
LEMMA PollFits ==
    ASSUME NEW ord \in OrderRec, NEW rw \in RowRec, Fits(ord, rw), ord.status # "absent",
           NEW st, st = mapBrokerStatusToTradeState(ord.status),
           NEW new, new = [status |-> st,
                           filledQty |-> IF st \in {"PartiallyFilled", "Filled"}
                                         THEN ord.filled ELSE rw.filledQty]
    PROVE  new \in RowRec /\ Current(ord, new) /\ Fits(ord, new)
<1>1. st \in {"Accepted", "PartiallyFilled", "Filled", "Canceled"}
      /\ (st = "Filled" => ord.status = "filled") /\ (st = "Canceled" => ord.status = "canceled")
  BY DEF Fits, mapBrokerStatusToTradeState
<1>2. ord.filled \in 0..Q /\ rw.filledQty \in 0..Q \cup {None}
  BY DEF OrderRec, RowRec
<1>3. new.status = st /\ (st \in {"PartiallyFilled", "Filled"} => new.filledQty = ord.filled)
  OBVIOUS
<1>4. new \in RowRec
  BY <1>1, <1>2 DEF RowRec, TradeState
<1>5. Current(ord, new)
  BY <1>3 DEF Current
<1> QED
  BY <1>1, <1>3, <1>4, <1>5 DEF Fits, POLLABLE_TRADE_STATES

\* A poll writes the row from the order as the broker has it.
LEMMA PollKeepsLedger == ASSUME LedgerInv, NEW o \in Orders, Poll(o) PROVE LedgerInv'
<1> DEFINE st == mapBrokerStatusToTradeState(order[o].status)
           new == [status |-> st,
                   filledQty |-> IF st \in {"PartiallyFilled", "Filled"}
                                 THEN order[o].filled ELSE row[o].filledQty]
<1>1. /\ row' = [row EXCEPT ![o] = new] /\ unpolled' = unpolled \ {o} /\ o \in unpolled
      /\ order' = order /\ missed' = missed /\ pc' = pc /\ pc = "polling"
  BY DEF Poll, brokerSide
<1>2. order[o].status # "absent" /\ order[o] \in OrderRec /\ row[o] \in RowRec
      /\ Fits(order[o], row[o])
  BY <1>1 DEF LedgerInv, RowTypes
<1>3. new \in RowRec /\ Current(order[o], new) /\ Fits(order[o], new)
  BY <1>2, PollFits
<1> HIDE DEF new
<1>4. /\ row' \in [Orders -> RowRec] /\ row'[o] = new
      /\ \A p \in Orders : p # o => row'[p] = row[p]
  BY <1>1, <1>3 DEF LedgerInv, RowTypes
<1>5. \A p \in Orders : Fits(order'[p], row'[p]) /\ Seen(p)'
  <2> SUFFICES ASSUME NEW p \in Orders PROVE Fits(order'[p], row'[p]) /\ Seen(p)'
    OBVIOUS
  <2>1. CASE p = o
    BY <2>1, <1>1, <1>3, <1>4 DEF Seen
  <2>2. CASE p # o
    BY <2>2, <1>1, <1>4 DEF LedgerInv, Seen
  <2> QED
    BY <2>1, <2>2
<1> QED
  BY <1>1, <1>4, <1>5 DEF LedgerInv, RowTypes

\* A placed order and its row come into being together, between two polls.
LEMMA PlaceKeepsLedger == ASSUME LedgerInv, NEW o \in Orders, Place(o) PROVE LedgerInv'
<1> DEFINE new == [row[o] EXCEPT !.status = "Accepted"]
           ord == [order[o] EXCEPT !.status = "new"]
<1>1. /\ row' = [row EXCEPT ![o] = new] /\ order' = [order EXCEPT ![o] = ord]
      /\ unpolled' = unpolled /\ missed' = missed
      /\ pc' = pc /\ pc \notin {"polling", "fetching"}
  BY DEF Place
<1>2. row[o] \in RowRec /\ order[o] \in OrderRec
  BY DEF LedgerInv, RowTypes
<1>3. new \in RowRec /\ new.status = "Accepted"
  BY <1>2 DEF RowRec, TradeState
<1>4. ord \in OrderRec /\ ord.status = "new"
  BY <1>2, WrittenStatuses DEF OrderRec
<1>5. Fits(ord, new)
  BY <1>3, <1>4 DEF Fits, POLLABLE_TRADE_STATES
<1> HIDE DEF new, ord
<1>6. /\ row' \in [Orders -> RowRec] /\ row'[o] = new
      /\ order' \in [Orders -> OrderRec] /\ order'[o] = ord
      /\ \A p \in Orders : p # o => row'[p] = row[p] /\ order'[p] = order[p]
  BY <1>1, <1>3, <1>4 DEF LedgerInv, RowTypes
<1>7. \A p \in Orders : /\ Fits(order'[p], row'[p]) /\ Seen(p)'
                        /\ p \in unpolled' => order'[p].status # "absent"
  <2> SUFFICES ASSUME NEW p \in Orders
               PROVE  /\ Fits(order'[p], row'[p]) /\ Seen(p)'
                      /\ p \in unpolled' => order'[p].status # "absent"
    OBVIOUS
  <2>1. CASE p = o
    BY <2>1, <1>1, <1>4, <1>5, <1>6 DEF Seen
  <2>2. CASE p # o
    BY <2>2, <1>1, <1>6 DEF LedgerInv, Seen
  <2> QED
    BY <2>1, <2>2
<1> QED
  BY <1>1, <1>6, <1>7 DEF LedgerInv, RowTypes

\* The broker moves only orders that still work, whose rows are open.
LEMMA MoveKeepsLedger ==
    ASSUME LedgerInv, NEW o \in Orders, NEW new \in OrderRec, Moves(o, new),
           order[o].status \notin {"absent", "filled", "canceled"},
           new.status \in {"partially_filled", "filled", "canceled"}
    PROVE  LedgerInv'
<1>1. /\ order' = [order EXCEPT ![o] = new] /\ row' = row /\ unpolled' = unpolled /\ pc' = pc
      /\ missed' = IF pc \in {"polling", "fetching"} /\ o \notin unpolled
                   THEN missed \cup {o} ELSE missed
  BY DEF Moves
<1>2. /\ order' \in [Orders -> OrderRec] /\ order'[o] = new
      /\ \A p \in Orders : p # o => order'[p] = order[p]
  BY <1>1 DEF LedgerInv
<1>3. row[o].status \in POLLABLE_TRADE_STATES /\ row[o] \in RowRec
  BY DEF LedgerInv, Fits
<1>4. Fits(new, row[o])
  BY <1>3 DEF Fits
<1>5. \A p \in Orders : /\ Fits(order'[p], row'[p]) /\ Seen(p)'
                        /\ p \in unpolled' => order'[p].status # "absent"
  <2> SUFFICES ASSUME NEW p \in Orders
               PROVE  /\ Fits(order'[p], row'[p]) /\ Seen(p)'
                      /\ p \in unpolled' => order'[p].status # "absent"
    OBVIOUS
  <2>1. CASE p = o
    BY <2>1, <1>1, <1>2, <1>4 DEF Seen
  <2>2. CASE p # o
    <3>1. order'[p] = order[p] /\ row'[p] = row[p]
      BY <2>2, <1>1, <1>2
    <3>2. Seen(p)'
      BY <3>1, <1>1 DEF LedgerInv, Seen
    <3> QED
      BY <3>1, <3>2, <1>1 DEF LedgerInv
  <2> QED
    BY <2>1, <2>2
<1>6. RowTypes'
  BY <1>1 DEF LedgerInv, RowTypes
<1> QED
  BY <1>1, <1>2, <1>5, <1>6 DEF LedgerInv

\* The broker's steps are such moves.
LEMMA BrokerKeepsLedger ==
    ASSUME LedgerInv, NEW o \in Orders, PartFill(o) \/ Fill(o) \/ Die(o)
    PROVE  LedgerInv'
<1> USE ReconciliationAssumption, WrittenStatuses
<1>0. order[o] \in OrderRec
  BY DEF LedgerInv
<1>1. CASE PartFill(o)
  <2>1. PICK f \in FillSteps : Moves(o, [status |-> "partially_filled", filled |-> f])
    BY <1>1 DEF PartFill
  <2> DEFINE new == [status |-> "partially_filled", filled |-> f]
  <2>2. new \in OrderRec /\ new.status = "partially_filled"
    BY DEF OrderRec
  <2>3. Moves(o, new)
    BY <2>1
  <2> HIDE DEF new
  <2> QED
    BY <1>1, <2>2, <2>3, MoveKeepsLedger DEF PartFill
<1>2. CASE Fill(o)
  <2> DEFINE new == [status |-> "filled", filled |-> Q]
  <2>1. new \in OrderRec /\ new.status = "filled"
    BY DEF OrderRec
  <2>2. Moves(o, new)
    BY <1>2 DEF Fill
  <2> HIDE DEF new
  <2> QED
    BY <1>2, <2>1, <2>2, MoveKeepsLedger DEF Fill, Working
<1>3. CASE Die(o)
  <2> DEFINE new == [order[o] EXCEPT !.status = "canceled"]
  <2>1. new \in OrderRec /\ new.status = "canceled"
    BY <1>0 DEF OrderRec
  <2>2. Moves(o, new)
    BY <1>3 DEF Die
  <2> HIDE DEF new
  <2> QED
    BY <1>3, <2>1, <2>2, MoveKeepsLedger DEF Die, Working
<1> QED
  BY <1>1, <1>2, <1>3

\* A cycle plans a poll of every row that is not over; the others are current.
LEMMA BeginKeepsLedger == ASSUME LedgerInv, BeginCycle PROVE LedgerInv'
<1>1. /\ order' = order /\ row' = row /\ pc' = "polling" /\ missed' = {}
      /\ unpolled' = {o \in Orders : row[o].status \in POLLABLE_TRADE_STATES}
  BY DEF BeginCycle, brokerSide
<1>2. ASSUME NEW o \in Orders
      PROVE  /\ Fits(order'[o], row'[o]) /\ Seen(o)'
             /\ o \in unpolled' => order'[o].status # "absent"
  <2>1. Fits(order[o], row[o])
    BY DEF LedgerInv
  <2>2. order[o].status = "absent" => o \notin unpolled'
    BY <2>1, <1>1 DEF Fits, POLLABLE_TRADE_STATES
  <2>3. \/ order[o].status = "absent" \/ o \in unpolled' \/ Current(order[o], row[o])
    BY <2>1, <1>1 DEF Fits
  <2> QED
    BY <2>1, <2>2, <2>3, <1>1 DEF Seen
<1> QED
  BY <1>1, <1>2 DEF LedgerInv, RowTypes

\* Rows are written by polls and placements, orders by placements and the broker.
LEMMA LedgerNext == LedgerInv /\ [Next]_vars => LedgerInv'
<1> SUFFICES ASSUME LedgerInv, [Next]_vars PROVE LedgerInv'
  OBVIOUS
<1>1. ASSUME NEW o \in Orders, Poll(o) PROVE LedgerInv'
  BY <1>1, PollKeepsLedger
<1>2. ASSUME NEW o \in Orders, PlaceBuy(o) \/ PlaceSell(o) PROVE LedgerInv'
  BY <1>2, PlaceKeepsLedger DEF PlaceBuy, PlaceSell
<1>3. ASSUME NEW o \in Orders, PartFill(o) \/ Fill(o) \/ Die(o) PROVE LedgerInv'
  BY <1>3, BrokerKeepsLedger
<1>4. CASE BeginCycle
  BY <1>4, BeginKeepsLedger
<1>5. ASSUME NEW o \in Orders, PollFails(o) PROVE LedgerInv'
  <2>1. /\ order' = order /\ row' = row /\ pc' = pc /\ pc = "polling"
        /\ unpolled' = unpolled \ {o} /\ missed' = missed \cup {o}
    BY <1>5 DEF PollFails, brokerSide
  <2> QED
    BY <2>1 DEF LedgerInv, RowTypes, Seen
<1>6. CASE PollEnds
  <2>1. /\ order' = order /\ row' = row /\ pc' = "fetching" /\ pc = "polling"
        /\ unpolled = {} /\ unpolled' = {} /\ missed' = missed
    BY <1>6 DEF PollEnds, brokerSide
  <2> QED
    BY <2>1 DEF LedgerInv, RowTypes, Seen
<1>7. CASE /\ order' = order /\ row' = row /\ missed' = missed
           /\ unpolled' \subseteq unpolled
           /\ pc' \notin {"polling", "fetching"} \/ (pc' = pc /\ unpolled' = unpolled)
  BY <1>7 DEF LedgerInv, RowTypes, Seen
<1>8. ASSUME ~BeginCycle, ~PollEnds,
             \A o \in Orders : ~Poll(o) /\ ~PollFails(o) /\ ~PlaceBuy(o) /\ ~PlaceSell(o)
                               /\ ~PartFill(o) /\ ~Fill(o) /\ ~Die(o)
      PROVE  /\ order' = order /\ row' = row /\ missed' = missed
             /\ unpolled' \subseteq unpolled
             /\ pc' \notin {"polling", "fetching"} \/ (pc' = pc /\ unpolled' = unpolled)
  BY <1>8 DEF Next, vars, brokerSide, CycleStep, Alert, Reconcile, ReconcileFails,
              AlertDelivered, AlertUndelivered, AlertThrottled, EndCycle, Acknowledge, Reset,
              HandTrade, WindowPasses, Crash
<1> QED
  BY <1>1, <1>2, <1>3, <1>4, <1>5, <1>6, <1>7, <1>8

\* Where every row is current and no order waits for its first fill or died with a part, a
\* row is counted for exactly what its order holds.
LEMMA CurrentLedger ==
    ASSUME LedgerInv, pc = "fetching", ~Causes, NEW o \in Orders
    PROVE  LedgerQuantity(o) = order[o].filled
<1> USE DEF LedgerQuantity, BROKER_SUCCESS_TRADE_STATUSES
<1>1. Fits(order[o], row[o]) /\ order[o].filled \in 0..Q /\ None \notin 0..Q
  BY ReconciliationAssumption DEF LedgerInv, OrderRec, None
<1>2. order[o].status \in {"absent", "partially_filled", "filled", "canceled"}
      /\ (order[o].status = "canceled" => order[o].filled \in 0..0)
  BY <1>1 DEF Fits, Causes
<1>3. CASE order[o].status = "absent"
  BY <1>1, <1>3 DEF Fits
<1>4. CASE order[o].status # "absent"
  <2>1. Current(order[o], row[o])
    BY <1>4 DEF LedgerInv, Seen, Causes
  <2>2. CASE order[o].status \in {"partially_filled", "filled"}
    <3>1. row[o].status \in {"PartiallyFilled", "Filled"} /\ row[o].filledQty = order[o].filled
      BY <2>1, <2>2 DEF Current, mapBrokerStatusToTradeState
    <3> QED
      BY <1>1, <3>1
  <2>3. CASE order[o].status = "canceled"
    BY <1>2, <2>1, <2>3 DEF Current, mapBrokerStatusToTradeState
  <2> QED
    BY <1>2, <1>4, <2>2, <2>3
<1> QED
  BY <1>3, <1>4

\* A quantity never mismatches itself.
LEMMA NoDriftFromItself == ASSUME NEW n \in Nat PROVE ~comparePositions(n, n)
BY DEF comparePositions, Beyond

\* Without a cause the ledger expects what the account has.
LEMMA CauselessExpectation ==
    ASSUME LedgerInv, pc = "fetching", ~Causes
    PROVE  computeExpectedPositions = actualPosition /\ actualPosition \in Nat
<1>1. /\ [o \in Buys |-> LedgerQuantity(o)] = [o \in Buys |-> order[o].filled]
      /\ [o \in Sells |-> LedgerQuantity(o)] = [o \in Sells |-> order[o].filled]
  BY CurrentLedger DEF Orders
<1> DEFINE net == SumFunction([o \in Buys |-> LedgerQuantity(o)])
                    - SumFunction([o \in Sells |-> LedgerQuantity(o)]) + baseline
<1>2. net = actualPosition
  BY <1>1 DEF actualPosition, Held, Causes
<1>3. computeExpectedPositions = IF net < 0 THEN 0 ELSE net
  BY DEF computeExpectedPositions
<1>4. actualPosition \in Nat
  BY DEF Causes
<1> HIDE DEF net
<1> QED
  BY <1>2, <1>3, <1>4

\* Only a comparison reports, and without a cause it compares equal quantities.
LEMMA NoFalseAlarm ==
    ASSUME LedgerInv, [Next]_vars
    PROVE  [report' \notin {report, NoMismatch} => Causes]_vars
<1> SUFFICES ASSUME ~Causes PROVE report' \in {report, NoMismatch}
  OBVIOUS
<1>1. CASE Reconcile
  <2>1. ~comparePositions(computeExpectedPositions, actualPosition)
    BY <1>1, CauselessExpectation, NoDriftFromItself DEF Reconcile
  <2> QED
    BY <1>1, <2>1 DEF Reconcile
<1>2. CASE ~Reconcile
  BY <1>2 DEF Next, vars, CycleStep, Alert, BeginCycle, Poll, PollFails, PollEnds,
              ReconcileFails, AlertDelivered, AlertUndelivered, AlertThrottled, EndCycle,
              PlaceBuy, PlaceSell, Place, Acknowledge, Reset, PartFill, Fill, Die, Moves,
              HandTrade, WindowPasses, Crash
<1> QED
  BY <1>1, <1>2

\* A reported mismatch has a cause outside the comparison: shares traded by hand, a failed
\* poll, an order that moved between its poll and the fetch, one that waits for its first fill
\* or died with a part, whatever the sizes, fills, cancels and crashes before
\* (reconciliationEngine.ts's computeExpectedPositions and comparePositions).
THEOREM NoAlarmWithoutCause == Spec => AlarmsHaveACause
<1> QED
  BY LedgerInit, LedgerNext, NoFalseAlarm, PTL DEF Spec, AlarmsHaveACause
===============================================================================
