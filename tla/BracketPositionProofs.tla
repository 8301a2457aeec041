------------------------ MODULE BracketPositionProofs ------------------------
(***************************************************************************)
(* The bracket position for every set of conditions and any number of      *)
(* liquidations, polls and crashes.                                        *)
(***************************************************************************)
EXTENDS BracketPosition, TLAPS, WellFoundedInduction

OrderRec == [st : BrokerStatus \cup {Absent}, filled : Nat, qty : Int]
TradeRow == [status : TradeState \cup {Absent}, qty : Int, filledQty : Int,
             legStates : [Legs -> LegState]]
PollRec == [pc : {"idle", "get", "cancel"}, work : [Rows -> TradeRow],
            todo : SUBSET Orders, touched : SUBSET Rows]
SellRec == [pc : {"idle", "lookup", "legs", "repoll", "accepted", "failed"},
            n : Nat, qty : Int, todo : SUBSET Legs]

\* TypeOK without its bounds.
BracketTypes ==
    /\ given \in Conditions
    /\ broker \in [Orders -> OrderRec]
    /\ rows \in [Rows -> TradeRow]
    /\ synth \in [Legs -> Int]
    /\ poll \in [Poller -> PollRec]
    /\ sell \in SellRec
    /\ \A p \in Poller : poll[p].pc = "cancel" => poll[p].todo # {}
    /\ sell.pc # "idle" => sell.n \in 1..MaxSells

\* The broker statuses that never change again.
Final == {"filled", "rejected", "canceled", "expired"}

-------------------------------------------------------------------------------
(* Names and types *)

\* Orders have distinct names.
LEMMA Names ==
    /\ Entry \in Rows /\ Entry \notin Legs /\ Entry \notin Sells
    /\ Legs \cap Rows = {} /\ Orders = Rows \cup Legs
    /\ Sells \subseteq Rows
    /\ Leg(1) \in Legs /\ Leg(2) \in Legs /\ Leg(1) # Leg(2)
    /\ \A m, n : Sell(m) = Sell(n) => m = n
BY DEF Entry, Rows, Legs, Sells, Orders, Leg, Sell

\* Each leg has one other.
LEMMA SiblingIsOther ==
    ASSUME NEW leg \in Legs
    PROVE  Sibling(leg) \in Legs /\ Sibling(leg) # leg
<1>1. \E l \in Legs : l # leg
  BY Names DEF Legs
<1> QED
  BY <1>1 DEF Sibling

\* The next leg to cancel is one that is left.
LEMMA NextLegIsLeft ==
    ASSUME BracketTypes
    PROVE  NextLeg \in Legs /\ (sell.todo # {} => NextLeg \in sell.todo)
<1>1. sell.todo \subseteq Legs
  BY DEF BracketTypes, SellRec
<1> QED
  BY <1>1, Names DEF NextLeg, Legs

\* Orders have a place in the poll.
LEMMA PlaceType == \A o \in Orders : Place(o) \in Nat
<1>1. Place(Entry) = 0
  BY Names DEF Place, Entry
<1>2. Place(Leg(1)) = 1 /\ Place(Leg(2)) = 2
  <2>1. Leg(1) \notin Sells /\ Leg(2) \notin Sells
    BY Names
  <2> QED
    BY <2>1 DEF Place, Leg
<1>3. \A n \in 1..MaxSells : Place(Sell(n)) = 2 + n /\ n \in Nat
  BY BracketAssumption DEF Place, Sell, Sells
<1> QED
  BY <1>1, <1>2, <1>3 DEF Orders, Rows, Legs, Sells

\* The next target is one that is left.
LEMMA NextTargetIsLeft ==
    ASSUME NEW p, poll[p].todo \subseteq Orders, poll[p].todo # {}
    PROVE  NextTarget(p) \in poll[p].todo
<1> DEFINE T == {Place(o) : o \in poll[p].todo}
<1>1. T \subseteq Nat /\ T # {}
  BY PlaceType
<1>2. PICK x \in T : \A y \in T : <<y, x>> \notin OpToRel(<, Nat)
  <2> HIDE DEF T
  <2> QED
    BY <1>1, NatLessThanWellFounded, WFMin, Zenon
<1>3. \A y \in T : ~(y < x)
  <2> SUFFICES ASSUME NEW y \in T, y < x PROVE FALSE
    OBVIOUS
  <2>1. <<y, x>> \in Nat \X Nat /\ <<y, x>>[1] < <<y, x>>[2]
    BY <1>1
  <2> HIDE DEF T
  <2>2. <<y, x>> \in OpToRel(<, Nat)
    BY <2>1, Zenon DEF OpToRel
  <2> QED
    BY <1>2, <2>2, Zenon
<1>4. PICK o \in poll[p].todo : Place(o) = x
  OBVIOUS
<1>5. \A q \in poll[p].todo : Place(o) <= Place(q)
  <2> SUFFICES ASSUME NEW q \in poll[p].todo PROVE Place(o) <= Place(q)
    OBVIOUS
  <2>1. Place(q) \in Nat /\ Place(o) \in Nat
    BY PlaceType
  <2>2. ~(Place(q) < Place(o))
    BY <1>3, <1>4
  <2> QED
    BY <2>1, <2>2
<1> QED
  BY <1>5 DEF NextTarget

\* What the broker calls an order becomes the state of a row.
LEMMA MappingType ==
    \A status :
        /\ mapBrokerStatusToTradeState(status) \in TradeState
        /\ mapBrokerStatusToTradeState(status) = "Filled" <=> status = "filled"
        /\ isTerminalTradeState(mapBrokerStatusToTradeState(status)) => status \in Final
BY DEF mapBrokerStatusToTradeState, TradeState, Final, isTerminalTradeState,
   TERMINAL_TRADE_STATES

\* The rows, working sets and liquidation there are before anything happens.
LEMMA NothingType ==
    /\ NoRow \in TradeRow /\ NoRow.filledQty = NoQty /\ NoRow.status = Absent
    /\ \A l \in Legs : NoRow.legStates[l] = Absent
    /\ NotPolling \in PollRec /\ NotPolling.pc = "idle"
    /\ NotPolling.work = [r \in Rows |-> NoRow]
    /\ NotSelling \in SellRec /\ NotSelling.pc = "idle" /\ NotSelling.n = 0
<1>1. NoLegStates \in [Legs -> LegState]
  BY DEF NoLegStates, LegState
<1>2. NoRow \in TradeRow /\ NoRow.filledQty = NoQty /\ NoRow.status = Absent
  BY <1>1 DEF NoRow, TradeRow, NoQty
<1>3. \A l \in Legs : NoRow.legStates[l] = Absent
  BY DEF NoRow, NoLegStates
<1>4. /\ NotPolling \in PollRec /\ NotPolling.pc = "idle"
      /\ NotPolling.work = [r \in Rows |-> NoRow]
  BY <1>2 DEF NotPolling, PollRec
<1>5. NotSelling \in SellRec /\ NotSelling.pc = "idle" /\ NotSelling.n = 0
  BY DEF NotSelling, SellRec
<1> QED
  BY <1>2, <1>3, <1>4, <1>5

\* Giving a liquidation up keeps its number.
LEMMA GiveUpType ==
    ASSUME BracketTypes
    PROVE  GiveUp \in SellRec /\ GiveUp.pc = "idle" /\ GiveUp.n = sell.n
BY NothingType DEF GiveUp, BracketTypes, SellRec

\* A polled row is a row.
LEMMA PolledType ==
    ASSUME NEW row \in TradeRow, NEW order \in OrderRec, NEW leg \in Legs
    PROVE  applyTradePollResult(row, order) \in TradeRow
           /\ applyLegPollResult(row, leg, order) \in TradeRow
<1>1. applyTradePollResult(row, order) \in TradeRow
  <2> DEFINE mapped == mapBrokerStatusToTradeState(order.st)
             filled == IF mapped \in {"PartiallyFilled", "Filled"}
                       THEN order.filled ELSE row.filledQty
  <2>1. mapped \in TradeState /\ filled \in Int
    BY MappingType DEF OrderRec, TradeRow
  <2>2. applyTradePollResult(row, order) = [row EXCEPT !.status = mapped, !.filledQty = filled]
    BY DEF applyTradePollResult
  <2> HIDE DEF mapped, filled
  <2> QED
    BY <2>1, <2>2 DEF TradeRow
<1>2. mapBrokerStatusToTradeState(order.st) \in LegState
  BY MappingType DEF LegState
<1>3. applyLegPollResult(row, leg, order) \in TradeRow
  BY <1>2 DEF applyLegPollResult, TradeRow
<1> QED
  BY <1>1, <1>3

-------------------------------------------------------------------------------
(* The broker *)

\* A sell not posted yet has no order.
Unposted ==
    \A m \in 1..MaxSells :
        m > sell.n \/ (m = sell.n /\ sell.pc \in {"lookup", "legs", "repoll"})
            => broker[Sell(m)].st = Absent /\ broker[Sell(m)].filled = 0

\* The entry works or is over, and its legs do not outlive it.
EntryInv ==
    /\ broker[Entry].st \in {"new", "partially_filled"} \cup Final
    /\ Gone => \A l \in Legs : ~Live(l)

\* What a step of the broker leaves as it was: finished orders stay, fills only grow,
\* and a leg that cannot fill any more never can again.
BrokerKeeps ==
    /\ broker' \in [Orders -> OrderRec]
    /\ \A o \in Orders : broker[o].st \in Final => broker'[o] = broker[o]
    /\ \A o \in Orders : broker[o].filled <= broker'[o].filled
    /\ \A l \in Legs : ~Live(l) => ~Live(l)'
    /\ EntryInv'

\* The broker fills an order.
LEMMA FillKeeps ==
    ASSUME BracketTypes, EntryInv, NEW o \in Orders, NEW qty \in Nat, qty > broker[o].filled
    PROVE  /\ FillTo(o, qty) \in OrderRec /\ FillTo(o, qty).filled = qty
           /\ FillTo(o, qty).st \in {"filled", "partially_filled"}
BY DEF FillTo, BracketTypes, OrderRec, BrokerStatus

\* Canceling a working order.
LEMMA CancelKeeps ==
    ASSUME BracketTypes, EntryInv, NEW o \in Orders, Live(o),
           NEW st \in Final \ {"filled"},
           broker' = [CancelAt(o) EXCEPT ![o].st = st]
    PROVE  BrokerKeeps /\ broker'[o].st = st /\ broker'[o].filled = broker[o].filled
<1>0. broker \in [Orders -> OrderRec] /\ Entry \in Orders /\ Legs \subseteq Orders
  BY Names DEF BracketTypes
<1>1. CancelAt(o) \in [Orders -> OrderRec]
  BY <1>0 DEF CancelAt, OrderRec, BrokerStatus
<1>2. /\ broker' \in [Orders -> OrderRec]
      /\ broker'[o] = [CancelAt(o)[o] EXCEPT !.st = st]
      /\ \A x \in Orders : x # o => broker'[x] = CancelAt(o)[x]
  BY <1>1 DEF OrderRec, BrokerStatus, Final
<1>3. /\ CancelAt(o)[o] = [broker[o] EXCEPT !.st = "canceled"]
      /\ \A x \in Orders : x # o =>
            CancelAt(o)[x] = IF o = Entry /\ x \in Legs /\ Live(x)
                             THEN [broker[x] EXCEPT !.st = "canceled"] ELSE broker[x]
  BY <1>0 DEF CancelAt
<1>4. broker'[o].st = st /\ broker'[o].filled = broker[o].filled
  BY <1>0, <1>1, <1>2, <1>3 DEF OrderRec
<1>5. \A x \in Orders : x # o => \/ broker'[x] = broker[x]
                                 \/ /\ o = Entry /\ x \in Legs /\ Live(x)
                                    /\ broker'[x].st = "canceled"
                                    /\ broker'[x].filled = broker[x].filled
  BY <1>0, <1>2, <1>3 DEF OrderRec
<1>6. \A x \in Orders : broker[x].st \in Final => broker'[x] = broker[x]
  BY <1>5 DEF Live, Final
<1>7. \A x \in Orders : broker[x].filled <= broker'[x].filled
  BY <1>0, <1>4, <1>5 DEF OrderRec
<1>8. \A l \in Legs : ~Live(l) => ~Live(l)'
  BY <1>0, <1>5, <1>4 DEF Live
<1>9. EntryInv'
  <2>1. CASE o = Entry
    <3>1. broker'[Entry].st \in Final
      BY <2>1, <1>4
    <3>2. \A l \in Legs : ~Live(l)'
      <4> SUFFICES ASSUME NEW l \in Legs PROVE ~Live(l)'
        OBVIOUS
      <4>1. l # o /\ broker'[l] = CancelAt(o)[l]
        BY <2>1, <1>0, <1>2, Names
      <4>2. CASE Live(l)
        <5>1. broker'[l] = [broker[l] EXCEPT !.st = "canceled"]
          BY <4>1, <4>2, <2>1, <1>0, <1>3
        <5>2. broker'[l].st = "canceled"
          BY <5>1, <1>0 DEF OrderRec
        <5> QED
          BY <5>2 DEF Live
      <4>3. CASE ~Live(l)
        BY <4>3, <1>8
      <4> QED
        BY <4>2, <4>3
    <3> QED
      BY <3>1, <3>2 DEF EntryInv
  <2>2. CASE o # Entry
    <3>1. broker'[Entry] = broker[Entry]
      BY <2>2, <1>0, <1>5
    <3> QED
      BY <3>1, <1>8 DEF EntryInv, Gone
  <2> QED
    BY <2>1, <2>2
<1> QED
  BY <1>2, <1>4, <1>6, <1>7, <1>8, <1>9 DEF BrokerKeeps

\* A DELETE of a known order.
LEMMA DeleteKeeps ==
    ASSUME BracketTypes, EntryInv, NEW o \in Orders, NEW answer \in Answers,
           Delete(o, answer)
    PROVE  /\ BrokerKeeps
           /\ answer = "ok" /\ TruthfulDelete => broker'[o].st = "canceled"
<1>1. CASE UNCHANGED broker
  <2>1. BrokerKeeps
    BY <1>1 DEF BrokerKeeps, BracketTypes, OrderRec, Live, EntryInv, Gone
  <2>2. ~(answer = "ok" /\ TruthfulDelete) \/ (Live(o) /\ broker' = CancelAt(o))
    BY DEF Delete, TruthfulDelete, QuirkKinds
  <2>3. ~(answer = "ok" /\ TruthfulDelete) \/ broker'[o].st = "canceled"
    BY <2>2 DEF CancelAt, BracketTypes, OrderRec
  <2> QED
    BY <2>1, <2>3
<1>2. CASE Live(o) /\ broker' = CancelAt(o)
  <2>1. CancelAt(o) = [CancelAt(o) EXCEPT ![o].st = "canceled"]
    <3>1. broker \in [Orders -> OrderRec]
      BY DEF BracketTypes
    <3>2. CancelAt(o) \in [Orders -> OrderRec] /\ CancelAt(o)[o].st = "canceled"
      BY <3>1 DEF CancelAt, OrderRec, BrokerStatus
    <3> HIDE DEF CancelAt
    <3>3. CancelAt(o)[o] = [CancelAt(o)[o] EXCEPT !.st = "canceled"]
      BY <3>2 DEF OrderRec
    <3> QED
      BY <3>2, <3>3
  <2>2. BrokerKeeps /\ broker'[o].st = "canceled"
    BY <1>2, <2>1, CancelKeeps DEF Final
  <2> QED
    BY <2>2
<1> QED
  BY <1>1, <1>2 DEF Delete, Answers

\* An order fills: whatever else becomes of the legs is between them.
LEMMA FillsKeep ==
    ASSUME BracketTypes, EntryInv, NEW qty \in 1..Q,
           \/ EntryFills(qty)
           \/ \E leg \in Legs : LegFills(leg, qty)
           \/ \E s \in Sells : SellFills(s, qty)
    PROVE  BrokerKeeps
<1>0. broker \in [Orders -> OrderRec] /\ Entry \in Orders /\ Legs \subseteq Orders
      /\ Sells \subseteq Orders /\ Q \in Nat
  BY Names, BracketAssumption DEF BracketTypes, Q
<1>1. CASE EntryFills(qty)
  <2>1. qty > broker[Entry].filled /\ broker[Entry].st \in {"new", "partially_filled"}
    BY <1>1 DEF EntryFills
  <2>2. FillTo(Entry, qty) \in OrderRec /\ FillTo(Entry, qty).filled = qty
        /\ FillTo(Entry, qty).st \in {"filled", "partially_filled"}
    BY <1>0, <2>1, FillKeeps
  <2>3. /\ broker' \in [Orders -> OrderRec] /\ broker'[Entry] = FillTo(Entry, qty)
        /\ \A x \in Orders : x # Entry =>
              \/ broker'[x] = broker[x]
              \/ /\ x \in Legs /\ broker[x].st = "held"
                 /\ broker'[x] = [broker[x] EXCEPT !.st = "new"]
    BY <1>0, <1>1, <2>2 DEF EntryFills, OrderRec, BrokerStatus
  <2>4. \A x \in Orders : x # Entry =>
              \/ broker'[x] = broker[x]
              \/ broker[x].st = "held" /\ broker'[x].filled = broker[x].filled
    BY <1>0, <2>3 DEF OrderRec
  <2>5. \A x \in Orders : broker[x].st \in Final => broker'[x] = broker[x]
    BY <2>1, <2>4 DEF Final
  <2>6. \A x \in Orders : broker[x].filled <= broker'[x].filled
    BY <1>0, <2>1, <2>2, <2>3, <2>4 DEF OrderRec
  <2>7. \A l \in Legs : ~Live(l) => ~Live(l)'
    BY <1>0, <2>4, Names DEF Live
  <2>8. EntryInv'
    BY <2>2, <2>3 DEF EntryInv, Gone, Final
  <2> QED
    BY <2>3, <2>5, <2>6, <2>7, <2>8 DEF BrokerKeeps
<1>2. ASSUME NEW leg \in Legs, LegFills(leg, qty) PROVE BrokerKeeps
  <2> DEFINE other == Sibling(leg)
  <2>1. qty > broker[leg].filled /\ broker[leg].st \in {"new", "partially_filled"}
        /\ other \in Legs /\ other # leg /\ leg \in Orders /\ other \in Orders
    BY <1>2, <1>0, SiblingIsOther DEF LegFills
  <2>2. FillTo(leg, qty) \in OrderRec /\ FillTo(leg, qty).filled = qty
        /\ FillTo(leg, qty).st \in {"filled", "partially_filled"}
    BY <2>1, FillKeeps
  <2>3. broker' = [broker EXCEPT ![leg] = FillTo(leg, qty),
                                 ![other].st = IF Live(other) THEN "canceled" ELSE @]
    BY <1>2 DEF LegFills
  <2> HIDE DEF other
  <2>4. /\ broker' \in [Orders -> OrderRec] /\ broker'[leg] = FillTo(leg, qty)
        /\ broker'[other] = [broker[other] EXCEPT
                               !.st = IF Live(other) THEN "canceled" ELSE broker[other].st]
        /\ \A x \in Orders : x # leg /\ x # other => broker'[x] = broker[x]
    BY <1>0, <2>1, <2>2, <2>3 DEF OrderRec, BrokerStatus
  <2>5. /\ broker'[other].filled = broker[other].filled
        /\ ~Live(other) => broker'[other] = broker[other]
        /\ ~Live(other)'
    <3>1. CASE Live(other)
      <4>1. broker'[other].st = "canceled" /\ broker'[other].filled = broker[other].filled
        BY <3>1, <1>0, <2>1, <2>4 DEF OrderRec
      <4> QED
        BY <3>1, <4>1 DEF Live
    <3>2. CASE ~Live(other)
      <4>1. broker'[other] = [broker[other] EXCEPT !.st = broker[other].st]
        BY <3>2, <2>4
      <4>2. broker'[other] = broker[other]
        BY <4>1, <1>0, <2>1 DEF OrderRec
      <4> QED
        BY <3>2, <4>2 DEF Live
    <3> QED
      BY <3>1, <3>2
  <2>6. \A x \in Orders : broker[x].st \in Final => broker'[x] = broker[x]
    BY <2>1, <2>4, <2>5 DEF Final, Live
  <2>7. \A x \in Orders : broker[x].filled <= broker'[x].filled
    <3> SUFFICES ASSUME NEW x \in Orders PROVE broker[x].filled <= broker'[x].filled
      OBVIOUS
    <3>1. broker[x].filled \in Nat
      BY <1>0 DEF OrderRec
    <3>2. broker[leg].filled \in Nat /\ broker'[leg].filled = qty /\ qty \in Int
      BY <1>0, <2>1, <2>2, <2>4 DEF OrderRec
    <3>3. x # leg => broker'[x].filled = broker[x].filled
      BY <2>4, <2>5
    <3> QED
      BY <3>1, <3>2, <3>3, <2>1
  <2>8. \A l \in Legs : ~Live(l) => ~Live(l)'
    BY <1>0, <2>1, <2>4, <2>5 DEF Live
  <2>9. EntryInv'
    <3>1. broker'[Entry] = broker[Entry]
      BY <2>1, <2>4, <1>0, Names
    <3> QED
      BY <3>1, <2>8 DEF EntryInv, Gone
  <2> QED
    BY <2>4, <2>6, <2>7, <2>8, <2>9 DEF BrokerKeeps
<1>3. ASSUME NEW s \in Sells, SellFills(s, qty) PROVE BrokerKeeps
  <2>1. qty > broker[s].filled /\ broker[s].st \in {"new", "partially_filled"}
        /\ s \in Orders
    BY <1>3, <1>0 DEF SellFills
  <2>2. FillTo(s, qty) \in OrderRec /\ FillTo(s, qty).filled = qty
    BY <2>1, FillKeeps
  <2>3. /\ broker' \in [Orders -> OrderRec] /\ broker'[s] = FillTo(s, qty)
        /\ \A x \in Orders : x # s => broker'[x] = broker[x]
    BY <1>0, <1>3, <2>1, <2>2 DEF SellFills
  <2>4. \A x \in Orders : broker[x].filled <= broker'[x].filled
    BY <1>0, <2>1, <2>2, <2>3 DEF OrderRec
  <2>5. \A l \in Legs \cup {Entry} : broker'[l] = broker[l]
    BY <2>3, <1>0, Names
  <2>6. EntryInv' /\ \A l \in Legs : ~Live(l) => ~Live(l)'
    BY <2>5 DEF EntryInv, Gone, Live
  <2> QED
    BY <2>1, <2>3, <2>4, <2>6 DEF BrokerKeeps, Final
<1> QED
  BY <1>1, <1>2, <1>3

\* The broker takes the sell.
LEMMA PostKeeps ==
    ASSUME BracketTypes, EntryInv, Unposted, NEW answer \in Answers, PostSell(answer)
    PROVE  BrokerKeeps
<1>0. broker \in [Orders -> OrderRec] /\ sell \in SellRec
      /\ Sell(sell.n) \in Sells /\ Sell(sell.n) \in Orders
      /\ Entry \in Orders /\ Legs \subseteq Orders
  <2>1. sell.n \in 1..MaxSells
    BY DEF PostSell, BracketTypes
  <2> QED
    BY <2>1, Names DEF BracketTypes, Sells
<1>1. CASE UNCHANGED broker
  BY <1>1, <1>0 DEF BrokerKeeps, OrderRec, Live, EntryInv, Gone
<1>2. CASE broker' = [broker EXCEPT ![Sell(sell.n)] =
                        [st |-> "new", filled |-> 0, qty |-> sell.qty]]
  <2> DEFINE order == [st |-> "new", filled |-> 0, qty |-> sell.qty]
  <2>1. order \in OrderRec /\ order.filled = 0
    BY <1>0 DEF OrderRec, SellRec, BrokerStatus
  <2> HIDE DEF order
  <2>2. /\ broker' \in [Orders -> OrderRec] /\ broker'[Sell(sell.n)] = order
        /\ \A x \in Orders : x # Sell(sell.n) => broker'[x] = broker[x]
    BY <1>0, <1>2, <2>1 DEF order
  <2>3. broker[Sell(sell.n)].st = Absent /\ broker[Sell(sell.n)].filled = 0
    BY DEF Unposted, PostSell, BracketTypes
  <2>4. \A x \in Orders : broker[x].filled <= broker'[x].filled
    BY <1>0, <2>1, <2>2, <2>3 DEF OrderRec
  <2>5. \A l \in Legs \cup {Entry} : broker'[l] = broker[l]
    BY <2>2, <1>0, Names
  <2>6. EntryInv' /\ \A l \in Legs : ~Live(l) => ~Live(l)'
    BY <2>5 DEF EntryInv, Gone, Live
  <2> QED
    BY <2>2, <2>3, <2>4, <2>6 DEF BrokerKeeps, Final, Absent
<1> QED
  BY <1>1, <1>2 DEF PostSell

\* Whatever happens, finished orders stay, fills only grow, dead legs stay dead.
LEMMA BrokerMoves ==
    ASSUME BracketTypes, EntryInv, Unposted, [Next]_vars
    PROVE  BrokerKeeps
<1>1. CASE UNCHANGED broker
  BY <1>1 DEF BrokerKeeps, BracketTypes, OrderRec, Live, EntryInv, Gone
<1>2. CASE BrokerStep
  <2>1. ASSUME NEW o \in Orders, NEW st \in given.deaths, Dies(o, st) PROVE BrokerKeeps
    <3>1. st \in Final \ {"filled"}
      BY BracketAssumption DEF BracketTypes, Final
    <3>2. Live(o) /\ broker' = [CancelAt(o) EXCEPT ![o].st = st]
      BY <2>1 DEF Dies
    <3> QED
      BY <3>1, <3>2, CancelKeeps
  <2> QED
    BY <1>2, <2>1, FillsKeep DEF BrokerStep
<1>3. ASSUME NEW p \in Poller, NEW answer \in Answers, CancelStalePartial(p, answer)
      PROVE  BrokerKeeps
  <2>1. poll[p].todo # {} /\ poll[p].todo \subseteq Orders
    BY <1>3 DEF CancelStalePartial, BracketTypes, PollRec
  <2>2. NextTarget(p) \in Orders /\ Delete(NextTarget(p), answer)
    BY <1>3, <2>1, NextTargetIsLeft DEF CancelStalePartial
  <2> QED
    BY <2>2, DeleteKeeps
<1>4. ASSUME NEW answer \in Answers, CancelLeg(answer) PROVE BrokerKeeps
  <2>1. NextLeg \in Orders /\ Delete(NextLeg, answer)
    BY <1>4, NextLegIsLeft, Names DEF CancelLeg
  <2> QED
    BY <2>1, DeleteKeeps
<1>5. ASSUME NEW answer \in Answers, PostSell(answer) PROVE BrokerKeeps
  BY <1>5, PostKeeps
<1> QED
  BY <1>1, <1>2, <1>3, <1>4, <1>5
  DEF Next, vars, PollerStep, SellStep, StartPoll, PollTarget, PollTargetFails, FinishPoll,
      StartSell, LookUpLegs, RepollLeg, RepollLegFails, SellRiskRejected, SaveSell, Crash

-------------------------------------------------------------------------------
(* Types *)

\* One bracket order, nothing in progress.
LEMMA TypesInit == Init => BracketTypes /\ EntryInv /\ Unposted
<1> SUFFICES ASSUME Init PROVE BracketTypes /\ EntryInv /\ Unposted
  OBVIOUS
<1>0. Q \in Nat /\ given \in Conditions
  BY BracketAssumption DEF Init, Q
<1>1. broker \in [Orders -> OrderRec]
  <2>1. ASSUME NEW o \in Orders PROVE broker[o] \in OrderRec
    <3>1. CASE o = Entry
      <4>1. broker[o] = [st |-> "new", filled |-> 0, qty |-> Q]
        BY <3>1, Names DEF Init
      <4> QED
        BY <4>1, <1>0 DEF OrderRec, BrokerStatus
    <3>2. CASE o \in Legs
      <4>1. broker[o] = [st |-> "held", filled |-> 0, qty |-> Q]
        BY <3>2, Names DEF Init
      <4> QED
        BY <4>1, <1>0 DEF OrderRec, BrokerStatus
    <3>3. CASE o \in Sells
      <4>1. broker[o] = [st |-> Absent, filled |-> 0, qty |-> 0]
        BY <3>3, Names DEF Init
      <4> QED
        BY <4>1 DEF OrderRec
    <3> QED
      BY <3>1, <3>2, <3>3 DEF Orders, Rows
  <2> DEFINE F(o) == CASE o = Entry    -> [st |-> "new", filled |-> 0, qty |-> Q]
                       [] o \in Legs   -> [st |-> "held", filled |-> 0, qty |-> Q]
                       [] o \in Sells  -> [st |-> Absent, filled |-> 0, qty |-> 0]
  <2>2. broker = [o \in Orders |-> F(o)]
    BY DEF Init
  <2> HIDE DEF F
  <2> QED
    BY <2>1, <2>2
<1>2. rows \in [Rows -> TradeRow]
  <2>1. [NoRow EXCEPT !.status = "Accepted", !.qty = Q] \in TradeRow
    <3>1. NoRow \in TradeRow /\ Q \in Int /\ "Accepted" \in TradeState
      BY <1>0, NothingType DEF TradeState
    <3> QED
      BY <3>1 DEF TradeRow
  <2> QED
    BY <2>1, NothingType DEF Init
<1>3. synth \in [Legs -> Int]
  BY DEF Init, NoQty
<1>4. poll \in [Poller -> PollRec] /\ \A p \in Poller : poll[p].pc = "idle"
  BY NothingType DEF Init
<1>5. sell \in SellRec /\ sell.pc = "idle" /\ sell.n = 0
  BY NothingType DEF Init
<1>6. EntryInv
  <2>1. broker[Entry].st = "new"
    BY Names DEF Init
  <2> QED
    BY <2>1 DEF EntryInv, Gone
<1>7. Unposted
  <2>1. \A m \in 1..MaxSells : Sell(m) \in Sells /\ Sell(m) \in Orders
    BY Names DEF Sells
  <2>2. \A m \in 1..MaxSells : broker[Sell(m)] = [st |-> Absent, filled |-> 0, qty |-> 0]
    BY <2>1, Names DEF Init
  <2> QED
    BY <2>2 DEF Unposted
<1> QED
  BY <1>0, <1>1, <1>2, <1>3, <1>4, <1>5, <1>6, <1>7 DEF BracketTypes

\* What the poller keeps while it works.
LEMMA PollerTypes ==
    ASSUME BracketTypes, NEW p \in Poller, PollerStep(p)
    PROVE  /\ rows' \in [Rows -> TradeRow]
           /\ synth' \in [Legs -> Int]
           /\ poll' \in [Poller -> PollRec]
           /\ \A x \in Poller : poll'[x].pc = "cancel" => poll'[x].todo # {}
           /\ UNCHANGED <<sell, given>>
<1>0. /\ broker \in [Orders -> OrderRec] /\ rows \in [Rows -> TradeRow]
      /\ synth \in [Legs -> Int] /\ poll \in [Poller -> PollRec]
      /\ poll[p].work \in [Rows -> TradeRow] /\ poll[p].todo \subseteq Orders
      /\ poll[p].touched \subseteq Rows
      /\ \A x \in Poller : poll[x].pc = "cancel" => poll[x].todo # {}
      /\ \A o \in Orders : RowOf(o) \in Rows
  BY Names DEF BracketTypes, PollRec, RowOf
<1>1. CASE StartPoll(p)
  <2> DEFINE new == [pc |-> "get", work |-> rows, todo |-> selectPollTargets(rows), touched |-> {}]
  <2>1. new \in PollRec /\ new.pc = "get"
    BY <1>0 DEF PollRec, selectPollTargets
  <2> HIDE DEF new
  <2>2. poll' = [poll EXCEPT ![p] = new]
    BY <1>1 DEF StartPoll, new
  <2> QED
    BY <1>1, <1>0, <2>1, <2>2 DEF StartPoll
<1>2. CASE PollTarget(p)
  <2> DEFINE o == NextTarget(p)
             r == RowOf(o)
             row == IF o \in Legs THEN applyLegPollResult(poll[p].work[r], o, broker[o])
                    ELSE applyTradePollResult(poll[p].work[r], broker[o])
  <2>1. poll[p].todo # {}
    BY <1>2 DEF PollTarget
  <2>2. o \in Orders /\ o \in poll[p].todo /\ r \in Rows /\ poll[p].work[r] \in TradeRow
    BY <1>0, <2>1, NextTargetIsLeft
  <2>3. row \in TradeRow
    BY <1>0, <2>2, PolledType, Names
  <2> HIDE DEF o, r, row
  <2>4. PICK stale \in BOOLEAN :
          poll' = [poll EXCEPT ![p] = [poll[p] EXCEPT
                      !.work[r] = row, !.touched = @ \cup {r},
                      !.pc = IF stale THEN "cancel" ELSE "get",
                      !.todo = IF stale THEN @ ELSE @ \ {o}]]
    BY <1>2 DEF PollTarget, o, r, row
  <2> DEFINE todo == IF stale THEN poll[p].todo ELSE poll[p].todo \ {o}
             pc == IF stale THEN "cancel" ELSE "get"
             new == [poll[p] EXCEPT !.work[r] = row, !.touched = @ \cup {r}, !.pc = pc,
                                    !.todo = todo]
  <2>5. new \in PollRec /\ (new.pc = "cancel" => new.todo # {})
    <3>1. todo \subseteq Orders /\ pc \in {"get", "cancel"} /\ (pc = "cancel" => todo # {})
      BY <1>0, <2>1
    <3>2. [poll[p].work EXCEPT ![r] = row] \in [Rows -> TradeRow]
      BY <1>0, <2>2, <2>3
    <3>3. poll[p].touched \cup {r} \subseteq Rows
      BY <1>0, <2>2
    <3> HIDE DEF todo, pc
    <3> QED
      BY <1>0, <3>1, <3>2, <3>3 DEF PollRec
  <2>6. poll' = [poll EXCEPT ![p] = new]
    BY <2>4
  <2> HIDE DEF new
  <2>7. synth' \in [Legs -> Int]
    <3>1. BookLegFill(o)
      BY <1>2 DEF PollTarget, o
    <3> QED
      BY <3>1, <1>0, <2>2 DEF BookLegFill, OrderRec
  <2>8. UNCHANGED <<broker, rows, sell, given>>
    BY <1>2 DEF PollTarget
  <2> QED
    BY <1>0, <2>5, <2>6, <2>7, <2>8
<1>3. CASE PollTargetFails(p)
  <2> DEFINE o == NextTarget(p)
             new == [poll[p] EXCEPT !.touched = @ \cup {RowOf(o)}, !.todo = @ \ {o}]
  <2>1. poll[p].todo # {} /\ poll[p].pc = "get"
    BY <1>3 DEF PollTargetFails
  <2>2. o \in Orders /\ RowOf(o) \in Rows
    BY <1>0, <2>1, NextTargetIsLeft
  <2>3. new \in PollRec /\ new.pc = "get"
    <3> HIDE DEF o
    <3> QED
      BY <1>0, <2>1, <2>2 DEF PollRec
  <2>4. poll' = [poll EXCEPT ![p] = new]
    BY <1>3 DEF PollTargetFails
  <2> HIDE DEF new
  <2> QED
    BY <1>0, <1>3, <2>3, <2>4 DEF PollTargetFails
<1>4. ASSUME NEW answer \in Answers, CancelStalePartial(p, answer)
      PROVE  /\ poll' \in [Poller -> PollRec]
             /\ \A x \in Poller : poll'[x].pc = "cancel" => poll'[x].todo # {}
             /\ UNCHANGED <<rows, synth, sell, given>>
  <2> DEFINE r == NextTarget(p)
             qty == IF answer = "ok" THEN poll[p].work[r].filledQty ELSE poll[p].work[r].qty
             new == [poll[p] EXCEPT !.pc = "get", !.todo = @ \ {r}, !.work[r].qty = qty]
  <2>1. [poll[p].work EXCEPT ![r].qty = qty] \in [Rows -> TradeRow]
    <3>1. CASE r \in Rows
      <4>1. poll[p].work[r] \in TradeRow
        BY <3>1, <1>0
      <4>2. qty \in Int
        BY <4>1 DEF TradeRow
      <4> HIDE DEF qty, r
      <4>3. [poll[p].work[r] EXCEPT !.qty = qty] \in TradeRow
        BY <4>1, <4>2 DEF TradeRow
      <4> QED
        BY <1>0, <4>3
    <3>2. CASE r \notin Rows
      <4> HIDE DEF r, qty
      <4> QED
        BY <3>2, <1>0
    <3> QED
      BY <3>1, <3>2
  <2>2. poll' = [poll EXCEPT ![p] = new]
    BY <1>4 DEF CancelStalePartial
  <2>3. new \in PollRec /\ new.pc = "get"
    <3> HIDE DEF r, qty
    <3> QED
      BY <1>0, <2>1 DEF PollRec
  <2> HIDE DEF new
  <2> QED
    BY <1>0, <1>4, <2>2, <2>3 DEF CancelStalePartial
<1>5. CASE FinishPoll(p)
  <2>1. rows' \in [Rows -> TradeRow]
    BY <1>0, <1>5 DEF FinishPoll
  <2>2. poll' = [poll EXCEPT ![p] = NotPolling] /\ UNCHANGED <<synth, sell, given>>
    BY <1>5 DEF FinishPoll
  <2> QED
    BY <1>0, <2>1, <2>2, NothingType
<1> QED
  BY <1>0, <1>1, <1>2, <1>3, <1>4, <1>5 DEF PollerStep

\* What the liquidation path keeps.
LEMMA SellTypes ==
    ASSUME BracketTypes, SellStep
    PROVE  /\ rows' \in [Rows -> TradeRow]
           /\ synth' \in [Legs -> Int]
           /\ sell' \in SellRec
           /\ sell'.pc # "idle" => sell'.n \in 1..MaxSells
           /\ UNCHANGED <<poll, given>>
<1>0. /\ broker \in [Orders -> OrderRec] /\ rows \in [Rows -> TradeRow]
      /\ synth \in [Legs -> Int] /\ sell \in SellRec
      /\ sell.pc # "idle" => sell.n \in 1..MaxSells
      /\ GiveUp \in SellRec /\ GiveUp.pc = "idle"
      /\ Entry \in Rows /\ Legs \subseteq Orders /\ NextLeg \in Legs
      /\ MaxSells \in Nat /\ Q \in Nat
  BY Names, GiveUpType, NextLegIsLeft, BracketAssumption DEF BracketTypes, Q
<1>1. CASE StartSell
  <2>1. PICK qty \in 1..Q :
          sell' = [pc |-> "lookup", n |-> sell.n + 1, qty |-> qty, todo |-> {}]
    BY <1>1 DEF StartSell
  <2>2. sell.n \in Nat /\ sell.n < MaxSells
    BY <1>0, <1>1 DEF StartSell, SellRec
  <2>3. sell' \in SellRec /\ sell'.n \in 1..MaxSells
    BY <2>1, <2>2, <1>0 DEF SellRec
  <2> QED
    BY <2>3, <1>0, <1>1 DEF StartSell
<1>2. CASE LookUpLegs
  <2> DEFINE todo == IF rows[Entry].status \in BROKER_SUCCESS_TRADE_STATUSES
                     THEN {l \in Legs : Pollable(rows, l)} ELSE {}
  <2>1. todo \subseteq Legs /\ sell' = [sell EXCEPT !.pc = "legs", !.todo = todo]
    BY <1>2 DEF LookUpLegs
  <2> HIDE DEF todo
  <2>2. sell' \in SellRec /\ sell'.n = sell.n /\ sell.pc = "lookup"
    BY <1>0, <1>2, <2>1 DEF SellRec, LookUpLegs
  <2> QED
    BY <2>2, <1>0, <1>2 DEF LookUpLegs
<1>3. ASSUME NEW answer \in Answers, CancelLeg(answer)
      PROVE  /\ rows' \in [Rows -> TradeRow] /\ sell' \in SellRec
             /\ sell'.pc # "idle" => sell'.n \in 1..MaxSells
             /\ UNCHANGED <<synth, poll, given>>
  <2> DEFINE leg == NextLeg
  <2>1. sell.pc = "legs" /\ UNCHANGED <<synth, poll, given>>
    BY <1>3 DEF CancelLeg
  <2>2. CASE answer = "ok"
    <3>1. /\ rows' = [rows EXCEPT ![Entry].legStates[leg] = "Canceled"]
          /\ sell' = [sell EXCEPT !.todo = @ \ {leg}]
      BY <1>3, <2>2 DEF CancelLeg
    <3> HIDE DEF leg
    <3>2. "Canceled" \in LegState
      BY DEF LegState, TradeState
    <3>3. rows' \in [Rows -> TradeRow]
      BY <1>0, <3>1, <3>2 DEF TradeRow
    <3>4. sell' \in SellRec /\ sell'.n = sell.n
      BY <1>0, <3>1 DEF SellRec
    <3> QED
      BY <1>0, <2>1, <3>3, <3>4
  <2>3. CASE answer = "refused"
    <3>1. sell' = [sell EXCEPT !.pc = "repoll"] /\ UNCHANGED rows
      BY <1>3, <2>3 DEF CancelLeg
    <3> QED
      BY <3>1, <1>0, <2>1 DEF SellRec
  <2>4. CASE answer = "lost"
    <3>1. sell' = GiveUp /\ UNCHANGED rows
      BY <1>3, <2>4 DEF CancelLeg
    <3> QED
      BY <3>1, <1>0, <2>1
  <2> QED
    BY <2>2, <2>3, <2>4 DEF Answers
<1>4. CASE RepollLeg
  <2> DEFINE leg == NextLeg
             row == applyLegPollResult(rows[Entry], leg, broker[leg])
  <2>1. /\ sell.pc = "repoll" /\ rows' = [rows EXCEPT ![Entry] = row]
        /\ \/ sell' = [sell EXCEPT !.pc = "legs", !.todo = @ \ {leg}]
           \/ sell' = GiveUp
        /\ BookLegFill(leg) /\ UNCHANGED <<poll, given>>
    BY <1>4 DEF RepollLeg
  <2>2. row \in TradeRow
    BY <1>0, PolledType
  <2> HIDE DEF row
  <2>3. rows' \in [Rows -> TradeRow]
    BY <1>0, <2>1, <2>2
  <2> HIDE DEF leg
  <2>4. synth' \in [Legs -> Int]
    BY <1>0, <2>1 DEF BookLegFill, OrderRec
  <2>5. sell' \in SellRec /\ (sell'.pc # "idle" => sell'.n = sell.n)
    BY <1>0, <2>1 DEF SellRec
  <2> QED
    BY <1>0, <2>1, <2>3, <2>4, <2>5
<1>5. CASE RepollLegFails
  BY <1>0, <1>5 DEF RepollLegFails
<1>6. CASE SellRiskRejected \/ SaveSell
  <2>1. PICK status \in TradeState :
          rows' = [rows EXCEPT ![Sell(sell.n)] = [NoRow EXCEPT !.status = status, !.qty = sell.qty]]
    <3>1. {"RiskRejected", "Accepted", "BrokerFailed"} \subseteq TradeState
      BY DEF TradeState
    <3>2. CASE SellRiskRejected
      BY <3>1, <3>2 DEF SellRiskRejected
    <3>3. CASE SaveSell
      BY <3>1, <3>3 DEF SaveSell
    <3> QED
      BY <1>6, <3>2, <3>3
  <2>2. [NoRow EXCEPT !.status = status, !.qty = sell.qty] \in TradeRow
    BY <1>0, NothingType DEF TradeRow, SellRec
  <2>3. rows' \in [Rows -> TradeRow]
    BY <1>0, <2>1, <2>2
  <2>4. sell' = GiveUp /\ UNCHANGED <<synth, poll, given>>
    BY <1>6 DEF SellRiskRejected, SaveSell
  <2> QED
    BY <1>0, <2>3, <2>4
<1>7. ASSUME NEW answer \in Answers, PostSell(answer)
      PROVE  /\ sell' \in SellRec /\ (sell'.pc # "idle" => sell'.n \in 1..MaxSells)
             /\ UNCHANGED <<rows, synth, poll, given>>
  <2>1. sell.pc = "legs" /\ UNCHANGED <<rows, synth, poll, given>>
    BY <1>7 DEF PostSell
  <2>2. PICK pc \in {"accepted", "failed"} : sell' = [sell EXCEPT !.pc = pc]
    BY <1>7 DEF PostSell
  <2> QED
    BY <1>0, <2>1, <2>2 DEF SellRec
<1> QED
  BY <1>0, <1>1, <1>2, <1>3, <1>4, <1>5, <1>6, <1>7 DEF SellStep

\* A sell has no order until it is posted.
LEMMA AbsentStays ==
    ASSUME BracketTypes, EntryInv, [Next]_vars, \A answer \in Answers : ~PostSell(answer),
           NEW s \in Sells, broker[s].st = Absent
    PROVE  broker'[s] = broker[s]
<1>0. broker \in [Orders -> OrderRec] /\ s \in Orders /\ s # Entry /\ s \notin Legs
      /\ Legs \subseteq Orders
  BY Names DEF BracketTypes
<1>1. ASSUME NEW o \in Orders, Live(o) PROVE CancelAt(o)[s] = broker[s] /\ o # s
  BY <1>0, <1>1 DEF CancelAt, Live, Absent
<1>2. CASE UNCHANGED broker
  BY <1>2
<1>3. ASSUME NEW qty, EntryFills(qty) PROVE broker'[s] = broker[s]
  BY <1>0, <1>3 DEF EntryFills
<1>4. ASSUME NEW leg \in Legs, NEW qty, LegFills(leg, qty) PROVE broker'[s] = broker[s]
  <2>1. Sibling(leg) # s /\ leg # s
    BY <1>0, SiblingIsOther
  <2> QED
    BY <1>0, <1>4, <2>1 DEF LegFills
<1>5. ASSUME NEW o \in Sells, NEW qty, SellFills(o, qty) PROVE broker'[s] = broker[s]
  <2>1. o # s
    BY <1>5 DEF SellFills, Absent
  <2> QED
    BY <1>0, <1>5, <2>1 DEF SellFills
<1>6. ASSUME NEW o \in Orders, NEW st, Dies(o, st) PROVE broker'[s] = broker[s]
  <2>1. Live(o) /\ broker' = [CancelAt(o) EXCEPT ![o].st = st]
    BY <1>6 DEF Dies
  <2>2. CancelAt(o)[s] = broker[s] /\ o # s
    BY <1>1, <2>1
  <2>3. DOMAIN CancelAt(o) = Orders
    BY DEF CancelAt
  <2> HIDE DEF CancelAt
  <2> QED
    BY <1>0, <2>1, <2>2, <2>3
<1>7. ASSUME NEW o \in Orders, NEW answer, Delete(o, answer), answer \in Answers
      PROVE  broker'[s] = broker[s]
  <2>1. UNCHANGED broker \/ (Live(o) /\ broker' = CancelAt(o))
    BY <1>7 DEF Delete, Answers
  <2> QED
    BY <1>1, <2>1
<1>8. ASSUME NEW p \in Poller, NEW answer \in Answers, CancelStalePartial(p, answer)
      PROVE  broker'[s] = broker[s]
  <2>1. poll[p].todo # {} /\ poll[p].todo \subseteq Orders
    BY <1>8 DEF CancelStalePartial, BracketTypes, PollRec
  <2>2. NextTarget(p) \in Orders /\ Delete(NextTarget(p), answer)
    BY <1>8, <2>1, NextTargetIsLeft DEF CancelStalePartial
  <2> QED
    BY <2>2, <1>7
<1>9. ASSUME NEW answer \in Answers, CancelLeg(answer) PROVE broker'[s] = broker[s]
  <2>1. NextLeg \in Orders /\ Delete(NextLeg, answer)
    BY <1>9, NextLegIsLeft, Names DEF CancelLeg
  <2> QED
    BY <2>1, <1>7
<1> QED
  BY <1>2, <1>3, <1>4, <1>5, <1>6, <1>8, <1>9
  DEF Next, vars, BrokerStep, PollerStep, SellStep, StartPoll, PollTarget, PollTargetFails,
      FinishPoll, StartSell, LookUpLegs, RepollLeg, RepollLegFails, SellRiskRejected,
      SaveSell, Crash

\* No poll of the other poller is disturbed.
LEMMA OtherPoll ==
    ASSUME BracketTypes, NEW p \in Poller, PollerStep(p), NEW x \in Poller, x # p
    PROVE  poll'[x] = poll[x]
<1>1. poll \in [Poller -> PollRec]
  BY DEF BracketTypes
<1> QED
  BY <1>1 DEF PollerStep, StartPoll, PollTarget, PollTargetFails, CancelStalePartial,
     FinishPoll

Typed == BracketTypes /\ EntryInv /\ Unposted

\* Types, the entry and the sells to come survive every step.
LEMMA TypesNext == Typed /\ [Next]_vars => Typed'
<1> SUFFICES ASSUME Typed, [Next]_vars PROVE Typed'
  OBVIOUS
<1>0. BracketTypes /\ EntryInv /\ Unposted
  BY DEF Typed
<1>1. BrokerKeeps
  BY <1>0, BrokerMoves
<1>2. BracketTypes'
  <2>1. broker' \in [Orders -> OrderRec]
    BY <1>1 DEF BrokerKeeps
  <2>2. CASE UNCHANGED <<rows, synth, poll, sell, given>>
    BY <2>1, <2>2, <1>0 DEF BracketTypes
  <2>3. CASE \E p \in Poller : PollerStep(p)
    BY <2>1, <2>3, <1>0, PollerTypes DEF BracketTypes
  <2>4. CASE SellStep
    BY <2>1, <2>4, <1>0, SellTypes DEF BracketTypes
  <2>5. CASE Crash
    <3>1. poll' \in [Poller -> PollRec] /\ \A p \in Poller : poll'[p].pc = "idle"
      BY <2>5, NothingType DEF Crash
    <3>2. sell' \in SellRec /\ sell'.pc = "idle" /\ UNCHANGED <<rows, synth, given>>
      BY <2>5, <1>0, GiveUpType DEF Crash
    <3> QED
      BY <2>1, <3>1, <3>2, <1>0 DEF BracketTypes
  <2> QED
    BY <2>2, <2>3, <2>4, <2>5
    DEF Next, BrokerStep, EntryFills, LegFills, SellFills, Dies, vars
<1>3. Unposted'
  <2>0. sell \in SellRec /\ MaxSells \in Nat
    BY <1>0, BracketAssumption DEF BracketTypes
  <2>1. \A m \in 1..MaxSells : Sell(m) \in Sells
    BY DEF Sells
  <2>2. CASE \E answer \in Answers : PostSell(answer)
    <3>1. sell'.n = sell.n /\ sell'.pc \in {"accepted", "failed"} /\ sell.pc = "legs"
      BY <2>0, <2>2 DEF PostSell, SellRec
    <3>2. broker \in [Orders -> OrderRec] /\ Sells \subseteq Orders
      BY <1>0, Names DEF BracketTypes
    <3>3. \A m \in 1..MaxSells : m # sell.n => broker'[Sell(m)] = broker[Sell(m)]
      <4>1. \A m \in 1..MaxSells : m # sell.n => Sell(m) # Sell(sell.n)
        BY Names
      <4> QED
        BY <2>1, <2>2, <3>2, <4>1 DEF PostSell
    <3> QED
      BY <1>0, <2>0, <3>1, <3>3 DEF Unposted, SellRec
  <2>3. CASE \A answer \in Answers : ~PostSell(answer)
    <3>1. \A s \in Sells : broker[s].st = Absent => broker'[s] = broker[s]
      BY <1>0, <2>3, AbsentStays
    <3>2. \A m \in 1..MaxSells :
            m > sell'.n \/ (m = sell'.n /\ sell'.pc \in {"lookup", "legs", "repoll"})
              => m > sell.n \/ (m = sell.n /\ sell.pc \in {"lookup", "legs", "repoll"})
      <4>1. GiveUp.pc = "idle" /\ GiveUp.n = sell.n
        BY <1>0, GiveUpType
      <4>2. CASE UNCHANGED sell
        BY <4>2
      <4>3. CASE sell' = GiveUp
        BY <4>1, <4>3
      <4>4. CASE StartSell
        <5>1. sell'.n = sell.n + 1 /\ sell.n \in Nat
          BY <2>0, <4>4 DEF StartSell, SellRec
        <5> QED
          BY <5>1
      <4>5. CASE /\ sell'.n = sell.n
                 /\ sell'.pc \in {"lookup", "legs", "repoll"}
                      => sell.pc \in {"lookup", "legs", "repoll"}
        BY <4>5
      <4>6. CASE LookUpLegs
        <5>1. sell'.n = sell.n /\ sell.pc = "lookup"
          BY <2>0, <4>6 DEF LookUpLegs, SellRec
        <5> QED
          BY <5>1, <4>5
      <4>7. ASSUME NEW answer \in Answers, CancelLeg(answer)
            PROVE  (sell'.n = sell.n /\ sell.pc = "legs") \/ sell' = GiveUp
        BY <2>0, <4>7 DEF CancelLeg, SellRec, Answers
      <4>8. CASE RepollLeg
        <5>1. (sell'.n = sell.n /\ sell.pc = "repoll") \/ sell' = GiveUp
          BY <2>0, <4>8 DEF RepollLeg, SellRec
        <5> QED
          BY <5>1, <4>5, <4>3
      <4> QED
        BY <4>2, <4>3, <4>4, <4>5, <4>6, <4>7, <4>8, <2>3
        DEF Next, vars, SellStep, PollerStep, BrokerStep, EntryFills, LegFills, SellFills,
            Dies, StartPoll, PollTarget, PollTargetFails, CancelStalePartial, FinishPoll,
            RepollLegFails, SellRiskRejected, SaveSell, Crash
    <3> QED
      BY <1>0, <2>1, <3>1, <3>2 DEF Unposted
  <2> QED
    BY <2>2, <2>3
<1> QED
  BY <1>1, <1>2, <1>3 DEF Typed, BrokerKeeps

-------------------------------------------------------------------------------
(* What is written *)

\* A row is kept, comes from a finished poll, is a sell's first, or has one of its
\* leg states canceled or polled.
LEMMA RowWrites ==
    ASSUME Typed, [Next]_vars, NEW r \in Rows
    PROVE  \/ rows'[r] = rows[r]
           \/ \E p \in Poller : poll[p].pc = "get" /\ rows'[r] = poll[p].work[r]
           \/ r # Entry /\ rows'[r].filledQty = NoQty /\ rows'[r].status # "Filled"
           \/ /\ r = Entry /\ Delete(NextLeg, "ok")
              /\ rows'[r] = [rows[r] EXCEPT !.legStates[NextLeg] = "Canceled"]
           \/ /\ r = Entry /\ UNCHANGED broker /\ BookLegFill(NextLeg)
              /\ rows'[r] = applyLegPollResult(rows[r], NextLeg, broker[NextLeg])
<1>0. rows \in [Rows -> TradeRow] /\ Entry \in Rows /\ BracketTypes /\ sell \in SellRec
  BY Names DEF Typed, BracketTypes
<1>1. CASE UNCHANGED rows
  BY <1>1
<1>2. ASSUME NEW p \in Poller, FinishPoll(p)
      PROVE  rows'[r] = rows[r] \/ (poll[p].pc = "get" /\ rows'[r] = poll[p].work[r])
  BY <1>2 DEF FinishPoll
<1>3. CASE SellRiskRejected \/ SaveSell
  <2>1. PICK status \in {"RiskRejected", "Accepted", "BrokerFailed"} :
          rows' = [rows EXCEPT ![Sell(sell.n)] = [NoRow EXCEPT !.status = status, !.qty = sell.qty]]
    BY <1>3 DEF SellRiskRejected, SaveSell
  <2>2. sell.n \in 1..MaxSells
    BY <1>0, <1>3 DEF BracketTypes, SellRiskRejected, SaveSell
  <2>3. Sell(sell.n) # Entry
    BY <2>2, Names DEF Sells
  <2>4. /\ [NoRow EXCEPT !.status = status, !.qty = sell.qty].filledQty = NoQty
        /\ [NoRow EXCEPT !.status = status, !.qty = sell.qty].status # "Filled"
    BY DEF NoRow
  <2> QED
    BY <1>0, <2>1, <2>3, <2>4
<1>4. ASSUME NEW answer \in Answers, CancelLeg(answer)
      PROVE  \/ rows'[r] = rows[r]
             \/ /\ r = Entry /\ Delete(NextLeg, "ok")
                /\ rows'[r] = [rows[r] EXCEPT !.legStates[NextLeg] = "Canceled"]
  <2>1. \/ UNCHANGED rows
        \/ /\ answer = "ok" /\ Delete(NextLeg, answer)
           /\ rows' = [rows EXCEPT ![Entry].legStates[NextLeg] = "Canceled"]
    BY <1>4 DEF CancelLeg, Answers
  <2> QED
    BY <1>0, <2>1
<1>5. CASE RepollLeg
  BY <1>0, <1>5 DEF RepollLeg
<1> QED
  BY <1>1, <1>2, <1>3, <1>4, <1>5
  DEF Next, vars, SellStep, PollerStep, BrokerStep, EntryFills, LegFills, SellFills,
      Dies, StartPoll, PollTarget, PollTargetFails, CancelStalePartial, StartSell,
      LookUpLegs, PostSell, RepollLegFails, Crash

\* A working copy is kept, taken from the row, dropped, polled, or shrunk.
LEMMA WorkWrites ==
    ASSUME Typed, [Next]_vars, NEW p \in Poller, NEW r \in Rows
    PROVE  \/ poll'[p].work[r] = poll[p].work[r] /\ (poll'[p].pc # "idle" => poll[p].pc # "idle")
           \/ poll'[p].work[r] = rows[r]
           \/ poll'[p].work[r] = NoRow /\ poll'[p].pc = "idle"
           \/ /\ UNCHANGED broker /\ poll[p].pc # "idle" /\ r \in poll[p].todo
              /\ poll'[p].work[r] = applyTradePollResult(poll[p].work[r], broker[r])
           \/ /\ UNCHANGED broker /\ poll[p].pc # "idle" /\ r = Entry
              /\ \E l \in Legs :
                    /\ poll'[p].work[r] = applyLegPollResult(poll[p].work[r], l, broker[l])
                    /\ BookLegFill(l)
           \/ /\ poll[p].pc # "idle"
              /\ \E qty : poll'[p].work[r] = [poll[p].work[r] EXCEPT !.qty = qty]
<1>0. /\ BracketTypes /\ poll \in [Poller -> PollRec] /\ Legs \cap Rows = {}
      /\ poll[p].work \in [Rows -> TradeRow] /\ poll[p].todo \subseteq Orders
      /\ Orders = Rows \cup Legs
  BY Names DEF Typed, BracketTypes, PollRec
<1>1. CASE UNCHANGED poll
  BY <1>1
<1>2. CASE Crash
  <2>1. poll'[p] = NotPolling
    BY <1>2 DEF Crash
  <2> QED
    BY <2>1, NothingType
<1>3. ASSUME NEW x \in Poller, x # p, PollerStep(x) PROVE poll'[p] = poll[p]
  BY <1>0, <1>3, OtherPoll
<1>4. CASE StartPoll(p)
  BY <1>0, <1>4 DEF StartPoll
<1>5. CASE PollTarget(p)
  <2> DEFINE o == NextTarget(p)
             row == IF o \in Legs THEN applyLegPollResult(poll[p].work[RowOf(o)], o, broker[o])
                    ELSE applyTradePollResult(poll[p].work[RowOf(o)], broker[o])
  <2>1. poll[p].pc = "get" /\ poll[p].todo # {} /\ UNCHANGED broker /\ BookLegFill(o)
    BY <1>5 DEF PollTarget
  <2>2. o \in Orders /\ o \in poll[p].todo
    BY <1>0, <2>1, NextTargetIsLeft
  <2>3. poll'[p].work = [poll[p].work EXCEPT ![RowOf(o)] = row]
    <3> HIDE DEF row
    <3>1. PICK stale \in BOOLEAN :
            poll' = [poll EXCEPT ![p] = [poll[p] EXCEPT
                        !.work[RowOf(o)] = row, !.touched = @ \cup {RowOf(o)},
                        !.pc = IF stale THEN "cancel" ELSE "get",
                        !.todo = IF stale THEN @ ELSE @ \ {o}]]
      BY <1>5 DEF PollTarget, row
    <3> HIDE DEF o
    <3> QED
      BY <1>0, <3>1 DEF PollRec
  <2>4. poll'[p].work[r] = IF r = RowOf(o) THEN row ELSE poll[p].work[r]
    <3> HIDE DEF row, o
    <3> QED
      BY <1>0, <2>3
  <2>5. CASE o \in Legs
    BY <2>1, <2>4, <2>5 DEF RowOf
  <2>6. CASE o \notin Legs
    BY <2>1, <2>2, <2>4, <2>6 DEF RowOf
  <2> QED
    BY <2>5, <2>6
<1>6. CASE PollTargetFails(p)
  <2>1. poll'[p].work = poll[p].work
    <3> DEFINE t == NextTarget(p)
               u == RowOf(t)
    <3>1. poll' = [poll EXCEPT ![p] = [poll[p] EXCEPT !.touched = @ \cup {u}, !.todo = @ \ {t}]]
      BY <1>6 DEF PollTargetFails
    <3> HIDE DEF t, u
    <3> QED
      BY <1>0, <3>1 DEF PollRec
  <2> QED
    BY <1>6, <2>1 DEF PollTargetFails
<1>7. ASSUME NEW answer \in Answers, CancelStalePartial(p, answer)
      PROVE  /\ poll[p].pc # "idle"
             /\ \/ poll'[p].work[r] = poll[p].work[r]
                \/ \E qty : poll'[p].work[r] = [poll[p].work[r] EXCEPT !.qty = qty]
  <2> DEFINE t == NextTarget(p)
             qty == IF answer = "ok" THEN poll[p].work[t].filledQty ELSE poll[p].work[t].qty
  <2>1. poll' = [poll EXCEPT ![p] = [poll[p] EXCEPT !.pc = "get", !.todo = @ \ {t},
                                                    !.work[t].qty = qty]]
    BY <1>7 DEF CancelStalePartial
  <2> HIDE DEF t, qty
  <2>2. poll'[p].work = [poll[p].work EXCEPT ![t].qty = qty]
    BY <1>0, <2>1 DEF PollRec
  <2>3. \/ poll'[p].work[r] = poll[p].work[r]
        \/ poll'[p].work[r] = [poll[p].work[r] EXCEPT !.qty = qty]
    BY <1>0, <2>2
  <2> QED
    BY <1>7, <2>3 DEF CancelStalePartial
<1>8. CASE FinishPoll(p)
  <2>1. poll'[p] = NotPolling
    BY <1>0, <1>8 DEF FinishPoll
  <2> QED
    BY <2>1, NothingType
<1> QED
  BY <1>1, <1>2, <1>3, <1>4, <1>5, <1>6, <1>7, <1>8
  DEF Next, vars, SellStep, PollerStep, BrokerStep, EntryFills, LegFills, SellFills,
      Dies, StartSell, LookUpLegs, CancelLeg, RepollLeg, RepollLegFails, SellRiskRejected,
      PostSell, SaveSell

-------------------------------------------------------------------------------
(* Recorded fills *)

\* What a row says of its order is no more than the order did.
Fits(b, row, r) ==
    row.filledQty <= b[r].filled /\ (row.status = "Filled" => b[r].st = "filled")

\* Rows, the pollers' copies and the booked leg fills tell what happened.
FillInv ==
    /\ \A r \in Rows : Fits(broker, rows[r], r)
    /\ \A p \in Poller, r \in Rows : Fits(broker, poll[p].work[r], r)
    /\ \A l \in Legs : synth[l] # NoQty => broker[l].st = "filled" /\ synth[l] = broker[l].filled

\* A row that fits keeps fitting.
LEMMA FitsStays ==
    ASSUME Typed, BrokerKeeps, NEW r \in Rows, NEW row \in TradeRow, Fits(broker, row, r)
    PROVE  Fits(broker', row, r)
<1>1. /\ r \in Orders /\ broker[r].filled \in Nat /\ broker'[r].filled \in Nat
      /\ row.filledQty \in Int
  BY Names DEF Typed, BracketTypes, BrokerKeeps, OrderRec, TradeRow
<1>2. broker[r].filled <= broker'[r].filled
      /\ (broker[r].st \in Final => broker'[r] = broker[r])
  BY <1>1 DEF BrokerKeeps
<1> QED
  BY <1>1, <1>2 DEF Fits, Final

\* A row without a fill fits any order.
LEMMA EmptyFits ==
    ASSUME Typed, NEW r \in Rows, NEW row, row.filledQty = NoQty, row.status # "Filled"
    PROVE  Fits(broker, row, r)
<1>1. broker[r].filled \in Nat
  BY Names DEF Typed, BracketTypes, OrderRec
<1> QED
  BY <1>1 DEF Fits, NoQty

\* A polled row fits the order it was polled from.
LEMMA PolledFits ==
    ASSUME Typed, NEW r \in Rows, NEW row \in TradeRow, Fits(broker, row, r)
    PROVE  /\ Fits(broker, applyTradePollResult(row, broker[r]), r)
           /\ \A l \in Legs : \A state : Fits(broker, [row EXCEPT !.legStates[l] = state], r)
           /\ \A qty : Fits(broker, [row EXCEPT !.qty = qty], r)
<1>1. broker[r].filled \in Nat
  BY Names DEF Typed, BracketTypes, OrderRec
<1>2. Fits(broker, applyTradePollResult(row, broker[r]), r)
  <2> DEFINE mapped == mapBrokerStatusToTradeState(broker[r].st)
             filled == IF mapped \in {"PartiallyFilled", "Filled"}
                       THEN broker[r].filled ELSE row.filledQty
  <2>1. mapped = "Filled" <=> broker[r].st = "filled"
    BY MappingType
  <2>2. filled <= broker[r].filled
    BY <1>1 DEF Fits
  <2>3. applyTradePollResult(row, broker[r]) = [row EXCEPT !.status = mapped, !.filledQty = filled]
    BY DEF applyTradePollResult
  <2> HIDE DEF mapped, filled
  <2>4. /\ applyTradePollResult(row, broker[r]).status = mapped
        /\ applyTradePollResult(row, broker[r]).filledQty = filled
    BY <2>3 DEF TradeRow
  <2> QED
    BY <2>1, <2>2, <2>4 DEF Fits
<1>3. ASSUME NEW l \in Legs, NEW state PROVE Fits(broker, [row EXCEPT !.legStates[l] = state], r)
  BY DEF Fits, TradeRow
<1>4. ASSUME NEW qty PROVE Fits(broker, [row EXCEPT !.qty = qty], r)
  BY DEF Fits, TradeRow
<1> QED
  BY <1>2, <1>3, <1>4

\* Nothing is recorded of the entry but that it was accepted.
LEMMA FillInit == Init => FillInv
<1> SUFFICES ASSUME Init PROVE FillInv
  OBVIOUS
<1>0. Typed
  BY TypesInit DEF Typed
<1>1. \A r \in Rows : rows[r].filledQty = NoQty /\ rows[r].status # "Filled"
  <2>1. /\ [NoRow EXCEPT !.status = "Accepted", !.qty = Q].filledQty = NoQty
        /\ [NoRow EXCEPT !.status = "Accepted", !.qty = Q].status # "Filled"
    BY DEF NoRow
  <2>2. NoRow.filledQty = NoQty /\ NoRow.status # "Filled"
    BY NothingType DEF Absent
  <2>3. \A r \in Rows : \/ rows[r] = [NoRow EXCEPT !.status = "Accepted", !.qty = Q]
                         \/ rows[r] = NoRow
    BY DEF Init
  <2> QED
    BY <2>1, <2>2, <2>3
<1>2. \A p \in Poller, r \in Rows : poll[p].work[r] = NoRow
  BY NothingType DEF Init
<1>3. NoRow.filledQty = NoQty /\ NoRow.status # "Filled"
  BY NothingType DEF Absent
<1>4. \A l \in Legs : synth[l] = NoQty
  BY DEF Init
<1> QED
  BY <1>0, <1>1, <1>2, <1>3, <1>4, EmptyFits DEF FillInv

\* Whatever is written fits.
LEMMA FillNext == Typed /\ FillInv /\ [Next]_vars => FillInv'
<1> SUFFICES ASSUME Typed, FillInv, [Next]_vars PROVE FillInv'
  OBVIOUS
<1>0. /\ BrokerKeeps /\ rows \in [Rows -> TradeRow] /\ Legs \subseteq Orders
      /\ \A p \in Poller : poll[p].work \in [Rows -> TradeRow]
      /\ Typed' /\ NextLeg \in Legs
  BY BrokerMoves, TypesNext, NextLegIsLeft, Names DEF Typed, BracketTypes, PollRec
<1>1. ASSUME NEW r \in Rows PROVE Fits(broker', rows'[r], r)
  <2>1. Fits(broker, rows[r], r) /\ rows[r] \in TradeRow
    BY <1>0 DEF FillInv
  <2>2. Fits(broker', rows[r], r)
    BY <1>0, <2>1, FitsStays
  <2>3. CASE rows'[r] = rows[r]
    BY <2>2, <2>3
  <2>4. ASSUME NEW p \in Poller, rows'[r] = poll[p].work[r] PROVE Fits(broker', rows'[r], r)
    <3>1. Fits(broker, poll[p].work[r], r) /\ poll[p].work[r] \in TradeRow
      BY <1>0 DEF FillInv
    <3> QED
      BY <1>0, <2>4, <3>1, FitsStays
  <2>5. CASE rows'[r].filledQty = NoQty /\ rows'[r].status # "Filled"
    <3>1. broker'[r].filled \in Nat
      BY <1>0, Names DEF Typed, BracketTypes, OrderRec
    <3> QED
      BY <2>5, <3>1 DEF Fits, NoQty
  <2>6. ASSUME NEW state, rows'[r] = [rows[r] EXCEPT !.legStates[NextLeg] = state]
        PROVE  Fits(broker', rows'[r], r)
    BY <2>1, <2>2, <2>6 DEF Fits, TradeRow
  <2> QED
    BY <2>3, <2>4, <2>5, <2>6, RowWrites DEF applyLegPollResult
<1>2. ASSUME NEW p \in Poller, NEW r \in Rows PROVE Fits(broker', poll'[p].work[r], r)
  <2>1. /\ Fits(broker, rows[r], r) /\ rows[r] \in TradeRow
        /\ Fits(broker, poll[p].work[r], r) /\ poll[p].work[r] \in TradeRow
    BY <1>0 DEF FillInv
  <2>2. Fits(broker', rows[r], r) /\ Fits(broker', poll[p].work[r], r)
    BY <1>0, <2>1, FitsStays
  <2>3. CASE poll'[p].work[r] = poll[p].work[r] \/ poll'[p].work[r] = rows[r]
    BY <2>2, <2>3
  <2>4. CASE poll'[p].work[r] = NoRow
    <3>1. broker'[r].filled \in Nat
      BY <1>0, Names DEF Typed, BracketTypes, OrderRec
    <3> QED
      BY <2>4, <3>1, NothingType DEF Fits, NoQty, Absent
  <2>5. ASSUME UNCHANGED broker,
               poll'[p].work[r] = applyTradePollResult(poll[p].work[r], broker[r])
        PROVE  Fits(broker', poll'[p].work[r], r)
    BY <2>1, <2>5, PolledFits
  <2>6. ASSUME UNCHANGED broker, NEW l \in Legs,
               poll'[p].work[r] = applyLegPollResult(poll[p].work[r], l, broker[l])
        PROVE  Fits(broker', poll'[p].work[r], r)
    BY <2>1, <2>6, PolledFits DEF applyLegPollResult
  <2>7. ASSUME NEW qty, poll'[p].work[r] = [poll[p].work[r] EXCEPT !.qty = qty]
        PROVE  Fits(broker', poll'[p].work[r], r)
    BY <2>1, <2>2, <2>7 DEF Fits, TradeRow
  <2>8. \/ poll'[p].work[r] \in {poll[p].work[r], rows[r], NoRow}
        \/ /\ UNCHANGED broker
           /\ \/ poll'[p].work[r] = applyTradePollResult(poll[p].work[r], broker[r])
              \/ \E l \in Legs :
                    poll'[p].work[r] = applyLegPollResult(poll[p].work[r], l, broker[l])
        \/ \E qty : poll'[p].work[r] = [poll[p].work[r] EXCEPT !.qty = qty]
    BY WorkWrites
  <2> QED
    BY <2>3, <2>4, <2>5, <2>6, <2>7, <2>8
<1>3. ASSUME NEW l \in Legs, synth'[l] # NoQty
      PROVE  broker'[l].st = "filled" /\ synth'[l] = broker'[l].filled
  <2>1. CASE synth'[l] = synth[l]
    <3>1. broker[l].st = "filled" /\ synth[l] = broker[l].filled
      BY <1>3, <2>1 DEF FillInv
    <3> QED
      BY <1>0, <2>1, <3>1 DEF BrokerKeeps, Final
  <2>2. ASSUME NEW o, BookLegFill(o), UNCHANGED broker
        PROVE  \/ synth'[l] = synth[l]
               \/ broker'[l].st = "filled" /\ synth'[l] = broker'[l].filled
    <3>1. synth \in [Legs -> Int]
      BY DEF Typed, BracketTypes
    <3> QED
      BY <2>2, <3>1 DEF BookLegFill
  <2>3. \/ UNCHANGED synth
        \/ \E o : BookLegFill(o) /\ UNCHANGED broker
    BY DEF Next, vars, BrokerStep, EntryFills, LegFills, SellFills, Dies, PollerStep,
       StartPoll, PollTarget, PollTargetFails, CancelStalePartial, FinishPoll, SellStep,
       StartSell, LookUpLegs, CancelLeg, RepollLeg, RepollLegFails, SellRiskRejected,
       PostSell, SaveSell, Crash
  <2> QED
    BY <2>1, <2>2, <2>3
<1> QED
  BY <1>1, <1>2, <1>3 DEF FillInv

\* No row claims a fill the broker did not make, through stale whole-row saves of two
\* pollers, failed polls, crashes and any number of liquidations (orderStatusPoller.ts).
THEOREM FillsAreReal == Spec => []RecordedFillsAreReal
<1>1. Init => Typed /\ FillInv
  BY TypesInit, FillInit DEF Typed
<1>2. Typed /\ FillInv /\ [Next]_vars => (Typed /\ FillInv)'
  BY TypesNext, FillNext
<1>3. FillInv => RecordedFillsAreReal
  BY DEF FillInv, Fits, RecordedFillsAreReal
<1> QED
  BY <1>1, <1>2, <1>3, PTL DEF Spec

-------------------------------------------------------------------------------
(* Legs *)

\* A leg state recorded terminal is the leg's final one.
LegFits(b, row, l) ==
    isTerminalTradeState(row.legStates[l])
        => row.legStates[l] = mapBrokerStatusToTradeState(b[l].st)

\* What no plan look-up finds any more is an entry that is over.
StatusFits(row) == row.status \in BROKER_SUCCESS_TRADE_STATUSES \/ Gone

\* Terminal leg states are final, an entry row that lost its plan has no live leg, and
\* each leg is on the liquidation's list or dead.
LegInv ==
    /\ TruthfulDelete =>
          \A l \in Legs : /\ LegFits(broker, rows[Entry], l)
                          /\ \A p \in Poller : LegFits(broker, poll[p].work[Entry], l)
    /\ StatusFits(rows[Entry])
    /\ \A p \in Poller : poll[p].pc # "idle" => StatusFits(poll[p].work[Entry])
    /\ TruthfulDelete /\ sell.pc \in {"legs", "repoll"} =>
          \A l \in Legs : l \in sell.todo \/ ~Live(l)

\* A leg with a recorded final state cannot fill.
LEMMA TerminalIsDead ==
    ASSUME NEW row, NEW l \in Legs, LegFits(broker, row, l),
           isTerminalTradeState(row.legStates[l])
    PROVE  ~Live(l)
BY MappingType DEF LegFits, Live, Final

\* Final leg states stay right.
LEMMA LegFitsStays ==
    ASSUME Typed, BrokerKeeps, NEW l \in Legs, NEW row, LegFits(broker, row, l)
    PROVE  LegFits(broker', row, l)
<1>1. SUFFICES ASSUME isTerminalTradeState(row.legStates[l]) PROVE broker'[l] = broker[l]
  BY DEF LegFits
<1>2. l \in Orders /\ broker[l].st \in Final
  BY <1>1, MappingType, Names DEF LegFits
<1> QED
  BY <1>2 DEF BrokerKeeps

\* An entry that is over stays so.
LEMMA GoneStays == Typed /\ BrokerKeeps /\ Gone => Gone'
<1> SUFFICES ASSUME Typed, BrokerKeeps, Gone PROVE Gone'
  OBVIOUS
<1>1. Entry \in Orders /\ broker[Entry].st \in Final
  BY Names DEF Gone, Final
<1> QED
  BY <1>1 DEF BrokerKeeps, Gone

\* A polled row tells the entry's own status.
LEMMA PolledStatus ==
    ASSUME Typed, NEW row \in TradeRow
    PROVE  StatusFits(applyTradePollResult(row, broker[Entry]))
<1>1. broker[Entry].st \in {"new", "partially_filled"} \cup Final
  BY DEF Typed, EntryInv
<1>2. applyTradePollResult(row, broker[Entry]).status = mapBrokerStatusToTradeState(broker[Entry].st)
  <2> DEFINE mapped == mapBrokerStatusToTradeState(broker[Entry].st)
             filled == IF mapped \in {"PartiallyFilled", "Filled"}
                       THEN broker[Entry].filled ELSE row.filledQty
  <2>1. applyTradePollResult(row, broker[Entry]) =
            [row EXCEPT !.status = mapped, !.filledQty = filled]
    BY DEF applyTradePollResult
  <2> HIDE DEF mapped, filled
  <2>2. applyTradePollResult(row, broker[Entry]).status = mapped
    BY <2>1 DEF TradeRow
  <2> QED
    BY <2>2 DEF mapped
<1> QED
  BY <1>1, <1>2 DEF StatusFits, Gone, Final, mapBrokerStatusToTradeState,
     BROKER_SUCCESS_TRADE_STATUSES

\* The legs are held and nothing is recorded of them.
LEMMA LegInit == Init => LegInv
<1> SUFFICES ASSUME Init PROVE LegInv
  OBVIOUS
<1>1. /\ [NoRow EXCEPT !.status = "Accepted", !.qty = Q].status = "Accepted"
      /\ [NoRow EXCEPT !.status = "Accepted", !.qty = Q].legStates = NoLegStates
  BY DEF NoRow
<1>2. rows[Entry].status = "Accepted" /\ rows[Entry].legStates = NoLegStates
  BY <1>1, Names DEF Init
<1>3. \A p \in Poller : poll[p].pc = "idle" /\ poll[p].work[Entry] = NoRow
  BY NothingType, Names DEF Init
<1>4. NoRow.legStates = NoLegStates /\ \A l \in Legs : ~isTerminalTradeState(NoLegStates[l])
  BY DEF NoRow, NoLegStates, isTerminalTradeState, TERMINAL_TRADE_STATES, Absent
<1>5. sell.pc = "idle"
  BY NothingType DEF Init
<1> QED
  BY <1>2, <1>3, <1>4, <1>5 DEF LegInv, LegFits, StatusFits, BROKER_SUCCESS_TRADE_STATUSES

\* The conditions hold throughout.
LEMMA GivenStays == [Next]_vars => UNCHANGED given
BY DEF Next, vars, BrokerStep, EntryFills, LegFills, SellFills, Dies, PollerStep,
   StartPoll, PollTarget, PollTargetFails, CancelStalePartial, FinishPoll, SellStep,
   StartSell, LookUpLegs, CancelLeg, RepollLeg, RepollLegFails, SellRiskRejected,
   PostSell, SaveSell, Crash

\* Every row written of the entry keeps final leg states and its status right.
LEMMA EntryRowNext ==
    ASSUME Typed, LegInv, [Next]_vars
    PROVE  /\ TruthfulDelete => \A l \in Legs : LegFits(broker', rows'[Entry], l)
           /\ StatusFits(rows[Entry])' 
<1>0. /\ BrokerKeeps /\ rows \in [Rows -> TradeRow] /\ Entry \in Rows /\ Legs \subseteq Orders
      /\ \A p \in Poller : poll[p].work \in [Rows -> TradeRow]
      /\ BracketTypes /\ EntryInv /\ NextLeg \in Legs /\ NextLeg \in Orders
      /\ rows[Entry] \in TradeRow
  BY BrokerMoves, NextLegIsLeft, Names DEF Typed, BracketTypes, PollRec
<1>1. /\ TruthfulDelete => \A l \in Legs : LegFits(broker', rows[Entry], l)
      /\ rows[Entry].status \in BROKER_SUCCESS_TRADE_STATUSES \/ Gone'
  BY <1>0, LegFitsStays, GoneStays DEF LegInv, StatusFits
<1>2. CASE rows'[Entry] = rows[Entry]
  BY <1>1, <1>2 DEF StatusFits
<1>3. ASSUME NEW p \in Poller, poll[p].pc = "get", rows'[Entry] = poll[p].work[Entry]
      PROVE  /\ TruthfulDelete => \A l \in Legs : LegFits(broker', rows'[Entry], l)
             /\ StatusFits(rows[Entry])'
  <2>1. TruthfulDelete => \A l \in Legs : LegFits(broker, poll[p].work[Entry], l)
    BY DEF LegInv
  <2>2. StatusFits(poll[p].work[Entry])
    BY <1>3 DEF LegInv
  <2>3. poll[p].work[Entry].status \in BROKER_SUCCESS_TRADE_STATUSES \/ Gone'
    BY <1>0, <2>2, GoneStays DEF StatusFits
  <2> QED
    BY <1>0, <1>3, <2>1, <2>3, LegFitsStays DEF StatusFits
<1>4. CASE /\ Delete(NextLeg, "ok")
           /\ rows'[Entry] = [rows[Entry] EXCEPT !.legStates[NextLeg] = "Canceled"]
  <2>1. TruthfulDelete => broker'[NextLeg].st = "canceled"
    BY <1>0, <1>4, DeleteKeeps DEF Answers
  <2>2. /\ \A l \in Legs : rows'[Entry].legStates[l]
                             = IF l = NextLeg THEN "Canceled" ELSE rows[Entry].legStates[l]
        /\ rows'[Entry].status = rows[Entry].status
    <3> DEFINE leg == NextLeg  row == rows[Entry]  new == rows'[Entry]
    <3>1. row \in TradeRow /\ leg \in Legs /\ new = [row EXCEPT !.legStates[leg] = "Canceled"]
      BY <1>0, <1>4
    <3> HIDE DEF leg, row, new
    <3>2. /\ new.legStates = [row.legStates EXCEPT ![leg] = "Canceled"]
          /\ row.legStates \in [Legs -> LegState] /\ new.status = row.status
      BY <3>1 DEF TradeRow
    <3>3. /\ \A l \in Legs : new.legStates[l] = IF l = leg THEN "Canceled" ELSE row.legStates[l]
          /\ new.status = row.status
      BY <3>2
    <3> QED
      BY <3>3 DEF leg, row, new
  <2>3. mapBrokerStatusToTradeState("canceled") = "Canceled"
    BY DEF mapBrokerStatusToTradeState
  <2> QED
    BY <1>1, <2>1, <2>2, <2>3 DEF LegFits, StatusFits
<1>5. CASE /\ UNCHANGED broker
           /\ rows'[Entry] = applyLegPollResult(rows[Entry], NextLeg, broker[NextLeg])
  <2>1. /\ \A l \in Legs : rows'[Entry].legStates[l]
                             = IF l = NextLeg THEN mapBrokerStatusToTradeState(broker[NextLeg].st)
                               ELSE rows[Entry].legStates[l]
        /\ rows'[Entry].status = rows[Entry].status
    <3> DEFINE leg == NextLeg  row == rows[Entry]  new == rows'[Entry]
               state == mapBrokerStatusToTradeState(broker[leg].st)
    <3>1. row \in TradeRow /\ leg \in Legs /\ new = [row EXCEPT !.legStates[leg] = state]
      BY <1>0, <1>5 DEF applyLegPollResult
    <3> HIDE DEF leg, row, new, state
    <3>2. /\ new.legStates = [row.legStates EXCEPT ![leg] = state]
          /\ row.legStates \in [Legs -> LegState] /\ new.status = row.status
      BY <3>1 DEF TradeRow
    <3>3. /\ \A l \in Legs : new.legStates[l] = IF l = leg THEN state ELSE row.legStates[l]
          /\ new.status = row.status
      BY <3>2
    <3> QED
      BY <3>3 DEF leg, row, new, state
  <2> QED
    BY <1>1, <1>5, <2>1 DEF LegFits, StatusFits
<1> QED
  BY <1>0, <1>2, <1>3, <1>4, <1>5, RowWrites

\* So does every working copy.
LEMMA EntryWorkNext ==
    ASSUME Typed, LegInv, [Next]_vars, NEW p \in Poller
    PROVE  /\ TruthfulDelete => \A l \in Legs : LegFits(broker', poll'[p].work[Entry], l)
           /\ poll'[p].pc # "idle" => StatusFits(poll[p].work[Entry])'
<1>0. /\ BrokerKeeps /\ rows[Entry] \in TradeRow /\ Entry \in Rows
      /\ poll[p].work[Entry] \in TradeRow
  BY BrokerMoves, Names DEF Typed, BracketTypes, PollRec
<1>1. /\ TruthfulDelete => \A l \in Legs : LegFits(broker', rows[Entry], l)
      /\ rows[Entry].status \in BROKER_SUCCESS_TRADE_STATUSES \/ Gone'
  BY <1>0, LegFitsStays, GoneStays DEF LegInv, StatusFits
<1>2. /\ TruthfulDelete => \A l \in Legs : LegFits(broker', poll[p].work[Entry], l)
      /\ poll[p].pc # "idle" =>
            poll[p].work[Entry].status \in BROKER_SUCCESS_TRADE_STATUSES \/ Gone'
  BY <1>0, LegFitsStays, GoneStays DEF LegInv, StatusFits
<1> DEFINE Goal == /\ TruthfulDelete => \A l \in Legs : LegFits(broker', poll'[p].work[Entry], l)
                   /\ poll'[p].pc # "idle" => StatusFits(poll[p].work[Entry])'
<1>3. CASE /\ poll'[p].work[Entry] = poll[p].work[Entry]
           /\ poll'[p].pc # "idle" => poll[p].pc # "idle"
  BY <1>2, <1>3 DEF StatusFits
<1>4. CASE poll'[p].work[Entry] = rows[Entry]
  BY <1>1, <1>4 DEF StatusFits
<1>5. CASE poll'[p].work[Entry] = NoRow /\ poll'[p].pc = "idle"
  <2>1. \A l \in Legs : ~isTerminalTradeState(NoRow.legStates[l])
    BY NothingType DEF isTerminalTradeState, TERMINAL_TRADE_STATES, Absent
  <2> QED
    BY <1>5, <2>1 DEF LegFits
<1>6. CASE /\ UNCHANGED broker
           /\ poll'[p].work[Entry] = applyTradePollResult(poll[p].work[Entry], broker[Entry])
  <2>1. StatusFits(applyTradePollResult(poll[p].work[Entry], broker[Entry]))
    BY <1>0, PolledStatus
  <2>2. poll'[p].work[Entry].legStates = poll[p].work[Entry].legStates
    BY <1>0, <1>6 DEF applyTradePollResult, TradeRow
  <2>3. StatusFits(poll[p].work[Entry])'
    BY <1>6, <2>1 DEF StatusFits, Gone
  <2> QED
    BY <1>2, <2>2, <2>3 DEF LegFits
<1>7. ASSUME UNCHANGED broker, poll[p].pc # "idle", NEW leg \in Legs,
             poll'[p].work[Entry] = applyLegPollResult(poll[p].work[Entry], leg, broker[leg])
      PROVE  Goal
  <2>1. /\ \A l \in Legs : poll'[p].work[Entry].legStates[l]
                             = IF l = leg THEN mapBrokerStatusToTradeState(broker[leg].st)
                               ELSE poll[p].work[Entry].legStates[l]
        /\ poll'[p].work[Entry].status = poll[p].work[Entry].status
    <3> DEFINE row == poll[p].work[Entry]  new == poll'[p].work[Entry]
               state == mapBrokerStatusToTradeState(broker[leg].st)
    <3>1. row \in TradeRow /\ leg \in Legs /\ new = [row EXCEPT !.legStates[leg] = state]
      BY <1>0, <1>7 DEF applyLegPollResult
    <3> HIDE DEF row, new, state
    <3>2. /\ new.legStates = [row.legStates EXCEPT ![leg] = state]
          /\ row.legStates \in [Legs -> LegState] /\ new.status = row.status
      BY <3>1 DEF TradeRow
    <3>3. /\ \A l \in Legs : new.legStates[l] = IF l = leg THEN state ELSE row.legStates[l]
          /\ new.status = row.status
      BY <3>2
    <3> QED
      BY <3>3 DEF row, new, state
  <2> QED
    BY <1>2, <1>7, <2>1 DEF LegFits, StatusFits
<1>8. ASSUME poll[p].pc # "idle", NEW qty,
             poll'[p].work[Entry] = [poll[p].work[Entry] EXCEPT !.qty = qty]
      PROVE  Goal
  <2>1. /\ poll'[p].work[Entry].legStates = poll[p].work[Entry].legStates
        /\ poll'[p].work[Entry].status = poll[p].work[Entry].status
    BY <1>0, <1>8 DEF TradeRow
  <2> QED
    BY <1>2, <1>8, <2>1 DEF LegFits, StatusFits
<1>9. \/ /\ poll'[p].work[Entry] = poll[p].work[Entry]
         /\ poll'[p].pc # "idle" => poll[p].pc # "idle"
      \/ poll'[p].work[Entry] = rows[Entry]
      \/ poll'[p].work[Entry] = NoRow /\ poll'[p].pc = "idle"
      \/ /\ UNCHANGED broker
         /\ poll'[p].work[Entry] = applyTradePollResult(poll[p].work[Entry], broker[Entry])
      \/ /\ UNCHANGED broker /\ poll[p].pc # "idle"
         /\ \E l \in Legs :
               poll'[p].work[Entry] = applyLegPollResult(poll[p].work[Entry], l, broker[l])
      \/ /\ poll[p].pc # "idle"
         /\ \E qty : poll'[p].work[Entry] = [poll[p].work[Entry] EXCEPT !.qty = qty]
  <2> HIDE DEF Goal
  <2> QED
    BY <1>0, WorkWrites
<1>10. Goal
  <2>1. CASE \E l \in Legs : /\ UNCHANGED broker /\ poll[p].pc # "idle"
                            /\ poll'[p].work[Entry] =
                                 applyLegPollResult(poll[p].work[Entry], l, broker[l])
    BY <1>7, <2>1
  <2>2. CASE \E qty : /\ poll[p].pc # "idle"
                      /\ poll'[p].work[Entry] = [poll[p].work[Entry] EXCEPT !.qty = qty]
    BY <1>8, <2>2
  <2> QED
    BY <1>3, <1>4, <1>5, <1>6, <1>9, <2>1, <2>2
<1> QED
  BY <1>10

\* No leg leaves the liquidation's list alive.
LEMMA ListNext ==
    ASSUME Typed, LegInv, [Next]_vars, TruthfulDelete, sell'.pc \in {"legs", "repoll"}
    PROVE  \A l \in Legs : l \in sell'.todo \/ ~Live(l)'
<1>0. /\ BrokerKeeps /\ sell \in SellRec /\ NextLeg \in Legs /\ BracketTypes /\ EntryInv
      /\ Legs \subseteq Orders /\ GiveUp.pc = "idle"
  BY BrokerMoves, NextLegIsLeft, GiveUpType, Names DEF Typed, BracketTypes
<1>1. \A l \in Legs : ~Live(l) => ~Live(l)'
  BY <1>0 DEF BrokerKeeps
<1>2. CASE sell.pc \in {"legs", "repoll"} /\ sell'.todo = sell.todo
  BY <1>1, <1>2 DEF LegInv
<1>3. CASE LookUpLegs
  <2>1. sell' = [sell EXCEPT !.pc = "legs",
            !.todo = IF rows[Entry].status \in BROKER_SUCCESS_TRADE_STATUSES
                     THEN {l \in Legs : Pollable(rows, l)} ELSE {}]
    BY <1>3 DEF LookUpLegs
  <2>2. sell'.todo = IF rows[Entry].status \in BROKER_SUCCESS_TRADE_STATUSES
                     THEN {l \in Legs : Pollable(rows, l)} ELSE {}
    BY <1>0, <2>1 DEF SellRec
  <2>3. CASE rows[Entry].status \in BROKER_SUCCESS_TRADE_STATUSES
    <3> SUFFICES ASSUME NEW l \in Legs, l \notin sell'.todo PROVE ~Live(l)'
      OBVIOUS
    <3>1. isTerminalTradeState(rows[Entry].legStates[l])
      BY <2>2, <2>3 DEF Pollable, RowOf, BROKER_SUCCESS_TRADE_STATUSES, Absent
    <3>2. LegFits(broker, rows[Entry], l)
      BY DEF LegInv
    <3> QED
      BY <1>1, <3>1, <3>2, TerminalIsDead
  <2>4. CASE rows[Entry].status \notin BROKER_SUCCESS_TRADE_STATUSES
    BY <1>0, <1>1, <2>4 DEF LegInv, StatusFits, EntryInv
  <2> QED
    BY <2>3, <2>4
<1>4. ASSUME NEW answer \in Answers, CancelLeg(answer)
      PROVE  \A l \in Legs : l \in sell'.todo \/ ~Live(l)'
  <2>1. sell.pc = "legs" /\ Delete(NextLeg, answer)
    BY <1>4 DEF CancelLeg
  <2>2. CASE answer = "ok"
    <3>1. sell'.todo = sell.todo \ {NextLeg}
      BY <1>0, <1>4, <2>2 DEF CancelLeg, SellRec
    <3>2. broker'[NextLeg].st = "canceled"
      BY <1>0, <2>1, <2>2, DeleteKeeps
    <3>3. \A l \in Legs : l = NextLeg => ~Live(l)'
      BY <3>2 DEF Live
    <3>4. \A l \in Legs : l \in sell.todo \/ ~Live(l)
      BY <2>1 DEF LegInv
    <3> QED
      BY <1>1, <3>1, <3>3, <3>4
  <2>3. CASE answer = "refused"
    <3>1. sell'.todo = sell.todo
      BY <1>0, <1>4, <2>3 DEF CancelLeg, SellRec
    <3> QED
      BY <1>2, <2>1, <3>1
  <2>4. CASE answer = "lost"
    BY <1>0, <1>4, <2>4 DEF CancelLeg
  <2> QED
    BY <2>2, <2>3, <2>4 DEF Answers
<1>5. CASE RepollLeg
  <2> DEFINE row == applyLegPollResult(rows[Entry], NextLeg, broker[NextLeg])
  <2>1. sell.pc = "repoll" /\ UNCHANGED broker
    BY <1>5 DEF RepollLeg
  <2>2. /\ isTerminalTradeState(row.legStates[NextLeg])
        /\ sell' = [sell EXCEPT !.pc = "legs", !.todo = @ \ {NextLeg}]
    BY <1>0, <1>5 DEF RepollLeg
  <2>3. row.legStates[NextLeg] = mapBrokerStatusToTradeState(broker[NextLeg].st)
    <3>1. rows[Entry] \in TradeRow
      BY Names DEF Typed, BracketTypes
    <3>2. rows[Entry].legStates \in [Legs -> LegState]
      BY <3>1 DEF TradeRow
    <3>3. row.legStates = [rows[Entry].legStates EXCEPT ![NextLeg] =
                             mapBrokerStatusToTradeState(broker[NextLeg].st)]
      BY <3>1 DEF applyLegPollResult, TradeRow
    <3> QED
      BY <1>0, <3>2, <3>3
  <2>4. ~Live(NextLeg)
    BY <2>2, <2>3, MappingType DEF Live, Final
  <2> HIDE DEF row
  <2>5. sell'.todo = sell.todo \ {NextLeg}
    BY <1>0, <2>2 DEF SellRec
  <2>6. \A l \in Legs : l \in sell'.todo \/ ~Live(l)
    BY <2>1, <2>4, <2>5 DEF LegInv
  <2> QED
    BY <1>1, <2>6
<1>6. \/ UNCHANGED sell
      \/ LookUpLegs \/ RepollLeg
      \/ \E answer \in Answers : CancelLeg(answer)
      \/ sell'.pc \notin {"legs", "repoll"}
  <2>1. CASE StartSell
    BY <2>1 DEF StartSell
  <2>2. ASSUME NEW answer \in Answers, PostSell(answer) PROVE sell'.pc \notin {"legs", "repoll"}
    <3>1. sell' = [sell EXCEPT !.pc = IF answer = "ok" THEN "accepted" ELSE "failed"]
      BY <2>2 DEF PostSell
    <3> QED
      BY <1>0, <3>1 DEF SellRec
  <2>3. CASE RepollLegFails \/ SellRiskRejected \/ SaveSell \/ Crash
    <3>1. sell' = GiveUp
      BY <2>3 DEF RepollLegFails, SellRiskRejected, SaveSell, Crash
    <3> QED
      BY <1>0, <3>1
  <2>4. CASE BrokerStep
    BY <2>4 DEF BrokerStep, EntryFills, LegFills, SellFills, Dies
  <2>5. ASSUME NEW p \in Poller, PollerStep(p) PROVE UNCHANGED sell
    BY <2>5 DEF PollerStep, StartPoll, PollTarget, PollTargetFails, CancelStalePartial, FinishPoll
  <2>6. CASE UNCHANGED vars
    BY <2>6 DEF vars
  <2> QED
    BY <2>1, <2>2, <2>3, <2>4, <2>5, <2>6 DEF Next, SellStep
<1> QED
  BY <1>2, <1>3, <1>4, <1>5, <1>6

\* The legs stay accounted for.
LEMMA LegNext == Typed /\ LegInv /\ [Next]_vars => LegInv'
<1> SUFFICES ASSUME Typed, LegInv, [Next]_vars PROVE LegInv'
  OBVIOUS
<1>1. TruthfulDelete' <=> TruthfulDelete
  BY GivenStays DEF TruthfulDelete, Quirks
<1> QED
  BY <1>1, EntryRowNext, EntryWorkNext, ListNext DEF LegInv

\* If the broker answers DELETEs truly, a leg recorded terminal ended in that state, and
\* no leg can fill once the sell goes out, for any number of liquidations, polls and
\* crashes (cancelBracketLegsBeforeSell of server.ts).
THEOREM LegsClear == Spec => []LegsClearedBeforeSell
<1>1. Init => Typed /\ LegInv
  BY TypesInit, LegInit DEF Typed
<1>2. Typed /\ LegInv /\ [Next]_vars => (Typed /\ LegInv)'
  BY TypesNext, LegNext
<1>3. LegInv => LegsClearedBeforeSell
  BY DEF LegInv, LegFits, LegsClearedBeforeSell, RecordedTerminalIsTrue
<1> QED
  BY <1>1, <1>2, <1>3, PTL DEF Spec

-------------------------------------------------------------------------------
(* The course of one order *)

\* No remainder of a part fill is canceled for its age.
NoneStale == \A p \in Poller : poll[p].pc # "cancel"

\* Where partial fills do not outlive their age, none is canceled.
LEMMA NoneStaleNext ==
    ASSUME Typed, NoneStale, ~given.staleCancel, [Next]_vars
    PROVE  NoneStale'
<1>0. poll \in [Poller -> PollRec]
  BY DEF Typed, BracketTypes
<1>1. CASE UNCHANGED poll
  BY <1>1 DEF NoneStale
<1>2. CASE Crash
  <2>1. \A p \in Poller : poll'[p] = NotPolling
    BY <1>2 DEF Crash
  <2> QED
    BY <2>1, NothingType DEF NoneStale
<1>3. ASSUME NEW p \in Poller, PollerStep(p) PROVE NoneStale'
  <2>1. \A x \in Poller : x # p => poll'[x] = poll[x]
    BY <1>3, OtherPoll DEF Typed
  <2>2. poll'[p].pc # "cancel"
    <3>1. CASE StartPoll(p)
      BY <1>0, <3>1 DEF StartPoll
    <3>2. CASE PollTarget(p)
      <4> DEFINE o == NextTarget(p)
                 r == RowOf(o)
                 row == IF o \in Legs THEN applyLegPollResult(poll[p].work[r], o, broker[o])
                        ELSE applyTradePollResult(poll[p].work[r], broker[o])
      <4>1. poll' = [poll EXCEPT ![p] = [poll[p] EXCEPT
                        !.work[r] = row, !.touched = @ \cup {r}, !.pc = "get",
                        !.todo = @ \ {o}]]
        BY <3>2 DEF PollTarget
      <4> HIDE DEF o, r, row
      <4> QED
        BY <1>0, <4>1 DEF PollRec
    <3>3. CASE PollTargetFails(p)
      <4> DEFINE t == NextTarget(p)
                 u == RowOf(t)
      <4>1. /\ poll' = [poll EXCEPT ![p] = [poll[p] EXCEPT !.touched = @ \cup {u}, !.todo = @ \ {t}]]
            /\ poll[p].pc = "get"
        BY <3>3 DEF PollTargetFails
      <4> HIDE DEF t, u
      <4> QED
        BY <1>0, <4>1 DEF PollRec
    <3>4. CASE FinishPoll(p)
      BY <1>0, <3>4, NothingType DEF FinishPoll
    <3>5. ASSUME NEW answer \in Answers, CancelStalePartial(p, answer) PROVE FALSE
      BY <3>5 DEF CancelStalePartial, NoneStale
    <3> QED
      BY <1>3, <3>1, <3>2, <3>3, <3>4, <3>5 DEF PollerStep
  <2> QED
    BY <2>1, <2>2 DEF NoneStale
<1> QED
  BY <1>1, <1>2, <1>3
  DEF Next, vars, SellStep, BrokerStep, EntryFills, LegFills, SellFills, Dies, StartSell,
      LookUpLegs, CancelLeg, RepollLeg, RepollLegFails, SellRiskRejected, PostSell, SaveSell

\* What can become of one order, when no remainder is canceled for its age: it fills, a
\* held leg starts to work, a working order ends, or the sell is posted.
OrderFills(o) ==
    /\ broker[o].st \in {"new", "partially_filled"}
    /\ \E qty \in 1..Q : /\ broker'[o] = FillTo(o, qty) /\ qty > broker[o].filled
                         /\ o \in Legs => qty = Q \/ "legPartial" \in Quirks
LegWakes(o) ==
    o \in Legs /\ broker[o].st = "held" /\ broker'[o] = [broker[o] EXCEPT !.st = "new"]
OrderEnds(o) ==
    /\ Live(o)
    /\ \E st \in Final \ {"filled"} : broker'[o] = [broker[o] EXCEPT !.st = st]
    /\ o \in Rows => broker[o].filled = 0 \/ "partialDies" \in Quirks
SellPosted(o) ==
    /\ o = Sell(sell.n) /\ (PostSell("ok") \/ PostSell("lost"))
    /\ broker'[o] = [st |-> "new", filled |-> 0, qty |-> sell.qty]

\* These are all the things that can become of it.
LEMMA OrderMoves ==
    ASSUME Typed, NoneStale, [Next]_vars, NEW o \in Orders
    PROVE  \/ broker'[o] = broker[o]
           \/ OrderFills(o) \/ LegWakes(o) \/ OrderEnds(o) \/ SellPosted(o)
<1> DEFINE Goal == \/ broker'[o] = broker[o]
                   \/ OrderFills(o) \/ LegWakes(o) \/ OrderEnds(o) \/ SellPosted(o)
<1>0. /\ BracketTypes /\ broker \in [Orders -> OrderRec] /\ broker[o] \in OrderRec
      /\ Entry \in Orders /\ Legs \subseteq Orders /\ Sells \subseteq Orders
      /\ Legs \cap Rows = {} /\ Entry \in Rows
      /\ NextLeg \in Legs /\ Q \in Nat
  BY Names, NextLegIsLeft, BracketAssumption DEF Typed, BracketTypes, Q
<1>1. CASE UNCHANGED broker
  BY <1>1
<1>2. ASSUME NEW qty \in 1..Q, EntryFills(qty) PROVE Goal
  <2>1. CASE o = Entry
    <3>1. broker'[o] = FillTo(o, qty) /\ o \notin Legs
      BY <1>0, <1>2, <2>1 DEF EntryFills
    <3> QED
      BY <1>2, <2>1, <3>1 DEF EntryFills, OrderFills
  <2>2. CASE o # Entry
    BY <1>0, <1>2, <2>2 DEF EntryFills, LegWakes
  <2> QED
    BY <2>1, <2>2
<1>3. ASSUME NEW leg \in Legs, NEW qty \in 1..Q, LegFills(leg, qty) PROVE Goal
  <2> DEFINE other == Sibling(leg)
  <2>1. other \in Legs /\ other # leg
    BY SiblingIsOther
  <2>2. /\ broker' = [broker EXCEPT ![leg] = FillTo(leg, qty),
                                    ![other].st = IF Live(other) THEN "canceled" ELSE @]
        /\ qty > broker[leg].filled /\ broker[leg].st \in {"new", "partially_filled"}
        /\ qty = Q \/ "legPartial" \in Quirks
    BY <1>3 DEF LegFills
  <2> HIDE DEF other
  <2>3. CASE o = leg
    <3>1. broker'[o] = FillTo(o, qty)
      BY <1>0, <2>1, <2>2, <2>3
    <3> QED
      BY <2>2, <2>3, <3>1 DEF OrderFills
  <2>4. CASE o = other
    <3>1. broker'[o] = [broker[o] EXCEPT !.st = IF Live(o) THEN "canceled" ELSE broker[o].st]
      BY <1>0, <2>1, <2>2, <2>4
    <3>2. CASE Live(o)
      <4>1. broker'[o] = [broker[o] EXCEPT !.st = "canceled"] /\ o \notin Rows
        BY <1>0, <2>1, <2>4, <3>1, <3>2
      <4> QED
        BY <3>2, <4>1 DEF OrderEnds, Final
    <3>3. CASE ~Live(o)
      <4>1. broker'[o] = [broker[o] EXCEPT !.st = broker[o].st]
        BY <3>1, <3>3
      <4> QED
        BY <1>0, <4>1 DEF OrderRec
    <3> QED
      BY <3>2, <3>3
  <2>5. CASE o # leg /\ o # other
    BY <1>0, <2>1, <2>2, <2>5
  <2> QED
    BY <2>3, <2>4, <2>5
<1>4. ASSUME NEW s \in Sells, NEW qty \in 1..Q, SellFills(s, qty) PROVE Goal
  <2>1. CASE o = s
    <3>1. broker'[o] = FillTo(o, qty) /\ o \notin Legs
      BY <1>0, <1>4, <2>1, Names DEF SellFills
    <3> QED
      BY <1>4, <2>1, <3>1 DEF SellFills, OrderFills
  <2>2. CASE o # s
    BY <1>0, <1>4, <2>2 DEF SellFills
  <2> QED
    BY <2>1, <2>2
<1>5. ASSUME NEW x \in Orders, Live(x), o # x
      PROVE  \/ CancelAt(x)[o] = broker[o]
             \/ /\ o \in Legs /\ Live(o) /\ CancelAt(x)[o] = [broker[o] EXCEPT !.st = "canceled"]
  BY <1>5 DEF CancelAt
<1>6. ASSUME NEW x \in Orders, NEW st \in given.deaths, Dies(x, st) PROVE Goal
  <2>1. /\ Live(x) /\ broker' = [CancelAt(x) EXCEPT ![x].st = st]
        /\ broker[x].filled = 0 \/ "partialDies" \in Quirks
    BY <1>6 DEF Dies
  <2>2. st \in Final \ {"filled"}
    BY <1>0, BracketAssumption DEF BracketTypes, Final
  <2>3. DOMAIN CancelAt(x) = Orders
    BY DEF CancelAt
  <2>4. CASE o = x
    <3>1. CancelAt(o)[o] = [broker[o] EXCEPT !.st = "canceled"]
      BY DEF CancelAt
    <3>2. broker'[o] = [CancelAt(o)[o] EXCEPT !.st = st]
      <4> HIDE DEF CancelAt
      <4> QED
        BY <2>1, <2>3, <2>4
    <3>3. broker'[o] = [broker[o] EXCEPT !.st = st]
      BY <1>0, <3>1, <3>2 DEF OrderRec
    <3> QED
      BY <2>1, <2>2, <2>4, <3>3 DEF OrderEnds
  <2>5. CASE o # x
    <3>1. broker'[o] = CancelAt(x)[o]
      BY <2>1, <2>3, <2>5
    <3>2. CASE CancelAt(x)[o] = broker[o]
      BY <3>1, <3>2
    <3>3. CASE /\ o \in Legs /\ Live(o)
               /\ CancelAt(x)[o] = [broker[o] EXCEPT !.st = "canceled"]
      BY <1>0, <3>1, <3>3 DEF OrderEnds, Final
    <3> QED
      BY <1>5, <2>1, <2>5, <3>2, <3>3
  <2> QED
    BY <2>4, <2>5
<1>7. ASSUME NEW answer \in Answers, CancelLeg(answer) PROVE Goal
  <2>1. Delete(NextLeg, answer)
    BY <1>7 DEF CancelLeg
  <2>2. CASE UNCHANGED broker
    BY <2>2
  <2>3. CASE Live(NextLeg) /\ broker' = CancelAt(NextLeg)
    <3>1. CASE o = NextLeg
      <4>1. broker'[o] = [broker[o] EXCEPT !.st = "canceled"] /\ o \notin Rows
        BY <1>0, <2>3, <3>1 DEF CancelAt
      <4> QED
        BY <2>3, <3>1, <4>1 DEF OrderEnds, Final
    <3>2. CASE o # NextLeg
      <4>1. CASE CancelAt(NextLeg)[o] = broker[o]
        BY <2>3, <4>1
      <4>2. CASE /\ o \in Legs /\ Live(o)
                 /\ CancelAt(NextLeg)[o] = [broker[o] EXCEPT !.st = "canceled"]
        BY <1>0, <2>3, <4>2 DEF OrderEnds, Final
      <4> QED
        BY <1>0, <1>5, <2>3, <3>2, <4>1, <4>2
    <3> QED
      BY <3>1, <3>2
  <2> QED
    BY <2>1, <2>2, <2>3 DEF Delete, Answers
<1>8. ASSUME NEW answer \in Answers, PostSell(answer) PROVE Goal
  <2>1. CASE UNCHANGED broker
    BY <2>1
  <2>2. CASE /\ answer # "refused"
             /\ broker' = [broker EXCEPT ![Sell(sell.n)] =
                             [st |-> "new", filled |-> 0, qty |-> sell.qty]]
    <3>1. CASE o = Sell(sell.n)
      <4>1. broker'[o] = [st |-> "new", filled |-> 0, qty |-> sell.qty]
        BY <1>0, <2>2, <3>1
      <4> QED
        BY <1>8, <2>2, <3>1, <4>1 DEF SellPosted, Answers
    <3>2. CASE o # Sell(sell.n)
      BY <1>0, <2>2, <3>2
    <3> QED
      BY <3>1, <3>2
  <2> QED
    BY <1>8, <2>1, <2>2 DEF PostSell
<1>9. ASSUME NEW p \in Poller, PollerStep(p) PROVE UNCHANGED broker
  BY <1>9 DEF PollerStep, StartPoll, PollTarget, PollTargetFails, CancelStalePartial,
     FinishPoll, NoneStale
<1>10. CASE BrokerStep
  BY <1>2, <1>3, <1>4, <1>6, <1>10 DEF BrokerStep
<1>11. CASE SellStep
  <2>1. CASE StartSell \/ LookUpLegs \/ RepollLeg \/ RepollLegFails \/ SellRiskRejected \/ SaveSell
    BY <1>1, <2>1 DEF StartSell, LookUpLegs, RepollLeg, RepollLegFails, SellRiskRejected, SaveSell
  <2> QED
    BY <1>7, <1>8, <1>11, <2>1 DEF SellStep
<1>12. CASE Crash \/ UNCHANGED vars
  BY <1>1, <1>12 DEF Crash, vars
<1> QED
  BY <1>1, <1>9, <1>10, <1>11, <1>12 DEF Next

-------------------------------------------------------------------------------
(* The plan of a filled portion *)

\* An entry row with a recorded fill leaves the statuses its plan is found under only once
\* the order is over, for any quantities, stale remainders, deaths of orders that filled in
\* part, untrue answers to a cancel, pollers, liquidations and crashes
\* (latestBuySideExitPlanForSymbol, orderStatusPoller.ts:503).
THEOREM PlanKept == Spec => []PlanLostOnlyAtTheEnd
<1>1. Init => Typed /\ FillInv /\ LegInv
  BY TypesInit, FillInit, LegInit DEF Typed
<1>2. Typed /\ FillInv /\ LegInv /\ [Next]_vars => (Typed /\ FillInv /\ LegInv)'
  BY TypesNext, FillNext, LegNext
<1>3. LegInv => PlanLostOnlyAtTheEnd
  BY DEF LegInv, StatusFits, PlanLostOnlyAtTheEnd
<1> QED
  BY <1>1, <1>2, <1>3, PTL DEF Spec

-------------------------------------------------------------------------------
(* The ledger *)

\* Where orders fill whole: an order that did not fill has no fill, legs never fill in
\* part, and a refused sell has no order.
OrderInv ==
    WholeFills =>
      /\ NoneStale
      /\ \A o \in Orders : broker[o].st \notin {"filled", "partially_filled"}
                             => broker[o].filled = 0
      /\ \A l \in Legs : broker[l].qty = Q /\ broker[l].st # "partially_filled"
      /\ \A s \in Sells : broker[s].st # "held"
      /\ sell.pc = "failed" => broker[Sell(sell.n)].st = Absent

\* An order fills to a quantity of its own.
LEMMA FillIsWhole ==
    ASSUME Typed, NEW o \in Orders, NEW qty \in Nat
    PROVE  /\ FillTo(o, qty).qty = broker[o].qty
           /\ FillTo(o, qty).st = IF qty = broker[o].qty THEN "filled" ELSE "partially_filled"
BY DEF Typed, BracketTypes, OrderRec, FillTo

\* Nothing has filled.
LEMMA OrderInit == Init => OrderInv
<1> SUFFICES ASSUME Init PROVE OrderInv
  OBVIOUS
<1>1. NoneStale /\ sell.pc # "failed"
  BY NothingType DEF Init, NoneStale
<1>2. broker[Entry] = [st |-> "new", filled |-> 0, qty |-> Q]
  BY Names DEF Init
<1>3. \A l \in Legs : broker[l] = [st |-> "held", filled |-> 0, qty |-> Q]
  BY Names DEF Init
<1>4. \A s \in Sells : broker[s] = [st |-> Absent, filled |-> 0, qty |-> 0]
  <2>1. \A s \in Sells : s \in Orders /\ s # Entry /\ s \notin Legs
    BY Names
  <2> QED
    BY <2>1 DEF Init
<1> QED
  BY <1>1, <1>2, <1>3, <1>4 DEF OrderInv, Orders, Rows, Absent

\* Whole fills and empty deaths keep it so.
LEMMA OrderNext == Typed /\ OrderInv /\ [Next]_vars => OrderInv'
<1> SUFFICES ASSUME Typed, OrderInv, [Next]_vars, WholeFills' PROVE OrderInv'
  BY DEF OrderInv
<1>0. /\ WholeFills /\ Quirks = {} /\ ~given.staleCancel /\ Q' = Q /\ Q \in Nat /\ BracketTypes
      /\ broker \in [Orders -> OrderRec] /\ Legs \subseteq Orders /\ Sells \subseteq Orders
      /\ Legs \cap Rows = {} /\ Sells \subseteq Rows
  BY GivenStays, Names, BracketAssumption DEF WholeFills, Quirks, Q, Typed, BracketTypes
<1>1. /\ NoneStale
      /\ \A o \in Orders : broker[o].st \notin {"filled", "partially_filled"}
                             => broker[o].filled = 0
      /\ \A l \in Legs : broker[l].qty = Q /\ broker[l].st # "partially_filled"
      /\ \A s \in Sells : broker[s].st # "held"
      /\ sell.pc = "failed" => broker[Sell(sell.n)].st = Absent
  BY <1>0 DEF OrderInv
<1>2. NoneStale'
  BY <1>0, <1>1, NoneStaleNext
<1>3. ASSUME NEW o \in Orders
      PROVE  /\ broker'[o].st \notin {"filled", "partially_filled"} => broker'[o].filled = 0
             /\ o \in Legs => broker'[o].qty = Q /\ broker'[o].st # "partially_filled"
             /\ o \in Sells => broker'[o].st # "held"
  <2>0. broker[o] \in OrderRec /\ (Live(o) /\ o \in Legs => broker[o].filled = 0)
    BY <1>0, <1>1 DEF Live
  <2>1. CASE broker'[o] = broker[o]
    BY <1>1, <2>1
  <2>2. CASE OrderFills(o)
    <3>1. PICK qty \in 1..Q : /\ broker'[o] = FillTo(o, qty)
                              /\ o \in Legs => qty = Q
      BY <1>0, <2>2 DEF OrderFills
    <3> QED
      BY <1>0, <1>1, <3>1, FillIsWhole
  <2>3. CASE LegWakes(o)
    <3>1. /\ broker'[o].st = "new" /\ broker'[o].filled = broker[o].filled
          /\ broker'[o].qty = broker[o].qty /\ broker[o].st = "held" /\ o \in Legs
      BY <2>0, <2>3 DEF LegWakes, OrderRec
    <3> QED
      BY <1>0, <1>1, <3>1
  <2>4. CASE OrderEnds(o)
    <3>1. /\ broker'[o].st \in Final \ {"filled"} /\ broker'[o].filled = broker[o].filled
          /\ broker'[o].qty = broker[o].qty /\ broker[o].filled = 0
      BY <1>0, <2>0, <2>4 DEF OrderEnds, OrderRec, Orders
    <3> QED
      BY <1>1, <3>1 DEF Final
  <2>5. CASE SellPosted(o)
    <3>1. o \in Sells
      BY <1>0, <2>5 DEF SellPosted, PostSell, BracketTypes, Sells
    <3> QED
      BY <1>0, <2>5, <3>1 DEF SellPosted
  <2> QED
    BY <1>1, <2>1, <2>2, <2>3, <2>4, <2>5, OrderMoves
<1>4. ASSUME sell'.pc = "failed" PROVE broker'[Sell(sell'.n)].st = Absent
  <2>1. sell \in SellRec /\ GiveUp.pc = "idle"
    BY <1>0, GiveUpType DEF BracketTypes
  <2>2. CASE UNCHANGED sell
    <3>1. Sell(sell.n) \in Sells /\ broker[Sell(sell.n)].st = Absent
      BY <1>0, <1>1, <1>4, <2>2 DEF BracketTypes, Sells
    <3>2. \A answer \in Answers : ~PostSell(answer)
      BY <1>4, <2>2 DEF PostSell
    <3>3. broker'[Sell(sell.n)] = broker[Sell(sell.n)]
      BY <1>0, <3>1, <3>2, AbsentStays DEF Typed
    <3> QED
      BY <2>2, <3>1, <3>3
  <2>3. CASE \E answer \in Answers : PostSell(answer)
    <3>1. PICK answer \in Answers : PostSell(answer)
      BY <2>3
    <3>2. /\ sell' = [sell EXCEPT !.pc = IF answer = "ok" THEN "accepted" ELSE "failed"]
          /\ sell.pc = "legs" /\ (answer = "lost" => "lostResponse" \in Quirks)
          /\ answer = "refused" => UNCHANGED broker
      BY <3>1 DEF PostSell
    <3>3. answer = "refused" /\ sell'.n = sell.n
      BY <1>0, <1>4, <2>1, <3>2 DEF Answers, SellRec
    <3> QED
      BY <1>0, <3>2, <3>3 DEF Typed, Unposted, BracketTypes
  <2>4. \/ UNCHANGED sell \/ (\E answer \in Answers : PostSell(answer))
        \/ sell'.pc # "failed"
    <3>1. CASE LookUpLegs \/ RepollLeg
      BY <2>1, <3>1 DEF LookUpLegs, RepollLeg, SellRec
    <3>2. ASSUME NEW answer \in Answers, CancelLeg(answer) PROVE sell'.pc # "failed"
      BY <2>1, <3>2 DEF CancelLeg, SellRec, Answers
    <3>3. CASE StartSell
      BY <3>3 DEF StartSell
    <3>4. CASE RepollLegFails \/ SellRiskRejected \/ SaveSell \/ Crash
      BY <2>1, <3>4 DEF RepollLegFails, SellRiskRejected, SaveSell, Crash
    <3>5. CASE BrokerStep \/ (\E p \in Poller : PollerStep(p)) \/ UNCHANGED vars
      BY <3>5 DEF vars, BrokerStep, EntryFills, LegFills, SellFills, Dies, PollerStep,
         StartPoll, PollTarget, PollTargetFails, CancelStalePartial, FinishPoll
    <3> QED
      BY <3>1, <3>2, <3>3, <3>4, <3>5 DEF Next, SellStep
  <2> QED
    BY <1>4, <2>2, <2>3, <2>4
<1> QED
  BY <1>0, <1>2, <1>3, <1>4 DEF OrderInv

\* The liquidation sells of the past: their one POST is behind them.
Past(s) ==
    \A m \in 1..MaxSells : s = Sell(m) => m < sell.n \/ (m = sell.n /\ sell.pc = "idle")

\* Only such a sell has a row or is polled.
PastInv ==
    /\ \A s \in Sells : rows[s].status # Absent => Past(s)
    /\ \A p \in Poller, s \in Sells :
          poll[p].work[s].status # Absent \/ s \in poll[p].todo => Past(s)

\* A sell of the past stays one.
LEMMA PastStays ==
    ASSUME Typed, [Next]_vars, NEW s \in Sells, Past(s)
    PROVE  Past(s)'
<1>0. sell \in SellRec /\ GiveUp.pc = "idle" /\ GiveUp.n = sell.n /\ sell.n \in Nat
      /\ MaxSells \in Nat
  BY GiveUpType, BracketAssumption DEF Typed, BracketTypes, SellRec
<1>1. \/ UNCHANGED sell \/ sell' = GiveUp
      \/ sell'.n = sell.n /\ sell.pc # "idle"
      \/ sell'.n = sell.n + 1
  <2>1. CASE StartSell
    BY <2>1 DEF StartSell
  <2>2. CASE LookUpLegs \/ RepollLeg
    BY <1>0, <2>2 DEF LookUpLegs, RepollLeg, SellRec
  <2>3. ASSUME NEW answer \in Answers, CancelLeg(answer)
        PROVE  sell' = GiveUp \/ (sell'.n = sell.n /\ sell.pc # "idle")
    BY <1>0, <2>3 DEF CancelLeg, SellRec, Answers
  <2>4. ASSUME NEW answer \in Answers, PostSell(answer) PROVE sell'.n = sell.n /\ sell.pc # "idle"
    BY <1>0, <2>4 DEF PostSell, SellRec
  <2>5. CASE RepollLegFails \/ SellRiskRejected \/ SaveSell \/ Crash
    BY <2>5 DEF RepollLegFails, SellRiskRejected, SaveSell, Crash
  <2>6. CASE BrokerStep \/ (\E p \in Poller : PollerStep(p)) \/ UNCHANGED vars
    BY <2>6 DEF vars, BrokerStep, EntryFills, LegFills, SellFills, Dies, PollerStep,
       StartPoll, PollTarget, PollTargetFails, CancelStalePartial, FinishPoll
  <2> QED
    BY <2>1, <2>2, <2>3, <2>4, <2>5, <2>6 DEF Next, SellStep
<1>2. CASE UNCHANGED sell
  BY <1>2 DEF Past
<1>3. CASE sell' = GiveUp
  BY <1>0, <1>3 DEF Past
<1>4. CASE sell'.n = sell.n /\ sell.pc # "idle"
  BY <1>0, <1>4 DEF Past
<1>5. CASE sell'.n = sell.n + 1
  BY <1>0, <1>5 DEF Past
<1> QED
  BY <1>1, <1>2, <1>3, <1>4, <1>5

\* A sell of the past without an order never gets one.
LEMMA PastAbsent ==
    ASSUME Typed, [Next]_vars, NEW s \in Sells, Past(s), broker[s].st = Absent
    PROVE  broker'[s] = broker[s]
<1>0. /\ BracketTypes /\ EntryInv /\ broker \in [Orders -> OrderRec] /\ sell \in SellRec
      /\ Sells \subseteq Orders
  BY Names DEF Typed, BracketTypes
<1>1. CASE \E answer \in Answers : PostSell(answer)
  <2>1. sell.n \in 1..MaxSells /\ sell.pc = "legs"
    BY <1>0, <1>1 DEF PostSell, BracketTypes
  <2>2. s # Sell(sell.n)
    BY <1>0, <2>1 DEF Past, SellRec
  <2> QED
    BY <1>0, <1>1, <2>2 DEF PostSell
<1>2. CASE \A answer \in Answers : ~PostSell(answer)
  BY <1>0, <1>2, AbsentStays
<1> QED
  BY <1>1, <1>2

\* A sell's row is kept, comes from a finished poll, or is the first of the liquidation.
LEMMA SellWrites ==
    ASSUME Typed, [Next]_vars, NEW s \in Sells
    PROVE  \/ rows'[s] = rows[s]
           \/ \E p \in Poller : poll[p].pc = "get" /\ rows'[s] = poll[p].work[s]
           \/ /\ s = Sell(sell.n) /\ sell' = GiveUp /\ UNCHANGED broker
              /\ \/ rows'[s].status = "Accepted"
                 \/ rows'[s].status = "RiskRejected" /\ sell.pc = "legs"
                 \/ rows'[s].status = "BrokerFailed" /\ sell.pc = "failed"
<1>0. /\ rows \in [Rows -> TradeRow] /\ sell \in SellRec /\ NoRow \in TradeRow
      /\ s \in Rows /\ s # Entry
  BY Names, NothingType DEF Typed, BracketTypes
<1>1. CASE UNCHANGED rows
  BY <1>1
<1>2. ASSUME NEW p \in Poller, FinishPoll(p)
      PROVE  rows'[s] = rows[s] \/ (poll[p].pc = "get" /\ rows'[s] = poll[p].work[s])
  BY <1>0, <1>2 DEF FinishPoll
<1>3. ASSUME NEW status, NEW qty,
             rows' = [rows EXCEPT ![Sell(sell.n)] = [NoRow EXCEPT !.status = status, !.qty = qty]]
      PROVE  rows'[s] = rows[s] \/ (s = Sell(sell.n) /\ rows'[s].status = status)
  <2>1. [NoRow EXCEPT !.status = status, !.qty = qty].status = status
    BY DEF NoRow
  <2> QED
    BY <1>0, <1>3, <2>1
<1>4. CASE SellRiskRejected
  <2>1. rows'[s] = rows[s] \/ (s = Sell(sell.n) /\ rows'[s].status = "RiskRejected")
    BY <1>3, <1>4 DEF SellRiskRejected
  <2> QED
    BY <1>4, <2>1 DEF SellRiskRejected
<1>5. CASE SaveSell
  <2>1. \/ rows'[s] = rows[s]
        \/ /\ s = Sell(sell.n)
           /\ rows'[s].status = IF sell.pc = "accepted" THEN "Accepted" ELSE "BrokerFailed"
    BY <1>3, <1>5 DEF SaveSell
  <2> QED
    BY <1>5, <2>1 DEF SaveSell
<1>6. ASSUME NEW answer \in Answers, CancelLeg(answer) PROVE rows'[s] = rows[s]
  BY <1>0, <1>6 DEF CancelLeg, Answers
<1>7. CASE RepollLeg
  BY <1>0, <1>7 DEF RepollLeg
<1> QED
  BY <1>1, <1>2, <1>4, <1>5, <1>6, <1>7
  DEF Next, vars, SellStep, PollerStep, BrokerStep, EntryFills, LegFills, SellFills,
      Dies, StartPoll, PollTarget, PollTargetFails, CancelStalePartial, StartSell,
      LookUpLegs, PostSell, RepollLegFails, Crash

\* A poll works through the targets it started with.
LEMMA TodoWrites ==
    ASSUME Typed, [Next]_vars, NEW p \in Poller
    PROVE  poll'[p].todo \subseteq poll[p].todo \cup selectPollTargets(rows)
<1>0. poll \in [Poller -> PollRec] /\ poll[p] \in PollRec
  BY DEF Typed, BracketTypes
<1>1. CASE UNCHANGED poll
  BY <1>1
<1>2. CASE Crash
  BY <1>2 DEF Crash, NotPolling
<1>3. ASSUME NEW x \in Poller, x # p, PollerStep(x) PROVE poll'[p] = poll[p]
  BY <1>3, OtherPoll DEF Typed
<1>4. CASE StartPoll(p)
  BY <1>0, <1>4 DEF StartPoll
<1>5. CASE PollTarget(p)
  <2> DEFINE o == NextTarget(p)
             r == RowOf(o)
             row == IF o \in Legs THEN applyLegPollResult(poll[p].work[r], o, broker[o])
                    ELSE applyTradePollResult(poll[p].work[r], broker[o])
  <2>1. PICK stale \in BOOLEAN :
          poll' = [poll EXCEPT ![p] = [poll[p] EXCEPT
                      !.work[r] = row, !.touched = @ \cup {r},
                      !.pc = IF stale THEN "cancel" ELSE "get",
                      !.todo = IF stale THEN @ ELSE @ \ {o}]]
    BY <1>5 DEF PollTarget
  <2> HIDE DEF o, r, row
  <2> QED
    BY <1>0, <2>1 DEF PollRec
<1>6. CASE PollTargetFails(p)
  <2> DEFINE t == NextTarget(p)
             u == RowOf(t)
  <2>1. poll' = [poll EXCEPT ![p] = [poll[p] EXCEPT !.touched = @ \cup {u}, !.todo = @ \ {t}]]
    BY <1>6 DEF PollTargetFails
  <2> HIDE DEF t, u
  <2> QED
    BY <1>0, <2>1 DEF PollRec
<1>7. ASSUME NEW answer \in Answers, CancelStalePartial(p, answer)
      PROVE  poll'[p].todo \subseteq poll[p].todo
  <2> DEFINE t == NextTarget(p)
             qty == IF answer = "ok" THEN poll[p].work[t].filledQty ELSE poll[p].work[t].qty
  <2>1. poll' = [poll EXCEPT ![p] = [poll[p] EXCEPT !.pc = "get", !.todo = @ \ {t},
                                                    !.work[t].qty = qty]]
    BY <1>7 DEF CancelStalePartial
  <2> HIDE DEF t, qty
  <2> QED
    BY <1>0, <2>1 DEF PollRec
<1>8. CASE FinishPoll(p)
  BY <1>0, <1>8 DEF FinishPoll, NotPolling
<1> QED
  BY <1>1, <1>2, <1>3, <1>4, <1>5, <1>6, <1>7, <1>8
  DEF Next, vars, SellStep, PollerStep, BrokerStep, EntryFills, LegFills, SellFills,
      Dies, StartSell, LookUpLegs, CancelLeg, RepollLeg, RepollLegFails, SellRiskRejected,
      PostSell, SaveSell

\* A row keeps its status when only its quantity or its leg states are written.
LEMMA KeptFields ==
    ASSUME NEW row \in TradeRow
    PROVE  /\ \A l, state : /\ [row EXCEPT !.legStates[l] = state].status = row.status
                            /\ [row EXCEPT !.legStates[l] = state].filledQty = row.filledQty
           /\ \A qty : /\ [row EXCEPT !.qty = qty].status = row.status
                       /\ [row EXCEPT !.qty = qty].filledQty = row.filledQty
                       /\ [row EXCEPT !.qty = qty].legStates = row.legStates
           /\ \A l, order : /\ applyLegPollResult(row, l, order).status = row.status
                            /\ applyLegPollResult(row, l, order).filledQty = row.filledQty
BY DEF TradeRow, applyLegPollResult

\* A polled row tells what the order is and, if it filled, how much.
LEMMA PolledFields ==
    ASSUME NEW row \in TradeRow, NEW order \in OrderRec
    PROVE  /\ applyTradePollResult(row, order).status = mapBrokerStatusToTradeState(order.st)
           /\ order.st = "filled" => applyTradePollResult(row, order).filledQty = order.filled
           /\ applyTradePollResult(row, order).legStates = row.legStates
<1> DEFINE mapped == mapBrokerStatusToTradeState(order.st)
           filled == IF mapped \in {"PartiallyFilled", "Filled"}
                     THEN order.filled ELSE row.filledQty
<1>1. order.st = "filled" => filled = order.filled
  BY MappingType
<1>2. applyTradePollResult(row, order) = [row EXCEPT !.status = mapped, !.filledQty = filled]
  BY DEF applyTradePollResult
<1> HIDE DEF filled
<1>3. /\ applyTradePollResult(row, order).status = mapped
      /\ applyTradePollResult(row, order).filledQty = filled
      /\ applyTradePollResult(row, order).legStates = row.legStates
  BY <1>2 DEF TradeRow
<1> QED
  BY <1>1, <1>3

\* No row and no poll is ahead of its sell.
LEMMA PastNext == Typed /\ PastInv /\ [Next]_vars => PastInv'
<1> SUFFICES ASSUME Typed, PastInv, [Next]_vars PROVE PastInv'
  OBVIOUS
<1>0. /\ \A p \in Poller : poll[p].work \in [Rows -> TradeRow]
      /\ sell \in SellRec /\ GiveUp.pc = "idle" /\ GiveUp.n = sell.n
      /\ Sells \subseteq Rows /\ Entry \notin Sells /\ Sells \cap Legs = {} /\ MaxSells \in Nat
  BY GiveUpType, BracketAssumption, Names DEF Typed, BracketTypes, PollRec
<1>1. \A s \in Sells : Past(s) => Past(s)'
  BY PastStays
<1>2. ASSUME NEW s \in Sells, rows'[s].status # Absent PROVE Past(s)'
  <2>1. CASE rows'[s] = rows[s]
    BY <1>1, <1>2, <2>1 DEF PastInv
  <2>2. CASE \E p \in Poller : poll[p].pc = "get" /\ rows'[s] = poll[p].work[s]
    BY <1>1, <1>2, <2>2 DEF PastInv
  <2>3. CASE s = Sell(sell.n) /\ sell' = GiveUp
    <3>1. \A m \in 1..MaxSells : s = Sell(m) => m = sell.n
      BY <2>3, Names
    <3> QED
      BY <1>0, <2>3, <3>1 DEF Past
  <2> QED
    BY <2>1, <2>2, <2>3, SellWrites
<1>3. ASSUME NEW p \in Poller, NEW s \in Sells,
             poll'[p].work[s].status # Absent \/ s \in poll'[p].todo
      PROVE  Past(s)'
  <2>1. ASSUME s \in poll'[p].todo PROVE Past(s)'
    <3>1. s \in poll[p].todo \/ rows[s].status # Absent
      BY <1>0, <2>1, TodoWrites
      DEF selectPollTargets, Pollable, RowOf, POLLABLE_TRADE_STATES, Absent
    <3> QED
      BY <1>1, <3>1 DEF PastInv
  <2>2. ASSUME poll'[p].work[s].status # Absent PROVE Past(s)'
    <3>1. CASE poll'[p].work[s] = poll[p].work[s] \/ poll'[p].work[s] = rows[s]
      BY <1>1, <2>2, <3>1 DEF PastInv
    <3>2. CASE poll'[p].work[s] = NoRow
      BY <2>2, <3>2, NothingType
    <3>3. CASE s \in poll[p].todo
      BY <1>1, <3>3 DEF PastInv
    <3>4. ASSUME NEW qty, poll'[p].work[s] = [poll[p].work[s] EXCEPT !.qty = qty] PROVE Past(s)'
      <4>1. poll'[p].work[s].status = poll[p].work[s].status
        BY <1>0, <3>4, KeptFields
      <4> QED
        BY <1>1, <2>2, <4>1 DEF PastInv
    <3> QED
      BY <1>0, <3>1, <3>2, <3>3, <3>4, WorkWrites
  <2> QED
    BY <1>3, <2>1, <2>2
<1> QED
  BY <1>2, <1>3 DEF PastInv

\* The entry never loses its row, in the store or in a poll.
EntryRecorded ==
    /\ rows[Entry].status # Absent
    /\ \A p \in Poller : poll[p].pc # "idle" => poll[p].work[Entry].status # Absent

LEMMA EntryRecordedNext == Typed /\ EntryRecorded /\ [Next]_vars => EntryRecorded'
<1> SUFFICES ASSUME Typed, EntryRecorded, [Next]_vars PROVE EntryRecorded'
  OBVIOUS
<1>0. /\ \A p \in Poller : poll[p].work[Entry] \in TradeRow
      /\ rows[Entry] \in TradeRow /\ Entry \in Rows
      /\ broker[Entry] \in OrderRec
  BY Names DEF Typed, BracketTypes, PollRec
<1>1. rows'[Entry].status # Absent
  <2>1. CASE rows'[Entry] = rows[Entry]
    BY <2>1 DEF EntryRecorded
  <2>2. CASE \E p \in Poller : poll[p].pc = "get" /\ rows'[Entry] = poll[p].work[Entry]
    BY <2>2 DEF EntryRecorded
  <2>3. CASE rows'[Entry] = [rows[Entry] EXCEPT !.legStates[NextLeg] = "Canceled"]
    <3>1. rows'[Entry].status = rows[Entry].status
      BY <1>0, <2>3, KeptFields
    <3> QED
      BY <3>1 DEF EntryRecorded
  <2>4. CASE rows'[Entry] = applyLegPollResult(rows[Entry], NextLeg, broker[NextLeg])
    <3>1. rows'[Entry].status = rows[Entry].status
      BY <1>0, <2>4, KeptFields
    <3> QED
      BY <3>1 DEF EntryRecorded
  <2> QED
    BY <1>0, <2>1, <2>2, <2>3, <2>4, RowWrites
<1>2. ASSUME NEW p \in Poller, poll'[p].pc # "idle" PROVE poll'[p].work[Entry].status # Absent
  <2>1. CASE poll'[p].work[Entry] = poll[p].work[Entry] /\ poll[p].pc # "idle"
    BY <2>1 DEF EntryRecorded
  <2>2. CASE poll'[p].work[Entry] = rows[Entry]
    BY <2>2 DEF EntryRecorded
  <2>3. CASE poll'[p].work[Entry] = applyTradePollResult(poll[p].work[Entry], broker[Entry])
    <3>1. poll'[p].work[Entry].status = mapBrokerStatusToTradeState(broker[Entry].st)
      BY <1>0, <2>3, PolledFields
    <3> QED
      BY <3>1, MappingType DEF TradeState, Absent
  <2>4. ASSUME poll[p].pc # "idle", NEW l,
               poll'[p].work[Entry] = applyLegPollResult(poll[p].work[Entry], l, broker[l])
        PROVE  poll'[p].work[Entry].status # Absent
    <3>1. poll'[p].work[Entry].status = poll[p].work[Entry].status
      BY <1>0, <2>4, KeptFields
    <3> QED
      BY <2>4, <3>1 DEF EntryRecorded
  <2>5. ASSUME poll[p].pc # "idle", NEW qty,
               poll'[p].work[Entry] = [poll[p].work[Entry] EXCEPT !.qty = qty]
        PROVE  poll'[p].work[Entry].status # Absent
    <3>1. poll'[p].work[Entry].status = poll[p].work[Entry].status
      BY <1>0, <2>5, KeptFields
    <3> QED
      BY <2>5, <3>1 DEF EntryRecorded
  <2> QED
    BY <1>0, <1>2, <2>1, <2>2, <2>3, <2>4, <2>5, WorkWrites
<1> QED
  BY <1>1, <1>2 DEF EntryRecorded

\* A row that is no longer polled tells what became of its order: the whole fill, or that
\* it is over without one.
Told(b, row, r) ==
    /\ row.status = "Filled" => row.filledQty = b[r].filled
    /\ row.status \notin POLLABLE_TRADE_STATES \cup {"Filled", Absent}
         => b[r].st \in (Final \ {"filled"}) \cup {Absent}

\* Rows and the pollers' copies tell it, where orders fill whole.
ToldInv ==
    WholeFills => \A r \in Rows : /\ Told(broker, rows[r], r)
                                  /\ \A p \in Poller : Told(broker, poll[p].work[r], r)

\* What a row tells of its order stays true.
LEMMA ToldStays ==
    ASSUME Typed, [Next]_vars, NEW r \in Rows, NEW row, Told(broker, row, r),
           row.status = "Filled" => broker[r].st = "filled",
           row.status # Absent /\ r \in Sells => Past(r)
    PROVE  Told(broker', row, r)
<1>0. BrokerKeeps /\ r \in Orders /\ (r \in Sells \/ r = Entry)
  BY BrokerMoves, Names DEF Typed, Rows
<1>1. CASE broker[r].st \in Final
  BY <1>0, <1>1 DEF BrokerKeeps, Told
<1>2. CASE broker[r].st \notin Final /\ row.status # Absent
  <2>1. row.status # "Filled"
    BY <1>2 DEF Final
  <2>2. CASE row.status \in POLLABLE_TRADE_STATES
    BY <2>1, <2>2 DEF Told
  <2>3. CASE row.status \notin POLLABLE_TRADE_STATES
    <3>1. broker[r].st = Absent
      BY <1>2, <2>1, <2>3 DEF Told
    <3>2. r # Entry
      BY <3>1 DEF Typed, EntryInv, Final, Absent
    <3>3. broker'[r] = broker[r]
      BY <1>0, <1>2, <3>1, <3>2, PastAbsent
    <3> QED
      BY <3>3 DEF Told
  <2> QED
    BY <2>2, <2>3
<1>3. CASE row.status = Absent
  BY <1>3 DEF Told, Absent
<1> QED
  BY <1>1, <1>2, <1>3

\* A poll tells it.
LEMMA PolledTells ==
    ASSUME Typed, OrderInv, WholeFills, NEW r \in Rows, NEW row \in TradeRow
    PROVE  Told(broker, applyTradePollResult(row, broker[r]), r)
<1>0. r \in Orders /\ broker[r] \in OrderRec /\ (r \in Sells \/ r = Entry)
  BY Names DEF Typed, BracketTypes, Rows
<1>1. broker[r].st # "held"
  BY <1>0 DEF OrderInv, Typed, EntryInv, Final
<1>2. broker[r].st \in BrokerStatus \cup {Absent}
  BY <1>0 DEF OrderRec
<1> QED
  BY <1>0, <1>1, <1>2, PolledFields, MappingType
  DEF Told, mapBrokerStatusToTradeState, BrokerStatus, Final, POLLABLE_TRADE_STATES, Absent

\* What is recorded of an order before its first poll is that it was accepted.
LEMMA ToldInit == Init => ToldInv
<1> SUFFICES ASSUME Init PROVE ToldInv
  OBVIOUS
<1>1. [NoRow EXCEPT !.status = "Accepted", !.qty = Q].status = "Accepted"
  BY DEF NoRow
<1>2. \A r \in Rows : rows[r].status \in {"Accepted", Absent}
  BY <1>1, NothingType DEF Init
<1>3. \A p \in Poller, r \in Rows : poll[p].work[r].status = Absent
  BY NothingType DEF Init
<1> QED
  BY <1>2, <1>3 DEF ToldInv, Told, POLLABLE_TRADE_STATES, Absent

\* Whatever is written tells it.
LEMMA ToldNext ==
    Typed /\ FillInv /\ OrderInv /\ PastInv /\ ToldInv /\ [Next]_vars => ToldInv'
<1> SUFFICES ASSUME Typed, FillInv, OrderInv, PastInv, ToldInv, [Next]_vars, WholeFills'
             PROVE  \A r \in Rows : /\ Told(broker', rows'[r], r)
                                    /\ \A p \in Poller : Told(broker', poll'[p].work[r], r)
  BY DEF ToldInv
<1>0. WholeFills
  BY GivenStays DEF WholeFills, Quirks
<1>1. ASSUME NEW r \in Rows
      PROVE  /\ rows[r] \in TradeRow /\ Told(broker', rows[r], r)
             /\ \A p \in Poller : /\ poll[p].work[r] \in TradeRow
                                  /\ Told(broker', poll[p].work[r], r)
  <2>1. Told(broker, rows[r], r) /\ \A p \in Poller : Told(broker, poll[p].work[r], r)
    BY <1>0 DEF ToldInv
  <2>2. /\ rows[r].status = "Filled" => broker[r].st = "filled"
        /\ \A p \in Poller : poll[p].work[r].status = "Filled" => broker[r].st = "filled"
    BY DEF FillInv, Fits
  <2>3. r \in Sells => /\ rows[r].status # Absent => Past(r)
                       /\ \A p \in Poller : poll[p].work[r].status # Absent => Past(r)
    BY DEF PastInv
  <2>4. rows[r] \in TradeRow /\ \A p \in Poller : poll[p].work[r] \in TradeRow
    BY DEF Typed, BracketTypes, PollRec
  <2>5. Told(broker', rows[r], r)
    BY <2>1, <2>2, <2>3, ToldStays
  <2>6. ASSUME NEW p \in Poller PROVE Told(broker', poll[p].work[r], r)
    BY <2>1, <2>2, <2>3, ToldStays
  <2> QED
    BY <2>4, <2>5, <2>6
<1>2. ASSUME NEW r \in Rows, NEW row \in TradeRow, NEW new, Told(broker', row, r),
             new.status = row.status, new.filledQty = row.filledQty
      PROVE  Told(broker', new, r)
  BY <1>2 DEF Told
<1>3. Entry \in Rows /\ Sells \subseteq Rows /\ Rows = {Entry} \cup Sells
  BY Names DEF Rows
<1>4. Told(broker', rows'[Entry], Entry)
  <2>1. CASE rows'[Entry] = rows[Entry]
    BY <1>1, <1>3, <2>1
  <2>2. ASSUME NEW p \in Poller, rows'[Entry] = poll[p].work[Entry]
        PROVE  Told(broker', rows'[Entry], Entry)
    BY <1>1, <1>3, <2>2
  <2>3. CASE rows'[Entry] = [rows[Entry] EXCEPT !.legStates[NextLeg] = "Canceled"]
    <3>1. rows'[Entry].status = rows[Entry].status /\ rows'[Entry].filledQty = rows[Entry].filledQty
      BY <1>1, <1>3, <2>3, KeptFields
    <3> QED
      BY <1>1, <1>2, <1>3, <3>1
  <2>4. CASE rows'[Entry] = applyLegPollResult(rows[Entry], NextLeg, broker[NextLeg])
    <3>1. rows'[Entry].status = rows[Entry].status /\ rows'[Entry].filledQty = rows[Entry].filledQty
      BY <1>1, <1>3, <2>4, KeptFields
    <3> QED
      BY <1>1, <1>2, <1>3, <3>1
  <2> QED
    BY <1>3, <2>1, <2>2, <2>3, <2>4, RowWrites
<1>5. ASSUME NEW s \in Sells PROVE Told(broker', rows'[s], s)
  <2>1. CASE rows'[s] = rows[s]
    BY <1>1, <1>3, <2>1
  <2>2. ASSUME NEW p \in Poller, rows'[s] = poll[p].work[s] PROVE Told(broker', rows'[s], s)
    BY <1>1, <1>3, <2>2
  <2>3. CASE rows'[s].status = "Accepted"
    BY <2>3 DEF Told, POLLABLE_TRADE_STATES
  <2>4. CASE /\ s = Sell(sell.n) /\ UNCHANGED broker
             /\ \/ rows'[s].status = "RiskRejected" /\ sell.pc = "legs"
                \/ rows'[s].status = "BrokerFailed" /\ sell.pc = "failed"
    <3>1. broker[s].st = Absent
      BY <1>0, <2>4 DEF Typed, BracketTypes, Unposted, OrderInv
    <3> QED
      BY <2>4, <3>1 DEF Told
  <2> QED
    BY <2>1, <2>2, <2>3, <2>4, SellWrites
<1>6. ASSUME NEW p \in Poller, NEW r \in Rows PROVE Told(broker', poll'[p].work[r], r)
  <2>1. CASE poll'[p].work[r] = poll[p].work[r] \/ poll'[p].work[r] = rows[r]
    BY <1>1, <2>1
  <2>2. CASE poll'[p].work[r] = NoRow
    BY <2>2, NothingType DEF Told, Absent
  <2>3. CASE /\ UNCHANGED broker
             /\ poll'[p].work[r] = applyTradePollResult(poll[p].work[r], broker[r])
    BY <1>0, <1>1, <2>3, PolledTells
  <2>4. ASSUME NEW l, poll'[p].work[r] = applyLegPollResult(poll[p].work[r], l, broker[l])
        PROVE  Told(broker', poll'[p].work[r], r)
    <3>1. /\ poll'[p].work[r].status = poll[p].work[r].status
          /\ poll'[p].work[r].filledQty = poll[p].work[r].filledQty
      BY <1>1, <2>4, KeptFields
    <3> QED
      BY <1>1, <1>2, <3>1
  <2>5. ASSUME NEW qty, poll'[p].work[r] = [poll[p].work[r] EXCEPT !.qty = qty]
        PROVE  Told(broker', poll'[p].work[r], r)
    <3>1. /\ poll'[p].work[r].status = poll[p].work[r].status
          /\ poll'[p].work[r].filledQty = poll[p].work[r].filledQty
      BY <1>1, <2>5, KeptFields
    <3> QED
      BY <1>1, <1>2, <3>1
  <2>6. CASE \E l \in Legs :
                   /\ poll'[p].work[r] = applyLegPollResult(poll[p].work[r], l, broker[l])
                   /\ BookLegFill(l)
    BY <2>4, <2>6
  <2>7. CASE \E qty : poll'[p].work[r] = [poll[p].work[r] EXCEPT !.qty = qty]
    BY <2>5, <2>7
  <2> QED
    BY <2>1, <2>2, <2>3, <2>6, <2>7, WorkWrites
<1> QED
  BY <1>3, <1>4, <1>5, <1>6

\* The fill of a leg is booked with the state it is recorded by.
Booked(row, sold) == \A l \in Legs : row.legStates[l] = "Filled" => sold[l] # NoQty

BookedInv ==
    Booked(rows[Entry], synth) /\ \A p \in Poller : Booked(poll[p].work[Entry], synth)

\* Nothing is recorded of the legs at first.
LEMMA BookedInit == Init => BookedInv
<1> SUFFICES ASSUME Init PROVE BookedInv
  OBVIOUS
<1>1. [NoRow EXCEPT !.status = "Accepted", !.qty = Q].legStates = NoRow.legStates
  BY DEF NoRow
<1>2. rows[Entry].legStates = NoRow.legStates
  BY <1>1, Names DEF Init
<1>3. \A p \in Poller : poll[p].work[Entry] = NoRow
  BY Names, NothingType DEF Init
<1> QED
  BY <1>2, <1>3, NothingType DEF BookedInv, Booked, Absent

\* A booked fill stays booked.
LEMMA BookingStays ==
    ASSUME Typed, [Next]_vars, NEW l \in Legs, synth[l] # NoQty
    PROVE  synth'[l] # NoQty
<1>1. /\ synth \in [Legs -> Int] /\ Legs \subseteq Orders
      /\ \A o \in Orders : broker[o].filled \in Nat
  BY Names DEF Typed, BracketTypes, OrderRec
<1>2. ASSUME NEW o, BookLegFill(o) PROVE synth'[l] # NoQty
  BY <1>1, <1>2 DEF BookLegFill, NoQty
<1> QED
  BY <1>2
  DEF Next, vars, BrokerStep, EntryFills, LegFills, SellFills, Dies, PollerStep,
      StartPoll, PollTarget, PollTargetFails, CancelStalePartial, FinishPoll, SellStep,
      StartSell, LookUpLegs, CancelLeg, RepollLeg, RepollLegFails, SellRiskRejected,
      PostSell, SaveSell, Crash

\* The next state of a row whose leg states were kept, canceled or polled.
LEMMA LegStateWritten ==
    ASSUME NEW row \in TradeRow, NEW leg \in Legs, NEW state
    PROVE  \A l \in Legs : [row EXCEPT !.legStates[leg] = state].legStates[l]
                             = IF l = leg THEN state ELSE row.legStates[l]
<1> DEFINE new == [row EXCEPT !.legStates[leg] = state]
<1>1. new.legStates = [row.legStates EXCEPT ![leg] = state]
  BY DEF TradeRow
<1>2. row.legStates \in [Legs -> LegState]
  BY DEF TradeRow
<1> HIDE DEF new
<1>3. \A l \in Legs : new.legStates[l] = IF l = leg THEN state ELSE row.legStates[l]
  BY <1>1, <1>2
<1> QED
  BY <1>3 DEF new

\* A leg's answer is recorded and its fill booked in one step.
LEMMA LegPollBooks ==
    ASSUME Typed, [Next]_vars, NEW row \in TradeRow, NEW leg \in Legs, Booked(row, synth),
           BookLegFill(leg)
    PROVE  Booked(applyLegPollResult(row, leg, broker[leg]), synth')
<1> DEFINE state == mapBrokerStatusToTradeState(broker[leg].st)
<1>1. \A l \in Legs : applyLegPollResult(row, leg, broker[leg]).legStates[l]
                        = IF l = leg THEN state ELSE row.legStates[l]
  BY LegStateWritten DEF applyLegPollResult
<1>2. state = "Filled" => synth'[leg] # NoQty
  <2>1. /\ synth \in [Legs -> Int] /\ broker[leg].filled \in Nat
    BY Names DEF Typed, BracketTypes, OrderRec
  <2>2. state = "Filled" => broker[leg].st = "filled"
    BY MappingType
  <2> HIDE DEF state
  <2> QED
    BY <2>1, <2>2 DEF BookLegFill, NoQty
<1> HIDE DEF state
<1> QED
  BY <1>1, <1>2, BookingStays DEF Booked

\* Recorded leg fills are booked ones, in rows and working copies.
LEMMA BookedNext == Typed /\ BookedInv /\ [Next]_vars => BookedInv'
<1> SUFFICES ASSUME Typed, BookedInv, [Next]_vars PROVE BookedInv'
  OBVIOUS
<1>0. /\ Entry \in Rows /\ rows[Entry] \in TradeRow /\ NextLeg \in Legs /\ broker[Entry] \in OrderRec
      /\ \A p \in Poller : poll[p].work[Entry] \in TradeRow
  BY NextLegIsLeft, Names DEF Typed, BracketTypes, PollRec
<1>1. /\ Booked(rows[Entry], synth) /\ Booked(rows[Entry], synth')
      /\ \A p \in Poller : /\ Booked(poll[p].work[Entry], synth)
                           /\ Booked(poll[p].work[Entry], synth')
  BY BookingStays DEF BookedInv, Booked
<1>2. Booked(rows'[Entry], synth')
  <2>1. CASE rows'[Entry] = rows[Entry]
    BY <1>1, <2>1
  <2>2. CASE \E p \in Poller : poll[p].pc = "get" /\ rows'[Entry] = poll[p].work[Entry]
    BY <1>1, <2>2
  <2>3. CASE rows'[Entry] = [rows[Entry] EXCEPT !.legStates[NextLeg] = "Canceled"]
    <3> DEFINE leg == NextLeg  row == rows[Entry]  new == rows'[Entry]
    <3>1. row \in TradeRow /\ leg \in Legs /\ new = [row EXCEPT !.legStates[leg] = "Canceled"]
      BY <1>0, <2>3
    <3>2. Booked(row, synth')
      BY <1>1
    <3> HIDE DEF leg, row, new
    <3>3. \A l \in Legs : new.legStates[l] = IF l = leg THEN "Canceled" ELSE row.legStates[l]
      BY <3>1, LegStateWritten
    <3>4. Booked(new, synth')
      BY <3>2, <3>3 DEF Booked
    <3> QED
      BY <3>4 DEF new
  <2>4. CASE /\ BookLegFill(NextLeg)
             /\ rows'[Entry] = applyLegPollResult(rows[Entry], NextLeg, broker[NextLeg])
    BY <1>0, <1>1, <2>4, LegPollBooks
  <2> QED
    BY <1>0, <2>1, <2>2, <2>3, <2>4, RowWrites
<1>3. ASSUME NEW p \in Poller PROVE Booked(poll'[p].work[Entry], synth')
  <2>1. CASE poll'[p].work[Entry] = poll[p].work[Entry] \/ poll'[p].work[Entry] = rows[Entry]
    BY <1>1, <2>1
  <2>2. CASE poll'[p].work[Entry] = NoRow
    BY <2>2, NothingType DEF Booked, Absent
  <2>3. CASE poll'[p].work[Entry] = applyTradePollResult(poll[p].work[Entry], broker[Entry])
    <3>1. poll'[p].work[Entry].legStates = poll[p].work[Entry].legStates
      BY <1>0, <2>3, PolledFields
    <3> QED
      BY <1>1, <3>1 DEF Booked
  <2>4. ASSUME NEW l \in Legs, BookLegFill(l),
               poll'[p].work[Entry] = applyLegPollResult(poll[p].work[Entry], l, broker[l])
        PROVE  Booked(poll'[p].work[Entry], synth')
    BY <1>0, <1>1, <2>4, LegPollBooks
  <2>5. ASSUME NEW qty, poll'[p].work[Entry] = [poll[p].work[Entry] EXCEPT !.qty = qty]
        PROVE  Booked(poll'[p].work[Entry], synth')
    <3>1. poll'[p].work[Entry].legStates = poll[p].work[Entry].legStates
      BY <1>0, <2>5, KeptFields
    <3> QED
      BY <1>1, <3>1 DEF Booked
  <2>6. CASE \E l \in Legs :
                   /\ poll'[p].work[Entry] = applyLegPollResult(poll[p].work[Entry], l, broker[l])
                   /\ BookLegFill(l)
    BY <2>4, <2>6
  <2>7. CASE \E qty : poll'[p].work[Entry] = [poll[p].work[Entry] EXCEPT !.qty = qty]
    BY <2>5, <2>7
  <2> QED
    BY <1>0, <2>1, <2>2, <2>3, <2>6, <2>7, WorkWrites
<1> QED
  BY <1>2, <1>3 DEF BookedInv

\* A settled row books exactly what its order filled.
LEMMA SettledRow ==
    ASSUME Typed, FillInv, OrderInv, ToldInv, WholeFills, NEW r \in Rows,
           rows[r].status \notin POLLABLE_TRADE_STATES,
           rows[r].status = Absent => broker[r].st = Absent
    PROVE  BookedQty(rows[r]) = broker[r].filled
<1>1. broker[r].filled \in Nat /\ r \in Orders
  BY Names DEF Typed, BracketTypes, OrderRec
<1>2. Told(broker, rows[r], r)
  BY DEF ToldInv
<1>3. CASE rows[r].status = "Filled"
  BY <1>1, <1>2, <1>3 DEF BookedQty, Told, BROKER_SUCCESS_TRADE_STATUSES, NoQty
<1>4. CASE rows[r].status # "Filled"
  <2>1. BookedQty(rows[r]) = 0
    BY <1>4 DEF BookedQty, BROKER_SUCCESS_TRADE_STATUSES, POLLABLE_TRADE_STATES
  <2>2. broker[r].st \notin {"filled", "partially_filled"}
    BY <1>2, <1>4 DEF Told, Final, Absent
  <2> QED
    BY <1>1, <2>1, <2>2 DEF OrderInv
<1> QED
  BY <1>3, <1>4

\* Once settled, every order is booked as it filled.
LEMMA SettledLedger ==
    ASSUME Typed, FillInv, LegInv, OrderInv, ToldInv, EntryRecorded, BookedInv,
           WholeFills, Settled
    PROVE  NetBooked = Position
<1>0. /\ selectPollTargets(rows) = {} /\ Entry \in Orders /\ Entry \notin Legs /\ Entry \in Rows
      /\ Sells \subseteq Rows /\ Rows \subseteq Orders /\ Legs \subseteq Orders /\ Legs \cap Rows = {}
      /\ \A l \in Legs : broker[l].filled \in Nat
  BY Names DEF Settled, Typed, BracketTypes, OrderRec
<1>1. \A r \in Rows : rows[r].status \notin POLLABLE_TRADE_STATES
  BY <1>0 DEF selectPollTargets, Pollable, RowOf
<1>2. BookedQty(rows[Entry]) = broker[Entry].filled
  BY <1>0, <1>1, SettledRow DEF EntryRecorded
<1>3. \A s \in Sells : BookedQty(rows[s]) = broker[s].filled
  BY <1>0, <1>1, SettledRow DEF Settled
<1>4. ASSUME NEW l \in Legs
      PROVE  (IF synth[l] = NoQty THEN 0 ELSE synth[l]) = broker[l].filled
  <2>1. isTerminalTradeState(rows[Entry].legStates[l])
    BY <1>0 DEF selectPollTargets, Pollable, RowOf, EntryRecorded
  <2>2. rows[Entry].legStates[l] = mapBrokerStatusToTradeState(broker[l].st)
    BY <2>1 DEF LegInv, LegFits, WholeFills, TruthfulDelete
  <2>3. broker[l].st \in Final
    BY <2>1, <2>2, MappingType
  <2>4. CASE broker[l].st = "filled"
    <3>1. synth[l] # NoQty
      BY <2>2, <2>4, MappingType DEF BookedInv, Booked
    <3> QED
      BY <3>1 DEF FillInv
  <2>5. CASE broker[l].st # "filled"
    <3>1. synth[l] = NoQty
      BY <2>5 DEF FillInv
    <3>2. broker[l].filled = 0
      BY <1>0, <2>3, <2>5 DEF OrderInv, Final
    <3> QED
      BY <3>1, <3>2
  <2> QED
    BY <2>4, <2>5
<1>5. [s \in Sells |-> BookedQty(rows[s])] = [s \in Sells |-> broker[s].filled]
  BY <1>3
<1>6. [l \in Legs |-> IF synth[l] = NoQty THEN 0 ELSE synth[l]] = [l \in Legs |-> broker[l].filled]
  BY <1>4
<1> QED
  BY <1>2, <1>5, <1>6 DEF NetBooked, Position

\* Where orders fill whole, and once everything is polled to its end, the rows add up to
\* what the account holds: no fill is missed and none is counted twice, for any number of
\* liquidations and crashes and whichever poller or re-poll finds it (orderStatusPoller.ts,
\* reconciliationEngine.ts).
THEOREM LedgerTracks == Spec => []LedgerTracksBroker
<1> DEFINE I == /\ Typed /\ FillInv /\ LegInv /\ OrderInv /\ PastInv
                /\ ToldInv /\ EntryRecorded /\ BookedInv
<1>1. Init => I
  <2> SUFFICES ASSUME Init PROVE PastInv /\ EntryRecorded
    BY TypesInit, FillInit, LegInit, OrderInit, ToldInit, BookedInit DEF Typed
  <2>1. /\ \A s \in Sells : s \in Rows /\ s # Entry
        /\ [NoRow EXCEPT !.status = "Accepted", !.qty = Q].status = "Accepted"
    BY Names DEF NoRow
  <2>2. \A s \in Sells : rows[s].status = Absent
    BY <2>1, NothingType DEF Init
  <2>3. \A p \in Poller : /\ poll[p].pc = "idle" /\ poll[p].todo = {}
                          /\ \A s \in Sells : poll[p].work[s].status = Absent
    BY <2>1, NothingType DEF Init, NotPolling
  <2>4. rows[Entry].status = "Accepted"
    BY <2>1, Names DEF Init
  <2> QED
    BY <2>2, <2>3, <2>4 DEF PastInv, EntryRecorded, Absent
<1>2. I /\ [Next]_vars => I'
  BY TypesNext, FillNext, LegNext, OrderNext, PastNext, ToldNext, EntryRecordedNext, BookedNext
<1>3. I => LedgerTracksBroker
  BY SettledLedger DEF LedgerTracksBroker
<1> QED
  BY <1>1, <1>2, <1>3, PTL DEF Spec
===============================================================================
