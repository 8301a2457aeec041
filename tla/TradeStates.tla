----------------------------- MODULE TradeStates -----------------------------
(***************************************************************************)
(* The vocabulary of trade rows: the TradeState union of                   *)
(* tradingSafety.ts, the status sets the rest of the server branches on,   *)
(* and the mapping from what the broker calls an order's status.           *)
(***************************************************************************)

TradeState == {"PendingApproval", "BrokerSubmitted", "Accepted",
               "PartiallyFilled", "Filled", "Rejected", "Canceled", "Expired",
               "BrokerFailed", "RiskRejected", "ApprovalRejected",
               "UnknownBrokerState"}

\* "the order was successfully placed": what the position ledger sums and what
\* qualifies a BUY row as the entry of an open lot.
BROKER_SUCCESS_TRADE_STATUSES == {"Accepted", "PartiallyFilled", "Filled"}

\* "the attempt left this process": gates the same-key row reuse and the cooldown.
BROKER_REACHED_TRADE_STATUSES ==
    {"Accepted", "PartiallyFilled", "Filled", "Rejected", "Canceled",
     "Expired", "BrokerFailed", "UnknownBrokerState"}

POLLABLE_TRADE_STATES == {"BrokerSubmitted", "Accepted", "PartiallyFilled"}

TERMINAL_TRADE_STATES == {"Filled", "Rejected", "Canceled", "Expired"}

(***************************************************************************)
(* Broker order statuses.  "held" stands for every status the switch of    *)
(* mapBrokerStatusToTradeState does not list (held, pending_cancel,        *)
(* done_for_day, ...); accepted and pending_new behave as "new".           *)
(***************************************************************************)
BrokerStatus == {"new", "partially_filled", "filled", "rejected", "canceled",
                 "expired", "held"}

\* mutant of the mapping: an accepted order is taken for filled
AcceptedTakenForFilled(status) ==
    CASE status \in {"new", "filled"} -> "Filled"
      [] status = "canceled"          -> "Canceled"
      [] OTHER                        -> "UnknownBrokerState"

mapBrokerStatusToTradeState(status) ==
    CASE status = "new"              -> "Accepted"
      [] status = "partially_filled" -> "PartiallyFilled"
      [] status = "filled"           -> "Filled"
      [] status = "rejected"         -> "Rejected"
      [] status = "canceled"         -> "Canceled"
      [] status = "expired"          -> "Expired"
      [] OTHER                       -> "UnknownBrokerState"

isTerminalTradeState(state) == state \in TERMINAL_TRADE_STATES
=============================================================================
