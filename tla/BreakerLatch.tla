----------------------------- MODULE BreakerLatch -----------------------------
(***************************************************************************)
(* The portfolio drawdown breaker and its latch.  Order intents (sync      *)
(* cycle, manual override, close-all), the position reconciliation of a    *)
(* sync cycle and the admin reset all read the latest persisted breaker    *)
(* record, evaluate the account they fetched earlier, and persist a new    *)
(* record.  They run under the one appStore mutex; the account moves and   *)
(* the process may die between any two of their steps.                     *)
(***************************************************************************)
EXTENDS Integers

CONSTANTS
    Procs,            \* request handlers and cycles competing for the mutex
    Equities,         \* account equities of the broker
    UnparsableReads,  \* {0} if an account answer may be unusable, else {}
    BaselineEquity,   \* configured baseline; 0 = not configured
    MaxDailyLossPercent, MaxDrawdownFromPeakPercent, MaxDrawdownFromBaselinePercent,
    Free              \* the mutex is held by nobody

ASSUME BreakerAssumption ==
    /\ Equities \subseteq Nat \ {0}
    /\ UnparsableReads \subseteq {0}
    /\ BaselineEquity \in Nat
    /\ MaxDailyLossPercent \in Nat \ {0}
    /\ MaxDrawdownFromPeakPercent \in Nat \ {0}
    /\ MaxDrawdownFromBaselinePercent \in Nat \ {0}
    /\ Free \notin Procs

VARIABLES
    account,    \* broker truth: [equity, last_equity]
    drift,      \* broker truth: positions disagree with the trade ledger
    latest,     \* latest persisted breaker record
    lock,       \* appStore mutex
    op,         \* what each process is in the middle of
    tripped,    \* history: a breach or mismatch was seen since the last clean reset
    highWater   \* history: highest equity any evaluation was given

vars == <<account, drift, latest, lock, op, tripped, highWater>>

BreakerStatus == {"ok", "block_new_buys", "close_only"}

(***************************************************************************)
(* The persisted latch: "ok" is {latched: false}, the tripped statuses are *)
(* {latched: true, latchedStatus}; "absent" is a record from before the    *)
(* latch existed (or no record), "corrupt" any shape isValidLatchState     *)
(* refuses.  peak 0 stands for a null high-water mark.                     *)
(***************************************************************************)
Latch == BreakerStatus \cup {"absent", "corrupt"}
BreakerRecord == [latch : Latch, peak : Nat]

Kinds == {"buy", "sell", "recon", "reset"}
Account == [equity : Nat, last_equity : Nat]
NoAccount == [equity |-> 0, last_equity |-> 0]
Idle == [pc |-> "idle", kind |-> "sell", snap |-> NoAccount, drift |-> FALSE]
Op == [pc : {"idle", "locked", "fetched", "approved"}, kind : Kinds,
       snap : Account, drift : BOOLEAN]

STATUS_RANK == [s \in Latch |-> CASE s = "block_new_buys" -> 1
                                  [] s = "corrupt"        -> 1
                                  [] s = "close_only"     -> 2
                                  [] OTHER                -> 0]

Clear(latch) == latch \in {"ok", "absent"}

-------------------------------------------------------------------------------
(* breakerEngine.ts *)

LossReaches(from, to, percent) == (from - to) * 100 >= percent * from

PeakOf(equity, previousPeak) == IF previousPeak > equity THEN previousPeak ELSE equity

Usable(snap) == snap.equity > 0 /\ snap.last_equity > 0

FreshStatus(snap, previousPeak) ==
    IF ~Usable(snap) THEN "block_new_buys"
    ELSE IF BaselineEquity # 0
            /\ LossReaches(BaselineEquity, snap.equity, MaxDrawdownFromBaselinePercent)
    THEN "close_only"
    ELSE IF \/ LossReaches(snap.last_equity, snap.equity, MaxDailyLossPercent)
            \/ LossReaches(PeakOf(snap.equity, previousPeak), snap.equity,
                           MaxDrawdownFromPeakPercent)
    THEN "block_new_buys"
    ELSE "ok"

\* mutant of FreshPeak: the mark follows the equity
PeakIsCurrentEquity(snap, previousPeak) == IF Usable(snap) THEN snap.equity ELSE 0

FreshPeak(snap, previousPeak) == IF Usable(snap) THEN PeakOf(snap.equity, previousPeak) ELSE 0

(* breakerLatch.ts: one status is both the effective status and the new latch *)

\* mutants of applyBreakerLatch: no latch at all; the latest trip wins
LatchIgnored(fresh, raw) == fresh
LatestTripWins(fresh, raw) ==
    IF fresh # "ok" THEN fresh ELSE IF raw = "absent" THEN "ok"
    ELSE IF raw = "corrupt" THEN "block_new_buys" ELSE raw

applyBreakerLatch(fresh, raw) ==
    LET prior == IF raw = "absent" THEN "ok" ELSE raw
    IN  IF raw = "corrupt" THEN "block_new_buys"
        ELSE IF STATUS_RANK[fresh] > STATUS_RANK[prior] THEN fresh ELSE prior

\* a reconciliation mismatch only ever escalates the fresh status
EscalatedStatus(fresh) == IF fresh = "close_only" THEN "close_only" ELSE "block_new_buys"

-------------------------------------------------------------------------------
Init ==
    /\ account \in [equity : Equities, last_equity : Equities]
    /\ drift = FALSE
    /\ latest = [latch |-> "absent", peak |-> 0]
    /\ lock = Free
    /\ op = [p \in Procs |-> Idle]
    /\ tripped = FALSE
    /\ highWater = 0

\* mutant of Acquire: the operation starts without waiting for the mutex
AcquireWithoutWaiting(p) ==
    /\ op[p].pc = "idle"
    /\ lock' = p
    /\ op' = [op EXCEPT ![p].pc = "locked"]
    /\ UNCHANGED <<account, drift, latest, tripped, highWater>>

Acquire(p) ==
    /\ op[p].pc = "idle"
    /\ lock = Free
    /\ lock' = p
    /\ op' = [op EXCEPT ![p].pc = "locked"]
    /\ UNCHANGED <<account, drift, latest, tripped, highWater>>

Release(p) ==
    /\ op[p].pc = "locked"
    /\ lock' = Free
    /\ op' = [op EXCEPT ![p] = Idle]
    /\ UNCHANGED <<account, drift, latest, tripped, highWater>>

\* The holder's next operation starts with its broker reads (account, positions).
Fetch(p, kind, equity) ==
    /\ op[p].pc = "locked"
    /\ equity \in {account.equity} \cup UnparsableReads
    /\ op' = [op EXCEPT ![p] = [pc |-> "fetched", kind |-> kind,
                                snap |-> [account EXCEPT !.equity = equity],
                                drift |-> drift]]
    /\ UNCHANGED <<account, drift, latest, lock, tripped, highWater>>

\* Read the latest record, evaluate, latch and persist: no await in between.
Persist(snap, status) ==
    /\ latest' = [latch |-> status, peak |-> FreshPeak(snap, latest.peak)]
    /\ highWater' = IF Usable(snap) THEN PeakOf(snap.equity, highWater) ELSE highWater

EvaluateOrder(p) ==
    LET snap  == op[p].snap
        fresh == FreshStatus(snap, latest.peak)
        eff   == applyBreakerLatch(fresh, latest.latch)
    IN  /\ op[p].pc = "fetched"
        /\ op[p].kind \in {"buy", "sell"}
        /\ Persist(snap, eff)
        /\ tripped' = (tripped \/ fresh # "ok")
        /\ op' = [op EXCEPT ![p].pc =
                    IF op[p].kind = "buy" /\ eff # "ok" THEN "locked" ELSE "approved"]
        /\ UNCHANGED <<account, drift, lock>>

EvaluateMismatch(p) ==
    LET snap  == op[p].snap
        fresh == EscalatedStatus(FreshStatus(snap, latest.peak))
    IN  /\ op[p].pc = "fetched"
        /\ op[p].kind = "recon"
        /\ op' = [op EXCEPT ![p].pc = "locked"]
        /\ IF op[p].drift
           THEN /\ Persist(snap, applyBreakerLatch(fresh, latest.latch))
                /\ tripped' = TRUE
           ELSE UNCHANGED <<latest, tripped, highWater>>
        /\ UNCHANGED <<account, drift, lock>>

\* performBreakerReset: the prior latch is ignored, the thresholds are not.
EvaluateReset(p) ==
    LET snap  == op[p].snap
        fresh == FreshStatus(snap, latest.peak)
    IN  /\ op[p].pc = "fetched"
        /\ op[p].kind = "reset"
        /\ Persist(snap, applyBreakerLatch(fresh, "absent"))
        /\ tripped' = (fresh # "ok")
        /\ op' = [op EXCEPT ![p].pc = "locked"]
        /\ UNCHANGED <<account, drift, lock>>

\* The order reaches the broker after the further awaits of the order path,
\* or one of the path's other gates turns it down.
EndOrder(p) ==
    /\ op[p].pc = "approved"
    /\ op' = [op EXCEPT ![p].pc = "locked"]
    /\ UNCHANGED <<account, drift, latest, lock, tripped, highWater>>

EquityMoves == /\ \E e \in Equities : account' = [account EXCEPT !.equity = e]
               /\ UNCHANGED <<drift, latest, lock, op, tripped, highWater>>

NewDay == /\ account' = [account EXCEPT !.last_equity = account.equity]
          /\ UNCHANGED <<drift, latest, lock, op, tripped, highWater>>

DriftChanges == /\ drift' = ~drift
                /\ UNCHANGED <<account, latest, lock, op, tripped, highWater>>

\* The process dies and restarts; only the database survives, and the latch
\* read back may be malformed.
Restart(latchRead) ==
    /\ latchRead \in {latest.latch, "corrupt"}
    /\ latest' = [latest EXCEPT !.latch = latchRead]
    /\ lock' = Free
    /\ op' = [p \in Procs |-> Idle]
    /\ UNCHANGED <<account, drift, tripped, highWater>>

Next ==
    \/ \E p \in Procs :
         \/ Acquire(p) \/ Release(p)
         \/ \E kind \in Kinds, equity \in Equities \cup UnparsableReads : Fetch(p, kind, equity)
         \/ EvaluateOrder(p) \/ EvaluateMismatch(p) \/ EvaluateReset(p)
         \/ EndOrder(p)
    \/ EquityMoves \/ NewDay \/ DriftChanges
    \/ \E latchRead \in Latch : Restart(latchRead)

Spec == Init /\ [][Next]_vars

-------------------------------------------------------------------------------
(* Properties *)

\* Type correctness; the mutex is held exactly by the process in an operation.
TypeOK ==
    /\ account \in Account
    /\ drift \in BOOLEAN
    /\ latest \in BreakerRecord
    /\ lock \in Procs \cup {Free}
    /\ op \in [Procs -> Op]
    /\ tripped \in BOOLEAN
    /\ highWater \in Nat

\* Every process inside an operation holds the mutex, so at most one is.
HolderOnly == \A p \in Procs : op[p].pc # "idle" => lock = p

\* Once an evaluation saw a breach, an unusable account or a position mismatch,
\* the persisted latch stays tripped, however the account recovers and whatever
\* restarts happen, until an admin reset evaluates the thresholds clean.
TripSticks == tripped => ~Clear(latest.latch)

\* A BUY that passed the breaker gate and is still on its way to the broker was
\* not overtaken by a trip: no other operation tripped the latch between the
\* evaluation and the broker call, although the order path awaits in between.
ApprovedBuyIsUntripped ==
    \A p \in Procs : op[p].pc = "approved" /\ op[p].kind = "buy" => ~tripped

\* No BUY is approved at an equity that is down from the highest equity any
\* evaluation ever saw by the peak-drawdown limit or more: the high-water mark
\* survives resets, escalations, corruption of the latch and restarts.
BuysRespectPeakDrawdown ==
    \A p \in Procs : op[p].pc = "approved" /\ op[p].kind = "buy"
        => ~LossReaches(highWater, op[p].snap.equity, MaxDrawdownFromPeakPercent)

\* Only the admin reset lowers the persisted latch (or corruption of the record,
\* which fails closed): close_only is never weakened to block_new_buys, nor
\* either to ok, by a healthier evaluation or a milder mismatch.
LatchNeverDeescalates ==
    [][STATUS_RANK[latest'.latch] < STATUS_RANK[latest.latch]
         => \/ latest'.latch = "corrupt"
            \/ \E p \in Procs : op[p].pc = "fetched" /\ op[p].kind = "reset"]_vars
===============================================================================
