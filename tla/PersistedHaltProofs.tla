------------------------- MODULE PersistedHaltProofs --------------------------
(***************************************************************************)
(* The two halts that outlive the process: the drawdown breaker's latch    *)
(* and the restart guard's stay-down.                                      *)
(*                                                                         *)
(* The breaker's results hold for every number of processes, every set of  *)
(* equities and every choice of limits; the percentage arithmetic stays    *)
(* opaque, the arguments are about who reads which record when.  The       *)
(* guard's results hold for every limit and window; they compare lists     *)
(* from their newest entries on.                                           *)
(***************************************************************************)
EXTENDS BreakerLatch, CrashLoopGuard, TLAPS, WellFoundedInduction

-------------------------------------------------------------------------------
(* The breaker: the evaluation functions *)

\* A fresh evaluation yields one of the three breaker statuses.
LEMMA FreshStatusType ==
    ASSUME NEW snap, NEW peak
    PROVE  FreshStatus(snap, peak) \in BreakerStatus
BY DEF FreshStatus, BreakerStatus

\* Latching a status never yields a malformed or absent latch.
LEMMA LatchType ==
    ASSUME NEW fresh \in BreakerStatus, NEW raw \in Latch
    PROVE  applyBreakerLatch(fresh, raw) \in BreakerStatus
BY DEF applyBreakerLatch, BreakerStatus, Latch

\* Without a reset the latch keeps the worse of the old and the fresh status.
LEMMA LatchIsMonotone ==
    ASSUME NEW fresh \in BreakerStatus, NEW raw \in Latch
    PROVE  /\ STATUS_RANK[applyBreakerLatch(fresh, raw)] >= STATUS_RANK[raw]
           /\ ~Clear(raw) => ~Clear(applyBreakerLatch(fresh, raw))
           /\ fresh # "ok" => ~Clear(applyBreakerLatch(fresh, raw))
BY DEF applyBreakerLatch, BreakerStatus, Latch, STATUS_RANK, Clear

\* An "ok" outcome of a latched evaluation means nothing was latched and the
\* fresh evaluation found nothing either.
LEMMA OkMeansClear ==
    ASSUME NEW fresh \in BreakerStatus, NEW raw \in Latch,
           applyBreakerLatch(fresh, raw) = "ok"
    PROVE  fresh = "ok" /\ Clear(raw)
BY DEF applyBreakerLatch, BreakerStatus, Latch, STATUS_RANK, Clear

\* The high-water mark is a number.
LEMMA PeakType ==
    ASSUME NEW snap \in Account, NEW peak \in Nat
    PROVE  FreshPeak(snap, peak) \in Nat /\ PeakOf(snap.equity, peak) \in Nat
BY DEF FreshPeak, PeakOf, Account

-------------------------------------------------------------------------------
(* Type correctness and the mutex *)

\* TypeOK and HolderOnly together: who holds the lock depends on the type of op.
LockInv == TypeOK /\ HolderOnly

\* Nobody holds the mutex and nothing is in progress at boot.
LEMMA LockInit == Init => LockInv
<1> SUFFICES ASSUME Init PROVE LockInv
  OBVIOUS
<1>1. Idle \in Op
  BY DEF Idle, Op, NoAccount, Account, Kinds
<1>2. account \in Account
  BY BreakerAssumption DEF Init, Account
<1>3. latest \in BreakerRecord
  BY DEF Init, BreakerRecord, Latch
<1>4. op \in [Procs -> Op] /\ \A p \in Procs : op[p].pc = "idle"
  BY <1>1 DEF Init, Idle
<1> QED
  BY <1>2, <1>3, <1>4 DEF Init, LockInv, TypeOK, HolderOnly

\* Types and the exclusiveness of the mutex are inductive together.
LEMMA LockNext == LockInv /\ [Next]_vars => LockInv'
<1> SUFFICES ASSUME LockInv, [Next]_vars PROVE LockInv'
  OBVIOUS
<1> USE BreakerAssumption DEF LockInv, TypeOK, HolderOnly
<1>1. ASSUME NEW p \in Procs, Acquire(p) PROVE LockInv'
  BY <1>1 DEF Acquire, Op
<1>2. ASSUME NEW p \in Procs, Release(p) PROVE LockInv'
  BY <1>2 DEF Release, Op, Idle, NoAccount, Account, Kinds
<1>3. ASSUME NEW p \in Procs, NEW kind \in Kinds, NEW equity \in Equities \cup UnparsableReads,
             Fetch(p, kind, equity)
      PROVE  LockInv'
  BY <1>3 DEF Fetch, Op, Account
<1>4. ASSUME NEW p \in Procs, EvaluateOrder(p) PROVE LockInv'
  <2> DEFINE fresh == FreshStatus(op[p].snap, latest.peak)
             eff   == applyBreakerLatch(fresh, latest.latch)
  <2>1. op[p] \in Op /\ op[p].snap \in Account
    BY DEF Op
  <2>2. eff \in Latch
    BY FreshStatusType, LatchType DEF BreakerRecord, Latch
  <2>3. latest' \in BreakerRecord /\ highWater' \in Nat
    BY <1>4, <2>1, <2>2, PeakType DEF EvaluateOrder, Persist, BreakerRecord
  <2>4. op' \in [Procs -> Op] /\ \A q \in Procs : op'[q].pc # "idle" => op[q].pc # "idle"
    BY <1>4, <2>1 DEF EvaluateOrder, Op
  <2>5. tripped' \in BOOLEAN
    BY <1>4 DEF EvaluateOrder
  <2> QED
    BY <1>4, <2>3, <2>4, <2>5 DEF EvaluateOrder
<1>5. ASSUME NEW p \in Procs, EvaluateMismatch(p) PROVE LockInv'
  <2> DEFINE fresh == EscalatedStatus(FreshStatus(op[p].snap, latest.peak))
             eff   == applyBreakerLatch(fresh, latest.latch)
  <2>1. op[p] \in Op /\ op[p].snap \in Account
    BY DEF Op
  <2>2. eff \in Latch
    <3>1. fresh \in BreakerStatus
      BY FreshStatusType DEF EscalatedStatus, BreakerStatus
    <3> QED
      BY <3>1, LatchType DEF BreakerRecord, Latch
  <2>3. latest' \in BreakerRecord /\ highWater' \in Nat /\ tripped' \in BOOLEAN
    <3>1. CASE op[p].drift
      <4>1. /\ latest' = [latch |-> eff, peak |-> FreshPeak(op[p].snap, latest.peak)]
            /\ highWater' \in {highWater, PeakOf(op[p].snap.equity, highWater)}
            /\ tripped' = TRUE
        BY <1>5, <3>1 DEF EvaluateMismatch, Persist
      <4>2. FreshPeak(op[p].snap, latest.peak) \in Nat /\ highWater' \in Nat
        BY <4>1, <2>1, PeakType DEF BreakerRecord
      <4> QED
        BY <4>1, <4>2, <2>2 DEF BreakerRecord
    <3>2. CASE ~op[p].drift
      BY <1>5, <3>2 DEF EvaluateMismatch
    <3> QED
      BY <3>1, <3>2
  <2>4. op' \in [Procs -> Op] /\ \A q \in Procs : op'[q].pc # "idle" => op[q].pc # "idle"
    BY <1>5, <2>1 DEF EvaluateMismatch, Op
  <2> QED
    BY <1>5, <2>3, <2>4 DEF EvaluateMismatch
<1>6. ASSUME NEW p \in Procs, EvaluateReset(p) PROVE LockInv'
  <2> DEFINE fresh == FreshStatus(op[p].snap, latest.peak)
  <2>1. op[p] \in Op /\ op[p].snap \in Account
    BY DEF Op
  <2>2. applyBreakerLatch(fresh, "absent") \in Latch
    BY FreshStatusType, LatchType DEF Latch
  <2>3. latest' \in BreakerRecord /\ highWater' \in Nat /\ tripped' \in BOOLEAN
    BY <1>6, <2>1, <2>2, PeakType DEF EvaluateReset, Persist, BreakerRecord
  <2>4. op' \in [Procs -> Op] /\ \A q \in Procs : op'[q].pc # "idle" => op[q].pc # "idle"
    BY <1>6, <2>1 DEF EvaluateReset, Op
  <2> QED
    BY <1>6, <2>3, <2>4 DEF EvaluateReset
<1>7. ASSUME NEW p \in Procs, EndOrder(p) PROVE LockInv'
  BY <1>7 DEF EndOrder, Op
<1>8. CASE EquityMoves \/ NewDay \/ DriftChanges
  BY <1>8 DEF EquityMoves, NewDay, DriftChanges, Account
<1>9. ASSUME NEW latchRead \in Latch, Restart(latchRead) PROVE LockInv'
  BY <1>9 DEF Restart, BreakerRecord, Op, Idle, NoAccount, Account, Kinds
<1>10. CASE UNCHANGED vars
  BY <1>10 DEF vars
<1> QED
  BY <1>1, <1>2, <1>3, <1>4, <1>5, <1>6, <1>7, <1>8, <1>9, <1>10 DEF Next

\* The state stays well typed and a process inside an operation holds the
\* appStore mutex, whatever the account, the positions and restarts do.
THEOREM LockCorrect == Spec => [](TypeOK /\ HolderOnly)
BY LockInit, LockNext, PTL DEF Spec, LockInv

-------------------------------------------------------------------------------
(* The latch sticks, and an approved BUY is never overtaken by a trip *)

StickInv == TripSticks /\ ApprovedBuyIsUntripped

\* Nothing has tripped at boot, so the latch may be clear.
LEMMA StickInit == Init => StickInv
BY DEF Init, StickInv, TripSticks, ApprovedBuyIsUntripped, Idle

\* Every trip of the history is accompanied by a tripped latch in the same step.
LEMMA StickNext == LockInv /\ LockInv' /\ StickInv /\ [Next]_vars => StickInv'
<1> SUFFICES ASSUME LockInv, LockInv', StickInv, [Next]_vars PROVE StickInv'
  OBVIOUS
<1> USE DEF StickInv, LockInv, TypeOK, HolderOnly, TripSticks, ApprovedBuyIsUntripped
<1>0. latest.latch \in Latch
  BY DEF BreakerRecord
<1>1. ASSUME NEW p \in Procs, Acquire(p) PROVE StickInv'
  BY <1>1 DEF Acquire
<1>2. ASSUME NEW p \in Procs, Release(p) PROVE StickInv'
  BY <1>2 DEF Release, Idle
<1>3. ASSUME NEW p \in Procs, NEW kind \in Kinds, NEW equity \in Equities \cup UnparsableReads,
             Fetch(p, kind, equity)
      PROVE  StickInv'
  BY <1>3 DEF Fetch
<1>4. ASSUME NEW p \in Procs, EvaluateOrder(p) PROVE StickInv'
  <2> DEFINE fresh == FreshStatus(op[p].snap, latest.peak)
             eff   == applyBreakerLatch(fresh, latest.latch)
  <2>1. fresh \in BreakerStatus
    BY FreshStatusType
  <2>2. /\ latest'.latch = eff
        /\ tripped' = (tripped \/ fresh # "ok")
        /\ op[p].kind = "buy" /\ eff # "ok" => op'[p].pc = "locked"
        /\ op'[p].kind = op[p].kind
    BY <1>4 DEF EvaluateOrder, Persist
  <2>3. tripped' => ~Clear(eff)
    BY <1>0, <2>1, <2>2, LatchIsMonotone
  <2>4. \A q \in Procs : q # p => op[q].pc = "idle" /\ op'[q] = op[q]
    BY <1>4 DEF EvaluateOrder
  <2>5. op'[p].pc = "approved" /\ op'[p].kind = "buy" => ~tripped'
    BY <2>2, <2>3 DEF Clear
  <2> QED
    BY <2>2, <2>3, <2>4, <2>5
<1>5. ASSUME NEW p \in Procs, EvaluateMismatch(p) PROVE StickInv'
  <2> DEFINE fresh == EscalatedStatus(FreshStatus(op[p].snap, latest.peak))
             eff   == applyBreakerLatch(fresh, latest.latch)
  <2>1. fresh \in BreakerStatus /\ fresh # "ok"
    BY FreshStatusType DEF EscalatedStatus, BreakerStatus
  <2>2. ~Clear(eff)
    BY <1>0, <2>1, LatchIsMonotone
  <2>3. latest'.latch = eff \/ (latest' = latest /\ tripped' = tripped)
    BY <1>5 DEF EvaluateMismatch, Persist
  <2>4. \A q \in Procs : op'[q].pc # "approved"
    BY <1>5 DEF EvaluateMismatch
  <2> QED
    BY <2>2, <2>3, <2>4
<1>6. ASSUME NEW p \in Procs, EvaluateReset(p) PROVE StickInv'
  <2> DEFINE fresh == FreshStatus(op[p].snap, latest.peak)
             eff   == applyBreakerLatch(fresh, "absent")
  <2>1. fresh \in BreakerStatus /\ "absent" \in Latch
    BY FreshStatusType DEF Latch
  <2>2. latest'.latch = eff /\ tripped' = (fresh # "ok")
    BY <1>6 DEF EvaluateReset, Persist
  <2>3. tripped' => ~Clear(eff)
    BY <2>1, <2>2, LatchIsMonotone
  <2>4. \A q \in Procs : op'[q].pc # "approved"
    BY <1>6 DEF EvaluateReset
  <2> QED
    BY <2>2, <2>3, <2>4
<1>7. ASSUME NEW p \in Procs, EndOrder(p) PROVE StickInv'
  BY <1>7 DEF EndOrder
<1>8. CASE EquityMoves \/ NewDay \/ DriftChanges
  BY <1>8 DEF EquityMoves, NewDay, DriftChanges
<1>9. ASSUME NEW latchRead \in Latch, Restart(latchRead) PROVE StickInv'
  BY <1>9 DEF Restart, Idle, Clear, BreakerRecord
<1>10. CASE UNCHANGED vars
  BY <1>10 DEF vars
<1> QED
  BY <1>1, <1>2, <1>3, <1>4, <1>5, <1>6, <1>7, <1>8, <1>9, <1>10 DEF Next

\* Once tripped, the persisted latch stays tripped until an admin reset finds
\* the thresholds clean.
THEOREM LatchSticks == Spec => []TripSticks
<1>1. Init => LockInv /\ StickInv
  BY LockInit, StickInit
<1>2. LockInv /\ StickInv /\ [Next]_vars => (LockInv /\ StickInv)'
  BY LockNext, StickNext
<1> QED
  BY <1>1, <1>2, PTL DEF Spec, StickInv

\* No BUY on its way to the broker was overtaken by a trip.
THEOREM BuyGate == Spec => []ApprovedBuyIsUntripped
<1>1. Init => LockInv /\ StickInv
  BY LockInit, StickInit
<1>2. LockInv /\ StickInv /\ [Next]_vars => (LockInv /\ StickInv)'
  BY LockNext, StickNext
<1> QED
  BY <1>1, <1>2, PTL DEF Spec, StickInv

-------------------------------------------------------------------------------
(* De-escalation takes an admin reset *)

\* Only an admin reset, or a record that reads back malformed, lowers the rank of
\* the persisted latch: no order intent and no reconciliation ever does.
THEOREM NoDeescalation == Spec => LatchNeverDeescalates
<1> DEFINE Held == STATUS_RANK[latest'.latch] >= STATUS_RANK[latest.latch]
           Excused == \/ latest'.latch = "corrupt"
                      \/ \E p \in Procs : op[p].pc = "fetched" /\ op[p].kind = "reset"
<1>1. ASSUME LockInv, [Next]_vars PROVE Held \/ Excused
  <2> USE <1>1
  <2>0. latest.latch \in Latch
    BY DEF LockInv, TypeOK, BreakerRecord
  <2>1. STATUS_RANK[latest.latch] \in Nat
    BY <2>0 DEF STATUS_RANK
  <2>2. CASE UNCHANGED latest
    BY <2>1, <2>2
  <2>3. ASSUME NEW p \in Procs, EvaluateOrder(p) PROVE Held
    BY <2>0, <2>3, FreshStatusType, LatchIsMonotone DEF EvaluateOrder, Persist
  <2>4. ASSUME NEW p \in Procs, EvaluateMismatch(p) PROVE Held
    <3> DEFINE fresh == EscalatedStatus(FreshStatus(op[p].snap, latest.peak))
    <3>1. fresh \in BreakerStatus
      BY FreshStatusType DEF EscalatedStatus, BreakerStatus
    <3>2. \/ latest'.latch = applyBreakerLatch(fresh, latest.latch)
          \/ latest' = latest
      BY <2>4 DEF EvaluateMismatch, Persist
    <3> QED
      BY <2>0, <2>1, <3>1, <3>2, LatchIsMonotone
  <2>5. ASSUME NEW p \in Procs, EvaluateReset(p) PROVE Excused
    BY <2>5 DEF EvaluateReset
  <2>6. ASSUME NEW latchRead \in Latch, Restart(latchRead) PROVE Held \/ Excused
    BY <2>1, <2>6 DEF Restart, LockInv, TypeOK, BreakerRecord
  <2> QED
    BY <2>2, <2>3, <2>4, <2>5, <2>6
    DEF Next, vars, Acquire, Release, Fetch, EndOrder, EquityMoves, NewDay, DriftChanges
<1>2. ASSUME LockInv, [Next]_vars
      PROVE  [STATUS_RANK[latest'.latch] < STATUS_RANK[latest.latch] => Excused]_vars
  <2>1. LockInv'
    BY <1>2, LockNext
  <2>2. STATUS_RANK[latest.latch] \in Nat /\ STATUS_RANK[latest'.latch] \in Nat
    BY <1>2, <2>1 DEF LockInv, TypeOK, BreakerRecord, STATUS_RANK
  <2> QED
    BY <1>1, <1>2, <2>2
<1> QED
  BY LockInit, LockNext, <1>2, PTL DEF Spec, LatchNeverDeescalates

-------------------------------------------------------------------------------
(* The high-water mark, as long as every account answer can be evaluated *)

PeakInv ==
    /\ account \in [equity : Equities, last_equity : Equities]
    /\ latest.peak = highWater
    /\ \A p \in Procs : op[p].pc = "fetched" => Usable(op[p].snap)
    /\ BuysRespectPeakDrawdown

\* Neither the record nor the history has a peak at boot.
LEMMA PeakInit == Init => PeakInv
BY DEF Init, PeakInv, BuysRespectPeakDrawdown, Idle

\* An evaluation of a usable account persists exactly the history's peak.
LEMMA PersistKeepsPeak ==
    ASSUME NEW snap, NEW status, Usable(snap), latest.peak = highWater, Persist(snap, status)
    PROVE  latest'.peak = highWater' /\ highWater' = PeakOf(snap.equity, highWater)
BY DEF Persist, FreshPeak

\* A fresh "ok" of a usable account is within the peak-drawdown limit.
LEMMA OkWithinPeakLimit ==
    ASSUME NEW snap, NEW peak, Usable(snap), FreshStatus(snap, peak) = "ok"
    PROVE  ~LossReaches(PeakOf(snap.equity, peak), snap.equity, MaxDrawdownFromPeakPercent)
BY DEF FreshStatus

\* With usable accounts the persisted peak and the history's stay equal.
LEMMA PeakNext ==
    ASSUME UnparsableReads = {}, LockInv, PeakInv, [Next]_vars
    PROVE  PeakInv'
<1> USE DEF PeakInv, LockInv, TypeOK, HolderOnly, BuysRespectPeakDrawdown
<1>0. latest.latch \in Latch
  BY DEF BreakerRecord
<1>1. ASSUME NEW p \in Procs, Acquire(p) \/ Release(p) \/ EndOrder(p) PROVE PeakInv'
  <2>1. CASE Acquire(p)
    BY <2>1 DEF Acquire
  <2>2. CASE Release(p)
    BY <2>2 DEF Release, Idle
  <2>3. CASE EndOrder(p)
    BY <2>3 DEF EndOrder
  <2> QED
    BY <1>1, <2>1, <2>2, <2>3
<1>2. ASSUME NEW p \in Procs, NEW kind \in Kinds, NEW equity \in Equities \cup UnparsableReads,
             Fetch(p, kind, equity)
      PROVE  PeakInv'
  <2>1. Usable([account EXCEPT !.equity = equity])
    BY BreakerAssumption DEF Usable
  <2>2. \A q \in Procs : op'[q].pc = "fetched" => Usable(op'[q].snap)
    BY <1>2, <2>1 DEF Fetch
  <2>3. \A q \in Procs : op'[q].pc # "approved"
    BY <1>2 DEF Fetch
  <2> QED
    BY <1>2, <2>2, <2>3 DEF Fetch
<1>3. ASSUME NEW p \in Procs, EvaluateOrder(p) PROVE PeakInv'
  <2> DEFINE fresh == FreshStatus(op[p].snap, latest.peak)
             eff   == applyBreakerLatch(fresh, latest.latch)
  <2>1. Usable(op[p].snap) /\ Persist(op[p].snap, eff)
    BY <1>3 DEF EvaluateOrder
  <2>2. latest'.peak = highWater' /\ highWater' = PeakOf(op[p].snap.equity, highWater)
    BY <2>1, PersistKeepsPeak
  <2>3. /\ \A q \in Procs : q # p => op[q].pc = "idle" /\ op'[q] = op[q]
        /\ op'[p].kind = op[p].kind /\ op'[p].snap = op[p].snap
        /\ op'[p].pc \in {"locked", "approved"}
        /\ op'[p].pc = "approved" /\ op[p].kind = "buy" => eff = "ok"
        /\ account' = account
    BY <1>3 DEF EvaluateOrder
  <2>4. op'[p].pc = "approved" /\ op'[p].kind = "buy"
           => ~LossReaches(highWater', op'[p].snap.equity, MaxDrawdownFromPeakPercent)
    <3>1. eff = "ok" => fresh = "ok"
      BY <1>0, FreshStatusType, OkMeansClear
    <3>2. fresh = "ok" => ~LossReaches(PeakOf(op[p].snap.equity, latest.peak), op[p].snap.equity,
                                       MaxDrawdownFromPeakPercent)
      BY <2>1, OkWithinPeakLimit
    <3> QED
      BY <2>2, <2>3, <3>1, <3>2
  <2> QED
    BY <2>2, <2>3, <2>4
<1>4. ASSUME NEW p \in Procs, EvaluateMismatch(p) PROVE PeakInv'
  <2>1. account' = account /\ \A q \in Procs : op'[q].pc \notin {"fetched", "approved"}
    BY <1>4 DEF EvaluateMismatch
  <2>2. Usable(op[p].snap)
    BY <1>4 DEF EvaluateMismatch
  <2>3. UNCHANGED <<latest, highWater>> \/ \E status : Persist(op[p].snap, status)
    BY <1>4 DEF EvaluateMismatch
  <2> QED
    BY <2>1, <2>2, <2>3, PersistKeepsPeak
<1>5. ASSUME NEW p \in Procs, EvaluateReset(p) PROVE PeakInv'
  <2>1. account' = account /\ \A q \in Procs : op'[q].pc \notin {"fetched", "approved"}
    BY <1>5 DEF EvaluateReset
  <2>2. Usable(op[p].snap)
    BY <1>5 DEF EvaluateReset
  <2>3. \E status : Persist(op[p].snap, status)
    BY <1>5 DEF EvaluateReset
  <2> QED
    BY <2>1, <2>2, <2>3, PersistKeepsPeak
<1>6. CASE EquityMoves \/ NewDay \/ DriftChanges
  BY <1>6 DEF EquityMoves, NewDay, DriftChanges
<1>7. ASSUME NEW latchRead \in Latch, Restart(latchRead) PROVE PeakInv'
  BY <1>7 DEF Restart, Idle, BreakerRecord
<1>8. CASE UNCHANGED vars
  BY <1>8 DEF vars
<1> QED
  BY <1>1, <1>2, <1>3, <1>4, <1>5, <1>6, <1>7, <1>8 DEF Next

\* When every account answer is usable, no BUY is approved at or beyond the
\* peak-drawdown limit measured from the highest equity ever evaluated.
THEOREM PeakRespected ==
    UnparsableReads = {} => (Spec => []BuysRespectPeakDrawdown)
<1> SUFFICES ASSUME UnparsableReads = {} PROVE Spec => []BuysRespectPeakDrawdown
  OBVIOUS
<1>1. Init => LockInv /\ PeakInv
  BY LockInit, PeakInit
<1>2. LockInv /\ PeakInv /\ [Next]_vars => (LockInv /\ PeakInv)'
  BY LockNext, PeakNext
<1>3. LockInv /\ PeakInv => BuysRespectPeakDrawdown
  BY DEF PeakInv
<1> QED
  BY <1>1, <1>2, <1>3, PTL DEF Spec

-------------------------------------------------------------------------------
(* The restart guard: lists of ages *)

\* Oldest first.
Sorted(ages) == \A i, j \in 1..Len(ages) : i <= j => ages[j] <= ages[i]

Ages == {ages \in Seq(Age) : Sorted(ages)}

\* A set of numbers with an element has a least one.
LEMMA LeastNumber ==
    ASSUME NEW T \in SUBSET Nat, T # {}
    PROVE  \E m \in T : \A n \in T : m <= n
<1>1. PICK m \in T : \A n \in T : ~ (<<n, m>> \in OpToRel(<, Nat))
  BY WFMin, NatLessThanWellFounded
<1>2. ASSUME NEW n \in T, n < m PROVE FALSE
  <2> DEFINE pair == <<n, m>>
  <2>1. pair \in Nat \X Nat /\ pair[1] < pair[2]
    BY <1>2
  <2>2. pair \in OpToRel(<, Nat)
    BY <2>1, Zenon DEF OpToRel
  <2> QED
    BY <1>1, <2>2
<1>3. \A n \in T : n \in Nat /\ m \in Nat
  OBVIOUS
<1> QED
  BY <1>2, <1>3

\* In a list kept oldest first the stale entries come first.
LEMMA StalePrefix ==
    ASSUME NEW a \in Ages
    PROVE  \E n \in 0..Len(a) :
              \A i \in 1..Len(a) : a[i] < CRASH_LOOP_WINDOW_MS <=> i > n
<1>0. a \in Seq(Age) /\ Sorted(a) /\ Len(a) \in Nat /\ \A i \in 1..Len(a) : a[i] \in Age
  BY DEF Ages
<1> DEFINE T == {n \in 0..Len(a) : \A i \in 1..Len(a) : i > n => a[i] < CRASH_LOOP_WINDOW_MS}
<1>1. Len(a) \in T /\ T \in SUBSET Nat
  BY <1>0
<1>2. PICK m \in T : \A n \in T : m <= n
  BY <1>1, LeastNumber
<1>3. ASSUME NEW i \in 1..Len(a), a[i] < CRASH_LOOP_WINDOW_MS PROVE i > m
  <2>1. CASE m = 0
    BY <2>1
  <2>2. CASE m > 0
    <3>0. m \in 0..Len(a)
      OBVIOUS
    <3>1. m - 1 \notin T /\ m - 1 \in 0..Len(a) /\ m \in 1..Len(a)
      <4> HIDE DEF T
      <4> QED
        BY <1>0, <1>2, <2>2, <3>0
    <3>2. PICK j \in 1..Len(a) : j > m - 1 /\ ~(a[j] < CRASH_LOOP_WINDOW_MS)
      BY <3>1
    <3>3. j = m
      BY <1>2, <3>1, <3>2
    <3>4. ASSUME i <= m PROVE FALSE
      <4>1. a[m] <= a[i] /\ a[m] \in Nat /\ a[i] \in Nat
        BY <1>0, <3>1, <3>4, CrashLoopAssumption DEF Sorted, Age
      <4> QED
        BY <4>1, <3>2, <3>3, <1>3, CrashLoopAssumption
    <3> QED
      BY <3>1, <3>4
  <2> QED
    BY <1>0, <1>2, <2>1, <2>2
<1> QED
  BY <1>2, <1>3

\* What the filter keeps: the entries from the end that are young, all of them.
LEMMA WithinKeeps ==
    ASSUME NEW a \in Ages
    PROVE  /\ Within(a) \in Ages
           /\ Len(Within(a)) <= Len(a)
           /\ \A j \in 1..Len(Within(a)) :
                 /\ Within(a)[j] = a[Len(a) - Len(Within(a)) + j]
                 /\ Within(a)[j] < CRASH_LOOP_WINDOW_MS
           /\ \A i \in 1..Len(a) :
                 a[i] < CRASH_LOOP_WINDOW_MS => i > Len(a) - Len(Within(a))
<1>0. a \in Seq(Age) /\ Sorted(a) /\ Len(a) \in Nat /\ \A i \in 1..Len(a) : a[i] \in Age
  BY DEF Ages
<1> DEFINE Stale(n) == \A i \in 1..Len(a) : a[i] < CRASH_LOOP_WINDOW_MS <=> i > n
           stale == CHOOSE n \in 0..Len(a) : Stale(n)
           b == SubSeq(a, stale + 1, Len(a))
<1>1. stale \in 0..Len(a) /\ Stale(stale)
  BY StalePrefix
<1>2. Within(a) = b
  BY DEF Within
<1> HIDE DEF stale
<1>3. /\ b \in Seq(Age) /\ Len(b) = Len(a) - stale
      /\ \A j \in 1..Len(b) : b[j] = a[stale + j]
  BY <1>0, <1>1
<1> HIDE DEF b
<1>4. Sorted(b)
  <2> SUFFICES ASSUME NEW i \in 1..Len(b), NEW j \in 1..Len(b), i <= j PROVE b[j] <= b[i]
    BY DEF Sorted
  <2>1. stale + i \in 1..Len(a) /\ stale + j \in 1..Len(a) /\ stale + i <= stale + j
    BY <1>0, <1>1, <1>3
  <2> QED
    BY <1>0, <1>3, <2>1 DEF Sorted
<1>5. \A j \in 1..Len(b) : b[j] < CRASH_LOOP_WINDOW_MS
  BY <1>0, <1>1, <1>3
<1>6. \A i \in 1..Len(a) : a[i] < CRASH_LOOP_WINDOW_MS => i > Len(a) - Len(b)
  BY <1>0, <1>1, <1>3
<1>7. Len(b) <= Len(a) /\ \A j \in 1..Len(b) : b[j] = a[Len(a) - Len(b) + j]
  BY <1>0, <1>1, <1>3
<1> QED
  BY <1>2, <1>3, <1>4, <1>5, <1>6, <1>7 DEF Ages

\* A new entry is the youngest.
LEMMA AppendKeeps ==
    ASSUME NEW a \in Ages
    PROVE  /\ Append(a, 0) \in Ages
           /\ Len(Append(a, 0)) = Len(a) + 1
           /\ \A i \in 1..Len(a) : Append(a, 0)[i] = a[i]
           /\ Append(a, 0)[Len(a) + 1] = 0
<1>0. a \in Seq(Age) /\ Sorted(a) /\ Len(a) \in Nat /\ \A i \in 1..Len(a) : a[i] \in Nat
  BY CrashLoopAssumption DEF Ages, Age
<1> DEFINE b == Append(a, 0)
<1>1. /\ b \in Seq(Age) /\ Len(b) = Len(a) + 1
      /\ \A i \in 1..Len(a) : b[i] = a[i]
      /\ b[Len(a) + 1] = 0
  BY <1>0, CrashLoopAssumption DEF Age
<1> HIDE DEF b
<1>2. Sorted(b)
  BY <1>0, <1>1 DEF Sorted
<1> QED
  BY <1>1, <1>2 DEF Ages, b

\* Growing older keeps a list's order.
LEMMA OlderKeeps ==
    ASSUME NEW a \in Ages
    PROVE  /\ Older(a) \in Ages
           /\ Len(Older(a)) = Len(a)
           /\ \A i \in 1..Len(a) :
                 Older(a)[i] = IF a[i] < CRASH_LOOP_WINDOW_MS THEN a[i] + 1 ELSE a[i]
<1>0. /\ a \in Seq(Age) /\ Sorted(a) /\ Len(a) \in Nat /\ DOMAIN a = 1..Len(a)
      /\ \A i \in 1..Len(a) : a[i] \in Age
  BY DEF Ages
<1> DEFINE b == [i \in 1..Len(a) |-> IF a[i] < CRASH_LOOP_WINDOW_MS THEN a[i] + 1 ELSE a[i]]
<1>1. Older(a) = b
  BY <1>0 DEF Older
<1>2. \A i \in 1..Len(a) : b[i] \in Age
  BY <1>0, CrashLoopAssumption DEF Age
<1>3. b \in Seq(Age) /\ Len(b) = Len(a)
  BY <1>0, <1>2
<1>4. \A i \in 1..Len(a) : b[i] = IF a[i] < CRASH_LOOP_WINDOW_MS THEN a[i] + 1 ELSE a[i]
  OBVIOUS
<1> HIDE DEF b
<1>5. Sorted(b)
  <2> SUFFICES ASSUME NEW i \in 1..Len(a), NEW j \in 1..Len(a), i <= j PROVE b[j] <= b[i]
    BY <1>3 DEF Sorted
  <2>1. a[j] <= a[i] /\ a[i] \in 0..CRASH_LOOP_WINDOW_MS /\ a[j] \in 0..CRASH_LOOP_WINDOW_MS
    BY <1>0 DEF Sorted, Age
  <2> QED
    BY <1>4, <2>1, CrashLoopAssumption
<1> QED
  BY <1>1, <1>3, <1>4, <1>5 DEF Ages

-------------------------------------------------------------------------------
(* The boots that served, and the causes of boots, against the history *)

\* The history has an entry for every boot of a list, no older, k boots before its end.
Covers(H, S, k) ==
    /\ Len(S) + k <= Len(H)
    /\ \A j \in 1..Len(S) : H[Len(H) - k - Len(S) + j] <= S[j]

\* Every entry is within the window.
AllYoung(S) == \A j \in 1..Len(S) : S[j] < CRASH_LOOP_WINDOW_MS

\* An entry of now is young.
LEMMA YoungAppend ==
    ASSUME NEW a \in Ages, AllYoung(a)
    PROVE  AllYoung(Append(a, 0))
<1>1. /\ Len(Append(a, 0)) = Len(a) + 1 /\ Append(a, 0)[Len(a) + 1] = 0
      /\ \A i \in 1..Len(a) : Append(a, 0)[i] = a[i]
  BY AppendKeeps
<1>2. Len(a) \in Nat
  BY DEF Ages
<1>3. ASSUME NEW j \in 1..Len(Append(a, 0))
      PROVE  Append(a, 0)[j] < CRASH_LOOP_WINDOW_MS
  <2>1. CASE j = Len(a) + 1
    BY <1>1, <2>1, CrashLoopAssumption
  <2>2. CASE j # Len(a) + 1
    <3>1. j \in 1..Len(a)
      BY <1>1, <1>2, <2>2
    <3> QED
      BY <1>1, <3>1 DEF AllYoung
  <2> QED
    BY <2>1, <2>2
<1> QED
  BY <1>3 DEF AllYoung

\* The shape of a list of ages.
LEMMA ListTypes ==
    ASSUME NEW a \in Ages
    PROVE  /\ a \in Seq(Age) /\ Sorted(a) /\ Len(a) \in Nat
           /\ \A i \in 1..Len(a) : a[i] \in Nat
BY CrashLoopAssumption DEF Ages, Age

\* A boot that is counted is in the history before it serves.
LEMMA CoversNewBoot ==
    ASSUME NEW H \in Ages, NEW S \in Ages, Covers(H, S, 0)
    PROVE  Covers(Append(H, 0), S, 1)
<1> DEFINE G == Append(H, 0)
<1>1. Len(G) = Len(H) + 1 /\ \A i \in 1..Len(H) : G[i] = H[i]
  BY AppendKeeps
<1>2. Len(H) \in Nat /\ Len(S) \in Nat
  BY ListTypes
<1> HIDE DEF G
<1>3. Covers(G, S, 1)
  <2>1. ASSUME NEW j \in 1..Len(S) PROVE G[Len(G) - 1 - Len(S) + j] <= S[j]
    <3>1. Len(H) - Len(S) + j \in 1..Len(H)
      BY <1>2 DEF Covers
    <3>2. Len(G) - 1 - Len(S) + j = Len(H) - Len(S) + j /\ Len(H) - 0 - Len(S) + j = Len(H) - Len(S) + j
      BY <1>1, <1>2
    <3> QED
      BY <1>1, <3>1, <3>2 DEF Covers
  <2> QED
    BY <1>1, <1>2, <2>1 DEF Covers
<1> QED
  BY <1>3 DEF G

\* A boot that serves is matched by the entry the boot check made of it.
LEMMA CoversServed ==
    ASSUME NEW H \in Ages, NEW S \in Ages, Covers(H, S, 1), H[Len(H)] = 0
    PROVE  Covers(H, Append(S, 0), 0)
<1> DEFINE R == Append(S, 0)
<1>1. Len(R) = Len(S) + 1 /\ (\A i \in 1..Len(S) : R[i] = S[i]) /\ R[Len(S) + 1] = 0
  BY AppendKeeps
<1>2. Len(H) \in Nat /\ Len(S) \in Nat
  BY ListTypes
<1> HIDE DEF R
<1>3. Covers(H, R, 0)
  <2>1. ASSUME NEW j \in 1..Len(R) PROVE H[Len(H) - 0 - Len(R) + j] <= R[j]
    <3>1. CASE j \in 1..Len(S)
      <4>1. Len(H) - 0 - Len(R) + j = Len(H) - 1 - Len(S) + j
        BY <1>1, <1>2
      <4> QED
        BY <1>1, <3>1, <4>1 DEF Covers
    <3>2. CASE j = Len(S) + 1
      <4>1. Len(H) - 0 - Len(R) + j = Len(H)
        BY <1>1, <1>2, <3>2
      <4> QED
        BY <1>1, <3>2, <4>1
    <3> QED
      BY <1>1, <1>2, <3>1, <3>2
  <2> QED
    BY <1>1, <1>2, <2>1 DEF Covers
<1> QED
  BY <1>3 DEF R

\* The boots that served are in the history, whether or not it has a newer one.
LEMMA CoversWeaker ==
    ASSUME NEW H \in Ages, NEW S \in Ages, Covers(H, S, 1)
    PROVE  Covers(H, S, 0)
<1>1. Len(H) \in Nat /\ Len(S) \in Nat /\ Sorted(H) /\ (\A i \in 1..Len(H) : H[i] \in Nat)
      /\ (\A i \in 1..Len(S) : S[i] \in Nat)
  BY ListTypes
<1>2. ASSUME NEW j \in 1..Len(S) PROVE H[Len(H) - 0 - Len(S) + j] <= S[j]
  <2> DEFINE i == Len(H) - 1 - Len(S) + j
  <2>1. i \in 1..Len(H) /\ i + 1 \in 1..Len(H) /\ Len(H) - 0 - Len(S) + j = i + 1
    BY <1>1 DEF Covers
  <2>2. H[i] <= S[j]
    BY DEF Covers
  <2>3. H[i + 1] <= H[i]
    <3> HIDE DEF i
    <3> QED
      BY <1>1, <2>1 DEF Sorted
  <2> HIDE DEF i
  <2> QED
    BY <1>1, <2>1, <2>2, <2>3
<1> QED
  BY <1>1, <1>2 DEF Covers

\* Pruning drops no boot that served within the window.
LEMMA CoversWithin ==
    ASSUME NEW H \in Ages, NEW S \in Ages, Covers(H, S, 0), AllYoung(S)
    PROVE  Covers(Within(H), S, 0)
<1> DEFINE G == Within(H)
<1>1. /\ G \in Ages /\ Len(G) <= Len(H)
      /\ \A j \in 1..Len(G) : G[j] = H[Len(H) - Len(G) + j]
      /\ \A i \in 1..Len(H) : H[i] < CRASH_LOOP_WINDOW_MS => i > Len(H) - Len(G)
  BY WithinKeeps
<1> HIDE DEF G
<1>2. /\ Len(H) \in Nat /\ Len(S) \in Nat /\ Len(G) \in Nat
      /\ (\A i \in 1..Len(H) : H[i] \in Nat) /\ (\A i \in 1..Len(S) : S[i] \in Nat)
  BY <1>1, ListTypes
<1>3. Len(S) <= Len(G)
  <2>1. CASE Len(S) = 0
    BY <1>2, <2>1
  <2>2. CASE Len(S) > 0
    <3> DEFINE i == Len(H) - 0 - Len(S) + 1
    <3>1. i \in 1..Len(H) /\ i = Len(H) - Len(S) + 1 /\ 1 \in 1..Len(S)
      BY <1>2, <2>2 DEF Covers
    <3>2. H[i] <= S[1] /\ S[1] < CRASH_LOOP_WINDOW_MS
      BY <3>1 DEF Covers, AllYoung
    <3> HIDE DEF i
    <3>3. H[i] < CRASH_LOOP_WINDOW_MS
      BY <1>2, <3>1, <3>2, CrashLoopAssumption
    <3>4. i > Len(H) - Len(G)
      BY <1>1, <3>1, <3>3
    <3> QED
      BY <1>2, <3>1, <3>4
  <2> QED
    BY <1>2, <2>1, <2>2
<1>4. ASSUME NEW j \in 1..Len(S) PROVE G[Len(G) - 0 - Len(S) + j] <= S[j]
  <2> DEFINE i == Len(G) - 0 - Len(S) + j
  <2>1. i \in 1..Len(G) /\ Len(H) - Len(G) + i = Len(H) - 0 - Len(S) + j
    BY <1>2, <1>3
  <2>2. H[Len(H) - 0 - Len(S) + j] <= S[j]
    BY DEF Covers
  <2> HIDE DEF i
  <2>3. G[i] = H[Len(H) - Len(G) + i]
    BY <1>1, <2>1
  <2>4. G[i] <= S[j]
    BY <2>1, <2>2, <2>3
  <2> QED
    BY <2>4 DEF i
<1>5. Covers(G, S, 0)
  BY <1>2, <1>3, <1>4 DEF Covers
<1> QED
  BY <1>5 DEF G

\* Boots and their entries grow old together.
LEMMA CoversTick ==
    ASSUME NEW H \in Ages, NEW S \in Ages, Covers(H, S, 0)
    PROVE  Covers(Older(H), Within(Older(S)), 0)
<1> DEFINE G == Older(H)
           O == Older(S)
           R == Within(O)
<1>1. /\ G \in Ages /\ Len(G) = Len(H)
      /\ \A i \in 1..Len(H) : G[i] = IF H[i] < CRASH_LOOP_WINDOW_MS THEN H[i] + 1 ELSE H[i]
  BY OlderKeeps
<1>2. /\ O \in Ages /\ Len(O) = Len(S)
      /\ \A i \in 1..Len(S) : O[i] = IF S[i] < CRASH_LOOP_WINDOW_MS THEN S[i] + 1 ELSE S[i]
  BY OlderKeeps
<1> HIDE DEF G, O
<1>3. /\ R \in Ages /\ Len(R) <= Len(O)
      /\ \A j \in 1..Len(R) : R[j] = O[Len(O) - Len(R) + j]
  BY <1>2, WithinKeeps
<1> HIDE DEF R
<1>4. /\ Len(H) \in Nat /\ Len(S) \in Nat /\ Len(R) \in Nat
      /\ (\A i \in 1..Len(H) : H[i] \in Age) /\ (\A i \in 1..Len(S) : S[i] \in Age)
  BY <1>3 DEF Ages
<1>5. ASSUME NEW j \in 1..Len(R) PROVE G[Len(G) - 0 - Len(R) + j] <= R[j]
  <2> DEFINE s == Len(S) - Len(R) + j
             h == Len(H) - 0 - Len(S) + s
  <2>1. s \in 1..Len(S) /\ h \in 1..Len(H) /\ Len(G) - 0 - Len(R) + j = h
        /\ Len(O) - Len(R) + j = s
    BY <1>1, <1>2, <1>3, <1>4 DEF Covers
  <2> HIDE DEF s
  <2>2. H[h] <= S[s]
    BY <2>1 DEF Covers
  <2> HIDE DEF h
  <2>3. R[j] = O[s]
    BY <1>3, <2>1
  <2>4. G[h] <= O[s]
    <3>1. H[h] \in 0..CRASH_LOOP_WINDOW_MS /\ S[s] \in 0..CRASH_LOOP_WINDOW_MS
      BY <1>4, <2>1 DEF Age
    <3>2. /\ G[h] = IF H[h] < CRASH_LOOP_WINDOW_MS THEN H[h] + 1 ELSE H[h]
          /\ O[s] = IF S[s] < CRASH_LOOP_WINDOW_MS THEN S[s] + 1 ELSE S[s]
      BY <1>1, <1>2, <2>1
    <3> QED
      BY <2>2, <3>1, <3>2, CrashLoopAssumption
  <2> QED
    BY <2>1, <2>3, <2>4
<1>6. Covers(G, R, 0)
  BY <1>1, <1>2, <1>3, <1>4, <1>5 DEF Covers
<1> QED
  BY <1>6 DEF G, R, O

\* Every young boot of the history but the last k was followed by a cause, no older.
Followed(H, C, k) ==
    \A j \in 1..(Len(H) - k) :
        H[j] < CRASH_LOOP_WINDOW_MS =>
            /\ Len(H) - k - j < Len(C)
            /\ C[Len(C) - Len(H) + k + j] <= H[j]

\* A counted boot, once there is a cause for every boot before it, is the only one without.
LEMMA FollowedNewBoot ==
    ASSUME NEW H \in Ages, NEW C \in Ages, Followed(H, C, 0)
    PROVE  Followed(Append(H, 0), C, 1)
<1> DEFINE G == Append(H, 0)
<1>1. Len(G) = Len(H) + 1 /\ \A i \in 1..Len(H) : G[i] = H[i]
  BY AppendKeeps
<1>2. Len(H) \in Nat /\ Len(C) \in Nat
  BY ListTypes
<1> HIDE DEF G
<1>3. Followed(G, C, 1)
  <2> SUFFICES ASSUME NEW j \in 1..(Len(G) - 1), G[j] < CRASH_LOOP_WINDOW_MS
               PROVE  Len(G) - 1 - j < Len(C) /\ C[Len(C) - Len(G) + 1 + j] <= G[j]
    BY DEF Followed
  <2>1. j \in 1..(Len(H) - 0) /\ G[j] = H[j]
    BY <1>1, <1>2
  <2>2. Len(G) - 1 - j = Len(H) - 0 - j /\ Len(C) - Len(G) + 1 + j = Len(C) - Len(H) + 0 + j
    BY <1>1, <1>2
  <2> QED
    BY <2>1, <2>2 DEF Followed
<1> QED
  BY <1>3 DEF G

\* A cause makes up for the last boot.
LEMMA FollowedNewCause ==
    ASSUME NEW H \in Ages, NEW C \in Ages, Followed(H, C, 1)
    PROVE  Followed(H, Append(C, 0), 0)
<1> DEFINE D == Append(C, 0)
<1>1. Len(D) = Len(C) + 1 /\ (\A i \in 1..Len(C) : D[i] = C[i]) /\ D[Len(C) + 1] = 0
  BY AppendKeeps
<1>2. Len(H) \in Nat /\ Len(C) \in Nat /\ \A i \in 1..Len(H) : H[i] \in Nat
  BY ListTypes
<1> HIDE DEF D
<1>3. Followed(H, D, 0)
  <2> SUFFICES ASSUME NEW j \in 1..(Len(H) - 0), H[j] < CRASH_LOOP_WINDOW_MS
               PROVE  Len(H) - 0 - j < Len(D) /\ D[Len(D) - Len(H) + 0 + j] <= H[j]
    BY DEF Followed
  <2>1. CASE j = Len(H)
    <3>1. Len(D) - Len(H) + 0 + j = Len(C) + 1 /\ H[j] \in Nat
      BY <1>1, <1>2, <2>1
    <3> QED
      BY <1>1, <1>2, <2>1, <3>1
  <2>2. CASE j # Len(H)
    <3>1. j \in 1..(Len(H) - 1)
      BY <1>2, <2>2
    <3>2. Len(H) - 1 - j < Len(C) /\ C[Len(C) - Len(H) + 1 + j] <= H[j]
      BY <3>1 DEF Followed
    <3>3. /\ Len(D) - Len(H) + 0 + j = Len(C) - Len(H) + 1 + j
          /\ Len(C) - Len(H) + 1 + j \in 1..Len(C)
      BY <1>1, <1>2, <3>1, <3>2
    <3>4. D[Len(C) - Len(H) + 1 + j] = C[Len(C) - Len(H) + 1 + j]
      BY <1>1, <3>3
    <3>5. Len(H) - 0 - j < Len(D)
      BY <1>1, <1>2, <3>2
    <3> QED
      BY <3>2, <3>3, <3>4, <3>5
  <2> QED
    BY <2>1, <2>2
<1> QED
  BY <1>3 DEF D

\* As many causes as boots are enough for one boot less.
LEMMA FollowedWeaker ==
    ASSUME NEW H \in Ages, NEW C \in Ages, Followed(H, C, 0)
    PROVE  Followed(H, C, 1)
<1>1. /\ Len(H) \in Nat /\ Len(C) \in Nat /\ Sorted(H)
      /\ (\A i \in 1..Len(H) : H[i] \in Nat) /\ (\A i \in 1..Len(C) : C[i] \in Nat)
  BY ListTypes
<1> SUFFICES ASSUME NEW j \in 1..(Len(H) - 1), H[j] < CRASH_LOOP_WINDOW_MS
             PROVE  Len(H) - 1 - j < Len(C) /\ C[Len(C) - Len(H) + 1 + j] <= H[j]
  BY DEF Followed
<1> DEFINE i == j + 1
<1>2. i \in 1..(Len(H) - 0) /\ i \in 1..Len(H) /\ j \in 1..Len(H) /\ i > j
  BY <1>1
<1>3. Len(H) - 0 - i = Len(H) - 1 - j /\ Len(C) - Len(H) + 0 + i = Len(C) - Len(H) + 1 + j
  BY <1>1
<1> HIDE DEF i
<1>4. H[i] <= H[j] /\ H[i] \in Nat /\ H[j] \in Nat
  BY <1>1, <1>2 DEF Sorted
<1>5. H[i] < CRASH_LOOP_WINDOW_MS
  BY <1>4, CrashLoopAssumption
<1>6. Len(H) - 0 - i < Len(C) /\ C[Len(C) - Len(H) + 0 + i] <= H[i]
  BY <1>2, <1>5 DEF Followed
<1>7. Len(C) - Len(H) + 0 + i \in 1..Len(C)
  BY <1>1, <1>2, <1>6
<1>8. C[Len(C) - Len(H) + 0 + i] \in Nat
  BY <1>1, <1>7
<1> QED
  BY <1>3, <1>4, <1>6, <1>8

\* Pruning takes the stale boots, not the causes of the young ones.
LEMMA FollowedWithin ==
    ASSUME NEW H \in Ages, NEW C \in Ages, NEW k \in 0..1, Followed(H, C, k)
    PROVE  Followed(Within(H), C, k)
<1> DEFINE G == Within(H)
<1>1. /\ G \in Ages /\ Len(G) <= Len(H)
      /\ \A j \in 1..Len(G) : G[j] = H[Len(H) - Len(G) + j]
  BY WithinKeeps
<1> HIDE DEF G
<1>2. Len(H) \in Nat /\ Len(C) \in Nat /\ Len(G) \in Nat
  BY <1>1, ListTypes
<1>3. Followed(G, C, k)
  <2> SUFFICES ASSUME NEW j \in 1..(Len(G) - k), G[j] < CRASH_LOOP_WINDOW_MS
               PROVE  Len(G) - k - j < Len(C) /\ C[Len(C) - Len(G) + k + j] <= G[j]
    BY DEF Followed
  <2> DEFINE i == Len(H) - Len(G) + j
  <2>1. i \in 1..(Len(H) - k) /\ Len(H) - k - i = Len(G) - k - j
        /\ Len(C) - Len(H) + k + i = Len(C) - Len(G) + k + j /\ j \in 1..Len(G)
    BY <1>1, <1>2
  <2>2. G[j] = H[i]
    BY <1>1, <2>1
  <2> HIDE DEF i
  <2> QED
    BY <2>1, <2>2 DEF Followed
<1> QED
  BY <1>3 DEF G

\* Boots and causes grow old together, and a cause no older than a young boot is young.
LEMMA FollowedTick ==
    ASSUME NEW H \in Ages, NEW C \in Ages, NEW k \in 0..1, Followed(H, C, k)
    PROVE  Followed(Older(H), Within(Older(C)), k)
<1> DEFINE G == Older(H)
           O == Older(C)
           D == Within(O)
<1>1. /\ G \in Ages /\ Len(G) = Len(H)
      /\ \A i \in 1..Len(H) : G[i] = IF H[i] < CRASH_LOOP_WINDOW_MS THEN H[i] + 1 ELSE H[i]
  BY OlderKeeps
<1>2. /\ O \in Ages /\ Len(O) = Len(C)
      /\ \A i \in 1..Len(C) : O[i] = IF C[i] < CRASH_LOOP_WINDOW_MS THEN C[i] + 1 ELSE C[i]
  BY OlderKeeps
<1> HIDE DEF G, O
<1>3. /\ D \in Ages /\ Len(D) <= Len(O)
      /\ \A j \in 1..Len(D) : D[j] = O[Len(O) - Len(D) + j]
      /\ \A i \in 1..Len(O) : O[i] < CRASH_LOOP_WINDOW_MS => i > Len(O) - Len(D)
  BY <1>2, WithinKeeps
<1> HIDE DEF D
<1>4. /\ Len(H) \in Nat /\ Len(C) \in Nat /\ Len(D) \in Nat
      /\ (\A i \in 1..Len(H) : H[i] \in Age) /\ (\A i \in 1..Len(C) : C[i] \in Age)
  BY <1>3 DEF Ages
<1>5. Followed(G, D, k)
  <2> SUFFICES ASSUME NEW j \in 1..(Len(G) - k), G[j] < CRASH_LOOP_WINDOW_MS
               PROVE  Len(G) - k - j < Len(D) /\ D[Len(D) - Len(G) + k + j] <= G[j]
    BY DEF Followed
  <2> DEFINE c == Len(C) - Len(H) + k + j
  <2>1. j \in 1..(Len(H) - k) /\ j \in 1..Len(H)
    BY <1>1, <1>4
  <2>2. H[j] \in 0..CRASH_LOOP_WINDOW_MS
    BY <1>4, <2>1 DEF Age
  <2>3. G[j] = H[j] + 1 /\ H[j] < CRASH_LOOP_WINDOW_MS
    <3>1. G[j] = IF H[j] < CRASH_LOOP_WINDOW_MS THEN H[j] + 1 ELSE H[j]
      BY <1>1, <2>1
    <3> QED
      BY <2>2, <3>1, CrashLoopAssumption
  <2>4. Len(H) - k - j < Len(C) /\ C[c] <= H[j]
    BY <2>1, <2>3 DEF Followed
  <2>5. c \in 1..Len(C)
    BY <1>4, <2>1, <2>4
  <2>6. C[c] \in 0..CRASH_LOOP_WINDOW_MS
    BY <1>4, <2>5 DEF Age
  <2>7. O[c] = C[c] + 1 /\ O[c] <= G[j] /\ O[c] < CRASH_LOOP_WINDOW_MS
    <3> HIDE DEF c
    <3>1. O[c] = IF C[c] < CRASH_LOOP_WINDOW_MS THEN C[c] + 1 ELSE C[c]
      BY <1>2, <2>5
    <3> QED
      BY <2>2, <2>3, <2>4, <2>6, <3>1, CrashLoopAssumption
  <2>8. c > Len(O) - Len(D)
    BY <1>2, <1>3, <2>5, <2>7
  <2> DEFINE d == Len(D) - Len(G) + k + j
  <2>9. d \in 1..Len(D) /\ Len(O) - Len(D) + d = c
    BY <1>1, <1>2, <1>3, <1>4, <2>5, <2>8, <2>1
  <2>10. D[d] = O[Len(O) - Len(D) + d]
    <3> HIDE DEF d, c
    <3> QED
      BY <1>3, <2>9
  <2>11. Len(G) - k - j < Len(D)
    BY <1>1, <1>4, <2>1, <2>9
  <2> QED
    BY <2>7, <2>9, <2>10, <2>11
<1> QED
  BY <1>5 DEF G, D, O

\* Young boots and causes counted.
LEMMA FollowedCount ==
    ASSUME NEW H \in Ages, NEW C \in Ages, NEW k \in 0..1, Followed(H, C, k), AllYoung(H)
    PROVE  Len(C) >= Len(H) - k
<1>1. Len(H) \in Nat /\ Len(C) \in Nat
  BY ListTypes
<1>2. CASE Len(H) <= k
  BY <1>1, <1>2
<1>3. CASE Len(H) > k
  <2>1. 1 \in 1..(Len(H) - k) /\ 1 \in 1..Len(H)
    BY <1>1, <1>3
  <2>2. Len(H) - k - 1 < Len(C)
    BY <2>1 DEF Followed, AllYoung
  <2> QED
    BY <1>1, <2>2
<1> QED
  BY <1>1, <1>2, <1>3

-------------------------------------------------------------------------------
(* The restart guard: a stay-down has its causes *)

\* The process and the markers.
ProcTypes ==
    /\ proc \in Booting \cup {"serving", "stopping", "stopped", "crashed", "down"}
    /\ clean_shutdown_marker \in BOOLEAN
    /\ hadCleanShutdownMarker \in BOOLEAN

\* Every list is kept oldest first.
ListsInv ==
    /\ restart_history \in Ages
    /\ served \in Ages
    /\ causes \in Ages

\* The boot in progress, or the next one, counts.
Counts ==
    \/ proc = "evaluate" /\ ~hadCleanShutdownMarker
    \/ proc \in {"stopping", "stopped", "crashed", "down", "readMarker"} /\ ~clean_shutdown_marker

\* Before a counted boot there is a cause for every boot of the history, else for
\* every one but the last.
CauseInv ==
    /\ Followed(restart_history, causes, 1)
    /\ Counts => Followed(restart_history, causes, 0)
    /\ proc = "alert" => Len(causes) >= CRASH_LOOP_MAX_BOOTS - 1

TripInv == ProcTypes /\ ListsInv /\ CauseInv

\* The history before the first boot.
LEMMA EmptyList == <<>> \in Ages /\ Len(<<>>) = 0
<1>1. <<>> \in Seq(Age) /\ Len(<<>>) = 0
  OBVIOUS
<1> QED
  BY <1>1 DEF Ages, Sorted

\* Nothing has happened before the first boot.
LEMMA ListsInit == GuardInit => ListsInv
BY EmptyList DEF GuardInit, ListsInv

\* Without a boot no cause is missing.
LEMMA TripInit == GuardInit => TripInv
<1> SUFFICES ASSUME GuardInit PROVE TripInv
  OBVIOUS
<1>1. ListsInv
  BY ListsInit
<1>2. ProcTypes
  BY DEF GuardInit, ProcTypes
<1>3. \A k \in 0..1 : Followed(restart_history, causes, k)
  <2>1. restart_history = <<>> /\ Len(restart_history) = 0
    BY EmptyList DEF GuardInit
  <2>2. \A k \in 0..1 : 1..(Len(restart_history) - k) = {}
    BY <2>1
  <2> QED
    BY <2>2 DEF Followed
<1>4. proc # "alert"
  BY DEF GuardInit
<1> QED
  BY <1>1, <1>2, <1>3, <1>4 DEF TripInv, CauseInv

\* The lists stay lists, and the process and the markers keep their types.
LEMMA ListsNext ==
    ASSUME ListsInv, ProcTypes, [GuardNext]_guardVars
    PROVE  ListsInv' /\ ProcTypes'
<1>0. /\ restart_history \in Ages /\ served \in Ages /\ causes \in Ages
      /\ Append(served, 0) \in Ages /\ Append(causes, 0) \in Ages
  BY AppendKeeps DEF ListsInv
<1>1. CASE Tick
  <2>1. /\ Older(restart_history) \in Ages /\ Older(served) \in Ages /\ Older(causes) \in Ages
    BY <1>0, OlderKeeps
  <2>2. Within(Older(served)) \in Ages /\ Within(Older(causes)) \in Ages
    BY <2>1, WithinKeeps
  <2> QED
    BY <1>1, <2>1, <2>2 DEF Tick, ListsInv, ProcTypes
<1>2. ASSUME NEW readOk \in BOOLEAN, NEW writeOk \in BOOLEAN, EvaluateBoot(readOk, writeOk)
      PROVE  ListsInv' /\ ProcTypes'
  <2> DEFINE prior == IF readOk THEN restart_history ELSE <<>>
             pruned == prunedHistory(prior)
  <2>1. <<>> \in Ages
    BY EmptyList
  <2>2. prior \in Ages
    BY <1>0, <2>1
  <2> HIDE DEF prior
  <2>3. Within(prior) \in Ages /\ Append(Within(prior), 0) \in Ages
    BY <2>2, WithinKeeps, AppendKeeps
  <2>4. pruned \in Ages
    BY <2>3 DEF prunedHistory
  <2>5. /\ restart_history' = IF writeOk THEN pruned ELSE restart_history
        /\ proc' \in {"alert", "start"}
        /\ clean_shutdown_marker' = clean_shutdown_marker
        /\ hadCleanShutdownMarker' = hadCleanShutdownMarker
        /\ served' = served /\ causes' = causes
    BY <1>2 DEF EvaluateBoot, prior
  <2> HIDE DEF pruned
  <2>6. restart_history' \in Ages
    BY <1>0, <2>4, <2>5
  <2> QED
    BY <1>0, <2>5, <2>6 DEF ListsInv, ProcTypes, Booting
<1>3. ASSUME NEW ok \in BOOLEAN, ReadMarker(ok) \/ Shutdown(ok)
      PROVE  ListsInv' /\ ProcTypes'
  BY <1>0, <1>3 DEF ReadMarker, Shutdown, ListsInv, ProcTypes, Booting
<1>4. CASE StayDown \/ Serve \/ Exit \/ StopDuringBoot \/ Crash
  BY <1>0, <1>4 DEF StayDown, Serve, Exit, StopDuringBoot, Crash, ListsInv, ProcTypes
<1>5. CASE DockerRestarts \/ OperatorStarts
  BY <1>0, <1>5 DEF DockerRestarts, OperatorStarts, Boot, ListsInv, ProcTypes, Booting
<1>6. CASE UNCHANGED guardVars
  BY <1>0, <1>6 DEF guardVars, ListsInv, ProcTypes
<1>7. \A fault : Outcomes(fault) \subseteq BOOLEAN
  BY DEF Outcomes
<1> QED
  BY <1>1, <1>2, <1>3, <1>4, <1>5, <1>6, <1>7 DEF GuardNext

\* A boot is counted only after a cause, or as the first; every end but a marked one is a cause.
LEMMA TripNext == TripInv /\ [GuardNext]_guardVars => TripInv'
<1> SUFFICES ASSUME TripInv, [GuardNext]_guardVars PROVE TripInv'
  OBVIOUS
<1>0. ListsInv' /\ ProcTypes'
  BY ListsNext DEF TripInv
<1>a. /\ restart_history \in Ages /\ causes \in Ages /\ 0 \in 0..1 /\ 1 \in 0..1
      /\ clean_shutdown_marker \in BOOLEAN /\ hadCleanShutdownMarker \in BOOLEAN
  BY DEF TripInv, ListsInv, ProcTypes
<1>b. Followed(restart_history, causes, 1)
  BY DEF TripInv, CauseInv
<1>c. Followed(restart_history, Append(causes, 0), 0)
  BY <1>a, <1>b, FollowedNewCause
<1>d. Followed(restart_history, Append(causes, 0), 1)
  BY <1>a, <1>c, AppendKeeps, FollowedWeaker
\* A step that adds a cause and leaves the history.
<1>1. CASE /\ restart_history' = restart_history /\ causes' = Append(causes, 0)
           /\ proc' # "alert"
  BY <1>0, <1>1, <1>c, <1>d DEF TripInv, CauseInv
<1>2. CASE /\ restart_history' = restart_history /\ causes' = causes
           /\ proc' # "alert" /\ (Counts' => Counts)
  BY <1>0, <1>2 DEF TripInv, CauseInv
<1>3. CASE Tick
  <2>1. /\ Followed(Older(restart_history), Within(Older(causes)), 1)
        /\ Counts => Followed(Older(restart_history), Within(Older(causes)), 0)
    BY <1>a, FollowedTick DEF TripInv, CauseInv
  <2>2. /\ restart_history' = Older(restart_history) /\ causes' = Within(Older(causes))
        /\ (Counts' <=> Counts) /\ proc' # "alert"
    BY <1>3 DEF Tick, Counts, Booting
  <2> QED
    BY <1>0, <2>1, <2>2 DEF TripInv, CauseInv
<1>4. ASSUME NEW readOk \in BOOLEAN, NEW writeOk \in BOOLEAN, EvaluateBoot(readOk, writeOk)
      PROVE  TripInv'
  <2> DEFINE prior == IF readOk THEN restart_history ELSE <<>>
             young == Within(prior)
             pruned == prunedHistory(prior)
             k == IF hadCleanShutdownMarker THEN 1 ELSE 0
  <2>1. <<>> \in Ages
    BY EmptyList
  <2>2. prior \in Ages /\ k \in 0..1
    BY <1>a, <2>1
  <2>3. Followed(restart_history, causes, k)
    BY <1>a, <1>b, <1>4 DEF TripInv, CauseInv, Counts, EvaluateBoot
  <2>4. Followed(prior, causes, k)
    <3>1. CASE readOk
      BY <2>3, <3>1
    <3>2. CASE ~readOk
      <4>1. 1..(Len(<<>>) - k) = {}
        BY <2>2, EmptyList
      <4> QED
        BY <3>2, <4>1 DEF Followed
    <3> QED
      BY <3>1, <3>2
  <2>5. /\ restart_history' = IF writeOk THEN pruned ELSE restart_history
        /\ proc' = IF Len(pruned) >= CRASH_LOOP_MAX_BOOTS THEN "alert" ELSE "start"
        /\ causes' = causes
    BY <1>4 DEF EvaluateBoot
  <2> HIDE DEF prior
  <2>6. young \in Ages /\ AllYoung(young) /\ Followed(young, causes, k)
    BY <1>a, <2>2, <2>4, WithinKeeps, FollowedWithin DEF AllYoung
  <2>7. Len(young) \in Nat /\ Len(causes) \in Nat /\ Len(causes) >= Len(young) - k
    BY <1>a, <2>2, <2>6, ListTypes, FollowedCount
  <2>8. pruned = IF hadCleanShutdownMarker THEN young ELSE Append(young, 0)
    BY DEF prunedHistory
  <2> HIDE DEF young, pruned
  <2>9. Followed(pruned, causes, 1) /\ Len(causes) >= Len(pruned) - 1 /\ Len(pruned) \in Nat
    <3>1. CASE hadCleanShutdownMarker
      BY <2>6, <2>7, <2>8, <3>1
    <3>2. CASE ~hadCleanShutdownMarker
      <4>1. k = 0 /\ pruned = Append(young, 0)
        BY <2>8, <3>2
      <4> HIDE DEF k
      <4>2. Followed(pruned, causes, 1)
        BY <1>a, <2>6, <4>1, FollowedNewBoot
      <4>3. Len(pruned) = Len(young) + 1
        BY <2>6, <4>1, AppendKeeps
      <4> QED
        BY <2>7, <4>1, <4>2, <4>3
    <3> QED
      BY <1>a, <3>1, <3>2
  <2> HIDE DEF k
  <2>10. Followed(restart_history, causes, 1)' /\ ~Counts'
    BY <1>b, <2>5, <2>9 DEF Counts, Followed
  <2>11. (proc = "alert" => Len(causes) >= CRASH_LOOP_MAX_BOOTS - 1)'
    BY <2>5, <2>7, <2>9, CrashLoopAssumption
  <2> QED
    BY <1>0, <2>10, <2>11 DEF TripInv, CauseInv
<1>5. ASSUME NEW ok \in BOOLEAN, ReadMarker(ok) PROVE TripInv'
  <2>1. CASE ok
    <3>1. /\ restart_history' = restart_history /\ causes' = causes /\ proc' = "evaluate"
          /\ hadCleanShutdownMarker' = clean_shutdown_marker /\ proc = "readMarker"
      BY <1>5, <2>1, <1>a DEF ReadMarker
    <3> QED
      BY <1>2, <3>1 DEF Counts
  <2>2. CASE ~ok
    BY <1>1, <1>5, <2>2 DEF ReadMarker
  <2> QED
    BY <2>1, <2>2
<1>6. ASSUME NEW ok \in BOOLEAN, Shutdown(ok) PROVE TripInv'
  <2>1. CASE ok
    <3>1. /\ restart_history' = restart_history /\ causes' = causes /\ proc' = "stopping"
          /\ clean_shutdown_marker' = TRUE
      BY <1>6, <2>1 DEF Shutdown
    <3> QED
      BY <1>2, <3>1 DEF Counts
  <2>2. CASE ~ok
    BY <1>1, <1>6, <2>2 DEF Shutdown
  <2> QED
    BY <2>1, <2>2
<1>7. CASE StayDown \/ StopDuringBoot \/ Crash
  BY <1>1, <1>7 DEF StayDown, StopDuringBoot, Crash
<1>8. CASE Serve \/ Exit
  BY <1>2, <1>8 DEF Serve, Exit, Counts
<1>9. CASE DockerRestarts \/ OperatorStarts
  BY <1>2, <1>9 DEF DockerRestarts, OperatorStarts, Boot, Counts
<1>10. CASE UNCHANGED guardVars
  <2>1. /\ restart_history' = restart_history /\ causes' = causes /\ proc' = proc
        /\ clean_shutdown_marker' = clean_shutdown_marker
        /\ hadCleanShutdownMarker' = hadCleanShutdownMarker
    BY <1>10 DEF guardVars
  <2> QED
    BY <1>0, <2>1 DEF TripInv, CauseInv, Counts
<1>11. \A fault : Outcomes(fault) \subseteq BOOLEAN
  BY DEF Outcomes
<1> QED
  BY <1>3, <1>4, <1>5, <1>6, <1>7, <1>8, <1>9, <1>10, <1>11 DEF GuardNext

\* The process stays down only for a reason, whatever part of the store fails: all but one
\* of the boots it counts followed an unclean end, a stay-down or a lost marker, so clean
\* restarts never add up to a crash loop (crashLoopGuard.ts's hadCleanShutdownMarker).
THEOREM StayDownHasCauses == GuardSpec => []CleanRestartsNeverTrip
<1>1. TripInv => CleanRestartsNeverTrip
  BY DEF TripInv, CauseInv, CleanRestartsNeverTrip
<1> QED
  BY <1>1, TripInit, TripNext, PTL DEF GuardSpec

-------------------------------------------------------------------------------
(* The restart guard: few boots serve *)

\* Every counted boot that served is in the history; the one about to serve besides.
ServeInv ==
    /\ AllYoung(served)
    /\ Covers(restart_history, served, 0)
    /\ Len(served) < CRASH_LOOP_MAX_BOOTS
    /\ proc = "start" =>
          /\ Len(restart_history) < CRASH_LOOP_MAX_BOOTS
          /\ ~hadCleanShutdownMarker =>
                /\ Covers(restart_history, served, 1)
                /\ restart_history[Len(restart_history)] = 0

ThrashInv == ProcTypes /\ ListsInv /\ ServeInv

\* No boot has served.
LEMMA ThrashInit == GuardInit => ThrashInv
<1> SUFFICES ASSUME GuardInit PROVE ThrashInv
  OBVIOUS
<1>1. ListsInv
  BY ListsInit
<1>2. ProcTypes
  BY DEF GuardInit, ProcTypes
<1>3. served = <<>> /\ Len(served) = 0 /\ restart_history = <<>> /\ Len(restart_history) = 0
      /\ proc # "start"
  BY EmptyList DEF GuardInit
<1> QED
  BY <1>1, <1>2, <1>3, CrashLoopAssumption DEF ThrashInv, ServeInv, AllYoung, Covers

\* A boot serves only when the history, which has it and all that served, is below the limit.
LEMMA ThrashNext ==
    ASSUME {"historyRead", "historyWrite"} \cap StoreFaults = {}
    PROVE  ThrashInv /\ [GuardNext]_guardVars => ThrashInv'
<1> SUFFICES ASSUME ThrashInv, [GuardNext]_guardVars PROVE ThrashInv'
  OBVIOUS
<1>0. ListsInv' /\ ProcTypes'
  BY ListsNext DEF ThrashInv
<1>a. restart_history \in Ages /\ served \in Ages /\ Len(served) \in Nat
      /\ Len(restart_history) \in Nat
  BY ListTypes DEF ThrashInv, ListsInv
<1>b. AllYoung(served) /\ Covers(restart_history, served, 0)
      /\ Len(served) < CRASH_LOOP_MAX_BOOTS
  BY DEF ThrashInv, ServeInv
<1>1. CASE /\ restart_history' = restart_history /\ served' = served /\ proc' # "start"
  BY <1>0, <1>1, <1>b DEF ThrashInv, ServeInv
<1>2. CASE Tick
  <2> DEFINE S == Within(Older(served))
  <2>1. Covers(Older(restart_history), S, 0)
    BY <1>a, <1>b, CoversTick
  <2>2. Older(served) \in Ages /\ Len(Older(served)) = Len(served)
    BY <1>a, OlderKeeps
  <2>3. AllYoung(S) /\ Len(S) <= Len(served) /\ S \in Ages
    BY <2>2, WithinKeeps DEF AllYoung
  <2>4. Len(S) \in Nat
    BY <2>3, ListTypes
  <2>5. restart_history' = Older(restart_history) /\ served' = S /\ proc' # "start"
    BY <1>2 DEF Tick, Booting
  <2> HIDE DEF S
  <2>6. Len(S) < CRASH_LOOP_MAX_BOOTS
    BY <1>a, <1>b, <2>3, <2>4, CrashLoopAssumption
  <2> QED
    BY <1>0, <2>1, <2>3, <2>5, <2>6 DEF ThrashInv, ServeInv
<1>3. CASE EvaluateBoot(TRUE, TRUE)
  <2> DEFINE young == Within(restart_history)
             pruned == prunedHistory(restart_history)
  <2>1. /\ restart_history' = pruned /\ served' = served
        /\ hadCleanShutdownMarker' = hadCleanShutdownMarker
        /\ proc' = IF Len(pruned) >= CRASH_LOOP_MAX_BOOTS THEN "alert" ELSE "start"
    BY <1>3 DEF EvaluateBoot
  <2>2. young \in Ages /\ Covers(young, served, 0)
    BY <1>a, <1>b, WithinKeeps, CoversWithin
  <2>3. pruned = IF hadCleanShutdownMarker THEN young ELSE Append(young, 0)
    BY DEF prunedHistory
  <2> HIDE DEF young, pruned
  <2>4. /\ pruned \in Ages
        /\ Covers(pruned, served, 0)
        /\ ~hadCleanShutdownMarker => Covers(pruned, served, 1) /\ pruned[Len(pruned)] = 0
    <3>1. CASE hadCleanShutdownMarker
      BY <2>2, <2>3, <3>1
    <3>2. CASE ~hadCleanShutdownMarker
      <4>1. pruned = Append(young, 0)
        BY <2>3, <3>2
      <4>2. pruned \in Ages /\ pruned[Len(pruned)] = 0
        BY <2>2, <4>1, AppendKeeps
      <4>3. Covers(pruned, served, 1)
        BY <1>a, <2>2, <4>1, CoversNewBoot
      <4>4. Covers(pruned, served, 0)
        BY <1>a, <4>2, <4>3, CoversWeaker
      <4> QED
        BY <4>2, <4>3, <4>4
    <3> QED
      BY <3>1, <3>2
  <2>5. Len(pruned) \in Nat
    BY <2>4, ListTypes
  <2>6. proc' = "start" => Len(pruned) < CRASH_LOOP_MAX_BOOTS
    BY <2>1, <2>5, CrashLoopAssumption
  <2> QED
    BY <1>0, <1>b, <2>1, <2>4, <2>6 DEF ThrashInv, ServeInv
<1>4. CASE Serve
  <2>1. CASE hadCleanShutdownMarker
    BY <1>1, <1>4, <2>1 DEF Serve
  <2>2. CASE ~hadCleanShutdownMarker
    <3> DEFINE S == Append(served, 0)
    <3>1. restart_history' = restart_history /\ served' = S /\ proc' = "serving"
      BY <1>4, <2>2 DEF Serve
    <3>2. /\ Covers(restart_history, served, 1)
          /\ restart_history[Len(restart_history)] = 0
          /\ Len(restart_history) < CRASH_LOOP_MAX_BOOTS
      BY <1>4, <2>2 DEF Serve, ThrashInv, ServeInv
    <3>3. Covers(restart_history, S, 0)
      BY <1>a, <3>2, CoversServed
    <3>4. Len(S) = Len(served) + 1
      BY <1>a, AppendKeeps
    <3> HIDE DEF S
    <3>5. AllYoung(S)
      BY <1>a, <1>b, YoungAppend DEF S
    <3>6. Len(S) < CRASH_LOOP_MAX_BOOTS
      BY <1>a, <3>2, <3>4, CrashLoopAssumption DEF Covers
    <3> QED
      BY <1>0, <3>1, <3>3, <3>5, <3>6 DEF ThrashInv, ServeInv
  <2> QED
    BY <2>1, <2>2
<1>5. CASE \/ StayDown \/ Exit \/ StopDuringBoot \/ Crash \/ DockerRestarts \/ OperatorStarts
  BY <1>1, <1>5 DEF StayDown, Exit, StopDuringBoot, Crash, DockerRestarts, OperatorStarts, Boot
<1>6. ASSUME NEW ok \in BOOLEAN, ReadMarker(ok) \/ Shutdown(ok) PROVE ThrashInv'
  BY <1>1, <1>6 DEF ReadMarker, Shutdown
<1>7. CASE UNCHANGED guardVars
  <2>1. /\ restart_history' = restart_history /\ served' = served /\ proc' = proc
        /\ hadCleanShutdownMarker' = hadCleanShutdownMarker
    BY <1>7 DEF guardVars
  <2> QED
    BY <1>0, <2>1 DEF ThrashInv, ServeInv
<1>8. /\ Outcomes("historyRead") = {TRUE} /\ Outcomes("historyWrite") = {TRUE}
      /\ Outcomes("marker") \subseteq BOOLEAN
  BY DEF Outcomes
<1> QED
  BY <1>2, <1>3, <1>4, <1>5, <1>6, <1>7, <1>8 DEF GuardNext

\* With a history that can be read and written, fewer boots than the limit that did not
\* follow a clean shutdown serve within one window, for every limit and window and every
\* interleaving of crashes, signals and restarts.  A boot whose entry is lost is not
\* counted (server.ts boots on when app_state fails), so the condition is needed.
THEOREM FewBootsServe ==
    ASSUME {"historyRead", "historyWrite"} \cap StoreFaults = {}
    PROVE  GuardSpec => []NoThrash
<1>1. ThrashInv => NoThrash
  BY DEF ThrashInv, ServeInv, NoThrash
<1> QED
  BY <1>1, ThrashInit, ThrashNext, PTL DEF GuardSpec

-------------------------------------------------------------------------------
(* The restart guard: types *)

\* The boot check alone writes the history, pruned.
LEMMA TypesNext ==
    ASSUME GuardTypeOK, ListsInv, [GuardNext]_guardVars
    PROVE  GuardTypeOK'
<1>0. ProcTypes /\ startedFrom \in {"stopped", "crashed", "down"}
  BY DEF GuardTypeOK, ProcTypes
<1>1. ListsInv' /\ ProcTypes'
  BY <1>0, ListsNext
<1>2. startedFrom' \in {"stopped", "crashed", "down"}
  <2>1. CASE DockerRestarts \/ OperatorStarts
    BY <2>1 DEF DockerRestarts, OperatorStarts, Boot
  <2>2. CASE ~(DockerRestarts \/ OperatorStarts)
    BY <1>0, <2>2 DEF GuardNext, guardVars, ReadMarker, EvaluateBoot, StayDown, Serve, Shutdown,
                      Exit, StopDuringBoot, Crash, Tick
  <2> QED
    BY <2>1, <2>2
<1>3. ASSUME "historyWrite" \notin StoreFaults, proc' \in {"alert", "start"}
      PROVE  AllYoung(restart_history')
  <2>1. ASSUME NEW readOk \in BOOLEAN, EvaluateBoot(readOk, TRUE)
        PROVE  AllYoung(restart_history')
    <3> DEFINE prior == IF readOk THEN restart_history ELSE <<>>
               young == Within(prior)
    <3>1. restart_history' = prunedHistory(prior)
      BY <2>1 DEF EvaluateBoot
    <3>2. prior \in Ages
      BY EmptyList DEF ListsInv
    <3> HIDE DEF prior
    <3>3. young \in Ages /\ AllYoung(young)
      BY <3>2, WithinKeeps DEF AllYoung
    <3>4. prunedHistory(prior) = IF hadCleanShutdownMarker THEN young ELSE Append(young, 0)
      BY DEF prunedHistory
    <3> HIDE DEF young
    <3>5. AllYoung(Append(young, 0))
      BY <3>3, YoungAppend
    <3> QED
      BY <3>1, <3>3, <3>4, <3>5
  <2>2. CASE proc' = proc /\ restart_history' = restart_history
    <3>1. \A j \in DOMAIN restart_history : restart_history[j] < CRASH_LOOP_WINDOW_MS
      BY <1>3, <2>2 DEF GuardTypeOK
    <3>2. DOMAIN restart_history = 1..Len(restart_history)
      BY DEF GuardTypeOK
    <3> QED
      BY <2>2, <3>1, <3>2 DEF AllYoung
  <2>3. Outcomes("historyWrite") = {TRUE} /\ Outcomes("historyRead") \subseteq BOOLEAN
    BY <1>3 DEF Outcomes
  <2>4. \/ proc' = proc /\ restart_history' = restart_history
        \/ \E readOk \in BOOLEAN : EvaluateBoot(readOk, TRUE)
    BY <1>3, <2>3 DEF GuardNext, guardVars, ReadMarker, StayDown, Serve, Shutdown, Exit,
                      StopDuringBoot, Crash, DockerRestarts, OperatorStarts, Boot, Tick, Booting
  <2> QED
    BY <2>1, <2>2, <2>4
<1>4. restart_history' \in Seq(Age) /\ served' \in Seq(Age) /\ causes' \in Seq(Age)
      /\ DOMAIN restart_history' = 1..Len(restart_history')
  BY <1>1 DEF ListsInv, Ages
<1>5. clean_shutdown_marker' \in BOOLEAN /\ hadCleanShutdownMarker' \in BOOLEAN
      /\ proc' \in Booting \cup {"serving", "stopping", "stopped", "crashed", "down"}
  BY <1>1 DEF ProcTypes
<1>6. "historyWrite" \notin StoreFaults /\ proc' \in {"alert", "start"} =>
          \A i \in DOMAIN restart_history' : restart_history'[i] < CRASH_LOOP_WINDOW_MS
  BY <1>3, <1>4 DEF AllYoung
<1> QED
  BY <1>2, <1>4, <1>5, <1>6 DEF GuardTypeOK

\* Type correctness of the persisted history and marker and of the boot in progress.
THEOREM GuardTypes == GuardSpec => []GuardTypeOK
<1>1. GuardInit => GuardTypeOK /\ ListsInv
  <2>1. GuardInit => GuardTypeOK
    BY EmptyList DEF GuardInit, GuardTypeOK, Booting, Ages
  <2> QED
    BY <2>1, ListsInit
<1>2. GuardTypeOK /\ ListsInv /\ [GuardNext]_guardVars => (GuardTypeOK /\ ListsInv)'
  <2>1. GuardTypeOK => ProcTypes
    BY DEF GuardTypeOK, ProcTypes
  <2> QED
    BY <2>1, ListsNext, TypesNext
<1> QED
  BY <1>1, <1>2, PTL DEF GuardSpec
===============================================================================
