--------------------------- MODULE OrderSubmission ---------------------------
(***************************************************************************)
(* The order path of one order content: the same symbol, side, quantity    *)
(* and source on one UTC day, so every attempt derives the same            *)
(* client_order_id K.  An attempt (executeTradeIntent, under the appStore  *)
(* mutex) reviews risk, submits to the broker, saves a trade row and arms  *)
(* the cooldown; the broker deduplicates on client_order_id.  A crash may  *)
(* fall between any two of those steps; the next boot reconciles with the  *)
(* broker before BUYs are allowed, its retries outside the mutex.          *)
(*                                                                         *)
(* The broker is external.  Row i is the i-th inserted trade_intents row;  *)
(* an overwritten row is always the newest, so insertion order is also     *)
(* timestamp order.  All rows carry the clientOrderId K.                   *)
(***************************************************************************)
EXTENDS TradeStates, Naturals, Sequences

CONSTANTS
    Settings,       \* the combinations of side, cooldown, crashes and faults considered
    MaxAttempts,    \* submissions of this content (bound)
    RECONCILIATION_MAX_RETRY_ATTEMPTS

\* lostAnswer:   the broker takes an order but its answer is lost
\* bracketFlaky: leg prices may validate, and the broker take the bracket, only sometimes
\* degradedRead: the open-orders read fails and looks empty
\* riskRejects:  some other gate of reviewRisk may reject an attempt
\* storeFails:   a read or write of the store may throw
\* brokerHangs:  a broker read of the reconciliation, which has no timeout, may never end
FaultKinds == {"lostAnswer", "bracketFlaky", "degradedRead", "riskRejects", "storeFails",
               "brokerHangs"}

ASSUME SubmissionAssumption ==
    /\ \A s \in Settings : /\ s.side \in {"buy", "sell"}
                          /\ s.symbolCooldownHours \in Nat
                          /\ s.maxCrashes \in Nat
                          /\ s.faults \subseteq FaultKinds
    /\ MaxAttempts \in Nat
    /\ RECONCILIATION_MAX_RETRY_ATTEMPTS \in Nat \ {0}

Absent == "absent"
None == "none"
ClientIds == {"K", "K-p"}   \* "K-p" is the plain retry of a refused bracket

VARIABLES
    setting,    \* the one of Settings that holds throughout
    broker,     \* broker truth: client id -> status of the one order it names
    bracketForm, \* the order goes out plain, or as a bracket the broker takes or refuses
    rows,       \* trade_intents of this content
    cooldown,   \* an active cooldown of the symbol is stored
    att,        \* the attempt in progress
    recon,      \* the startup reconciliation in progress
    tradingReady, orphanOrders,
    cleared,    \* history: orphans an admin cleared since the last boot
    lapsed,     \* history: a cooldown has expired, or an attempt that reached the
                \* broker came to nothing before its cooldown was stored
    attempts, crashes

vars == <<setting, broker, bracketForm, rows, cooldown, att, recon, tradingReady, orphanOrders,
          cleared, lapsed, attempts, crashes>>
others == <<setting, bracketForm, cleared, lapsed, attempts, crashes>>

side == setting.side
symbolCooldownHours == setting.symbolCooldownHours \* 0: off; under 24 it ends within the day
Faults == setting.faults
MaxCrashes == setting.maxCrashes \* process deaths (bound)

Live == {c \in ClientIds : broker[c] \in {"new", "held", "partially_filled"}}
Exists == {c \in ClientIds : broker[c] # Absent}

BracketForms == {"plain", "taken", "refused"}

\* A trade row: its status and the broker order whose id it records.
Row == [status : TradeState, order : ClientIds \cup {None}]
Tracked == {rows[i].order : i \in DOMAIN rows} \ {None}

NoAttempt == [pc |-> "idle", openDup |-> FALSE, status |-> "PendingApproval",
              order |-> None]
NoRecon == [pc |-> "idle", tries |-> 0, work |-> <<>>, failed |-> FALSE, open |-> {}]
BootRecon == [NoRecon EXCEPT !.pc = "start", !.tries = 1]

MutexFree == att.pc = "idle"
\* saving the row and the cooldown is one synchronous stretch of code
NoAwait == att.pc # "saved"

\* The HTTP server, hence any attempt, comes up after the first reconciliation try.
Listening == recon.tries = 1 => recon.pc \in {"wait", "gaveUp", "ended"}

-------------------------------------------------------------------------------
Init ==
    /\ setting \in Settings
    /\ broker = [c \in ClientIds |-> Absent]
    /\ bracketForm \in (IF side = "buy" THEN BracketForms ELSE {"plain"})
    /\ rows = <<>>
    /\ cooldown = FALSE
    /\ att = NoAttempt
    /\ recon = BootRecon
    /\ tradingReady = FALSE
    /\ orphanOrders = {}
    /\ cleared = {}
    /\ lapsed = FALSE
    /\ attempts = 0
    /\ crashes = 0

-------------------------------------------------------------------------------
\* The process dies and starts again.
Crash ==
    /\ crashes < MaxCrashes
    /\ crashes' = crashes + 1
    /\ att' = NoAttempt
    /\ recon' = BootRecon
    /\ tradingReady' = FALSE
    /\ orphanOrders' = {}
    /\ cleared' = {}
    /\ lapsed' = (lapsed \/ att.pc \in {"result", "saved"})
    /\ UNCHANGED <<setting, broker, bracketForm, rows, cooldown, attempts>>

-------------------------------------------------------------------------------
(* executeTradeIntent *)

\* The account and open-orders reads.
BeginAttempt(openDup) ==
    /\ MutexFree
    /\ Listening
    /\ attempts < MaxAttempts
    /\ openDup = (Live # {}) \/ ("degradedRead" \in Faults /\ ~openDup)
    /\ attempts' = attempts + 1
    /\ att' = [NoAttempt EXCEPT !.pc = "review", !.openDup = openDup]
    /\ UNCHANGED <<setting, broker, bracketForm, rows, cooldown, recon, tradingReady, orphanOrders,
                   cleared, lapsed, crashes>>

\* mutant of BuyGateRejects: only orphans block a BUY
OnlyOrphansBlock == side = "buy" /\ orphanOrders # {}

\* buyGateRejectionReason of startupReconciliation.ts
BuyGateRejects == side = "buy" /\ (~tradingReady \/ orphanOrders # {})

\* mutant of CooldownRejects: cooldowns are never looked up
CooldownIgnored == FALSE

CooldownRejects == side = "buy" /\ symbolCooldownHours > 0 /\ cooldown

\* A rejected attempt is inserted as a row of its own, never merged, if it is stored.
ReviewRejects ==
    /\ att.pc = "review"
    /\ \/ BuyGateRejects \/ CooldownRejects \/ att.openDup
       \/ "riskRejects" \in Faults
    /\ \/ rows' = Append(rows, [status |-> "RiskRejected", order |-> None])
       \/ "storeFails" \in Faults /\ UNCHANGED rows
    /\ att' = NoAttempt
    /\ UNCHANGED <<broker, cooldown, recon, tradingReady, orphanOrders, others>>

ReviewApproves ==
    /\ att.pc = "review"
    /\ ~BuyGateRejects /\ ~CooldownRejects /\ ~att.openDup
    /\ att' = [att EXCEPT !.pc = "post"]
    /\ UNCHANGED <<broker, rows, cooldown, recon, tradingReady, orphanOrders, others>>

-------------------------------------------------------------------------------
(* placeAlpacaOrder *)

Placed(c) == [att EXCEPT !.pc = "result", !.order = c,
                         !.status = mapBrokerStatusToTradeState(broker'[c])]
Failed == [att EXCEPT !.pc = "result", !.order = None, !.status = "BrokerFailed"]

\* One POST of the order as client id c: taken, refused, lost on the way there
\* or back; a duplicate is resolved to the existing order, or fails if that
\* look-up does.
Submit(c) ==
    \/ /\ broker[c] = Absent
       /\ broker' = [broker EXCEPT ![c] = "new"]
       /\ \/ att' = Placed(c)
          \/ "lostAnswer" \in Faults /\ att' = Failed
    \/ /\ broker[c] # Absent
       /\ UNCHANGED broker
       /\ att' = Placed(c)
    \/ /\ UNCHANGED broker
       /\ att' = Failed

PostK ==
    /\ att.pc = "post"
    /\ bracketForm # "refused" \/ broker["K"] # Absent
    /\ Submit("K")
    /\ UNCHANGED <<rows, cooldown, recon, tradingReady, orphanOrders, others>>

\* mutant of BracketRefused: every refusal is taken for one about the bracket form
AnyRefusalRetriedPlain ==
    /\ att.pc = "post"
    /\ bracketForm = "refused" \/ broker["K"] # Absent
    /\ att' = [att EXCEPT !.pc = "postPlain"]
    /\ UNCHANGED <<broker, rows, cooldown, recon, tradingReady, orphanOrders, others>>

\* A 422 about the bracket form: no order, and a plain retry under another id.
BracketRefused ==
    /\ att.pc = "post"
    /\ bracketForm = "refused" /\ broker["K"] = Absent
    /\ att' = [att EXCEPT !.pc = "postPlain"]
    /\ UNCHANGED <<broker, rows, cooldown, recon, tradingReady, orphanOrders, others>>

PostPlainRetry ==
    /\ att.pc = "postPlain"
    /\ Submit("K-p")
    /\ UNCHANGED <<rows, cooldown, recon, tradingReady, orphanOrders, others>>

-------------------------------------------------------------------------------
(* executeTradeIntent after the broker answered *)

\* findTradeIntentByClientOrderId: the newest row of the same client id, whatever
\* became of it, is overwritten by an attempt that reached the broker.  Where the
\* look-up throws, the attempt becomes a row of its own.
SaveAttempt ==
    LET row  == [status |-> att.status, order |-> att.order]
        last == Len(rows)
        merged == att.status \in BROKER_REACHED_TRADE_STATUSES /\ last > 0
    IN  /\ att.pc = "result"
        /\ \/ merged /\ rows' = [rows EXCEPT ![last] = row]
           \/ (~merged \/ "storeFails" \in Faults) /\ rows' = Append(rows, row)
        /\ att' = [att EXCEPT !.pc = "saved"]
        /\ UNCHANGED <<broker, cooldown, recon, tradingReady, orphanOrders, others>>

\* The audit events or the row cannot be stored: the attempt ends without a trace.
AttemptUnsaved ==
    /\ att.pc = "result"
    /\ "storeFails" \in Faults
    /\ att' = NoAttempt
    /\ lapsed' = TRUE
    /\ UNCHANGED <<setting, broker, bracketForm, rows, cooldown, recon, tradingReady, orphanOrders,
                   cleared, attempts, crashes>>

\* mutant of ArmCooldown: only a successfully placed order arms it
ArmCooldownOnSuccess ==
    /\ att.pc = "saved"
    /\ cooldown' = (cooldown \/ (symbolCooldownHours > 0
                                 /\ att.status \in BROKER_SUCCESS_TRADE_STATUSES))
    /\ att' = NoAttempt
    /\ UNCHANGED <<broker, rows, recon, tradingReady, orphanOrders, others>>

ArmCooldown ==
    /\ att.pc = "saved"
    /\ cooldown' = (cooldown \/ (symbolCooldownHours > 0
                                 /\ att.status \in BROKER_REACHED_TRADE_STATUSES))
    /\ att' = NoAttempt
    /\ UNCHANGED <<broker, rows, recon, tradingReady, orphanOrders, others>>

\* The risk decision or the exit plan cannot be stored, which ends the attempt, or the
\* cooldown cannot, which is caught: the row stands without its cooldown.
CooldownUnsaved ==
    /\ att.pc = "saved"
    /\ "storeFails" \in Faults
    /\ att' = NoAttempt
    /\ lapsed' = TRUE
    /\ UNCHANGED <<setting, broker, bracketForm, rows, cooldown, recon, tradingReady, orphanOrders,
                   cleared, attempts, crashes>>

\* listActiveCooldownSymbols no longer finds it.
CooldownExpires ==
    /\ cooldown
    /\ symbolCooldownHours < 24
    /\ NoAwait
    /\ cooldown' = FALSE
    /\ lapsed' = TRUE
    /\ UNCHANGED <<setting, broker, bracketForm, rows, att, recon, tradingReady, orphanOrders,
                   cleared, attempts, crashes>>

-------------------------------------------------------------------------------
(* pollPendingOrders; its row-by-row steps are in BracketPosition *)

PollableRow(row) == row.order # None /\ row.status \in POLLABLE_TRADE_STATES

Polled(row) == IF PollableRow(row)
               THEN [row EXCEPT !.status = mapBrokerStatusToTradeState(broker[row.order])] ELSE row

\* The poll of a sync cycle, under the mutex.
CyclePoll ==
    /\ MutexFree
    /\ Listening
    /\ rows' = [i \in DOMAIN rows |-> Polled(rows[i])]
    /\ UNCHANGED <<broker, cooldown, att, recon, tradingReady, orphanOrders, others>>

-------------------------------------------------------------------------------
(* startupReconciliation.ts: attemptWithRetry, outside the mutex *)

ReconList ==
    /\ recon.pc = "start" /\ NoAwait
    /\ recon' = [recon EXCEPT !.pc = "poll", !.work = rows, !.failed = FALSE]
    /\ UNCHANGED <<broker, rows, cooldown, att, tradingReady, orphanOrders, others>>

\* Every polled row is saved whole, from the list read before the poll; any
\* failed GET fails the try, after the rest of it has been carried out.
ReconPoll(failed) ==
    /\ recon.pc = "poll" /\ NoAwait
    /\ failed => \E i \in DOMAIN recon.work : PollableRow(recon.work[i])
    /\ rows' = [i \in DOMAIN rows |->
                   IF i <= Len(recon.work) /\ PollableRow(recon.work[i])
                   THEN IF failed THEN recon.work[i] ELSE Polled(recon.work[i])
                   ELSE rows[i]]
    /\ recon' = [recon EXCEPT !.pc = "sweep", !.failed = failed]
    /\ UNCHANGED <<broker, cooldown, att, tradingReady, orphanOrders, others>>

\* The broker answers the open-orders request.
ReconSweep ==
    /\ recon.pc = "sweep"
    /\ recon' = [recon EXCEPT !.pc = "finish", !.open = Live]
    /\ UNCHANGED <<broker, rows, cooldown, att, tradingReady, orphanOrders, others>>

\* detectOrphanOrders: unknown by order id and by client id.
detectOrphanOrders(open) ==
    {c \in open : c \notin Tracked /\ ~(c = "K" /\ rows # <<>>)}

ReconSucceeds ==
    /\ recon.pc = "finish" /\ NoAwait
    /\ ~recon.failed
    /\ orphanOrders' = detectOrphanOrders(recon.open)
    /\ tradingReady' = TRUE
    /\ recon' = NoRecon
    /\ UNCHANGED <<broker, rows, cooldown, att, others>>

\* A GET failed or the open-orders page was unusable: wait, or give up.
ReconFails ==
    /\ recon.pc = "finish" /\ NoAwait
    /\ recon' = [NoRecon EXCEPT
                   !.pc = IF recon.tries < RECONCILIATION_MAX_RETRY_ATTEMPTS
                          THEN "wait" ELSE "gaveUp",
                   !.tries = recon.tries]
    /\ UNCHANGED <<broker, rows, cooldown, att, tradingReady, orphanOrders, others>>

\* attemptWithRetry itself throws: at the poll's audit events or the trade rows read
\* again, at persistOrphans once the orphans are set, at the give-up's event.
ReconThrows ==
    recon.pc = "finish" /\ NoAwait /\ "storeFails" \in Faults

\* The first try's caller catches it, and the chain ends there.
ReconEnds ==
    /\ ReconThrows
    /\ recon.tries = 1
    /\ recon' = [NoRecon EXCEPT !.pc = "ended", !.tries = 1]
    /\ \/ UNCHANGED orphanOrders
       \/ ~recon.failed /\ orphanOrders' = detectOrphanOrders(recon.open)
    /\ UNCHANGED <<broker, rows, cooldown, att, tradingReady, others>>

\* A retry is called by a timer, where nobody catches it: the process guards exit.
ReconDies == ReconThrows /\ recon.tries > 1 /\ Crash

\* A GET of the poll or the open-orders request is never answered.
ReconHangs ==
    /\ recon.pc \in {"poll", "sweep"}
    /\ "brokerHangs" \in Faults
    /\ recon' = [recon EXCEPT !.pc = "hung"]
    /\ UNCHANGED <<broker, rows, cooldown, att, tradingReady, orphanOrders, others>>

\* mutant of ReconRetry: retries are not counted
ReconRetryUncounted ==
    /\ recon.pc = "wait"
    /\ recon' = [recon EXCEPT !.pc = "start"]
    /\ UNCHANGED <<broker, rows, cooldown, att, tradingReady, orphanOrders, others>>

ReconRetry ==
    /\ recon.pc = "wait"
    /\ recon' = [recon EXCEPT !.pc = "start", !.tries = recon.tries + 1]
    /\ UNCHANGED <<broker, rows, cooldown, att, tradingReady, orphanOrders, others>>

\* The admin reviewed the orphans and lets BUYs go on.
clearOrphans ==
    /\ orphanOrders # {}
    /\ NoAwait
    /\ orphanOrders' = {}
    /\ cleared' = cleared \cup orphanOrders
    /\ UNCHANGED <<setting, broker, bracketForm, rows, cooldown, att, recon, tradingReady,
                   lapsed, attempts, crashes>>

-------------------------------------------------------------------------------
(* The broker (external) *)

OrderMoves(c, st) ==
    /\ c \in Live
    /\ broker' = [broker EXCEPT ![c] = st]
    /\ UNCHANGED <<rows, cooldown, att, recon, tradingReady, orphanOrders, others>>

BracketRuleChanges ==
    /\ "bracketFlaky" \in Faults
    /\ side = "buy"
    /\ bracketForm' \in BracketForms \ {bracketForm}
    /\ UNCHANGED <<setting, broker, rows, cooldown, att, recon, tradingReady, orphanOrders,
                   cleared, lapsed, attempts, crashes>>

-------------------------------------------------------------------------------
AttemptStep ==
    \/ \E openDup \in BOOLEAN : BeginAttempt(openDup)
    \/ ReviewRejects
    \/ ReviewApproves
    \/ PostK \/ BracketRefused \/ PostPlainRetry
    \/ SaveAttempt \/ ArmCooldown \/ AttemptUnsaved \/ CooldownUnsaved

ReconStep ==
    \/ ReconList \/ (\E failed \in BOOLEAN : ReconPoll(failed)) \/ ReconSweep
    \/ ReconSucceeds \/ ReconFails \/ ReconEnds \/ ReconDies \/ ReconRetry

Next ==
    \/ AttemptStep \/ CooldownExpires \/ CyclePoll \/ ReconStep \/ ReconHangs \/ clearOrphans
    \/ (\E c \in ClientIds, st \in {"filled", "canceled"} : OrderMoves(c, st))
    \/ BracketRuleChanges
    \/ Crash

Spec == Init /\ [][Next]_vars

\* The reconciliation goes on unless a broker read hangs: calls end, timers fire.  A
\* stretch of code without an await ends too.
FairSpec == Spec /\ WF_vars(ReconStep) /\ WF_vars(ArmCooldown \/ CooldownUnsaved)

-------------------------------------------------------------------------------
(* Properties *)

\* Type correctness of the stored rows and of the work in progress.
TypeOK ==
    /\ setting \in Settings
    /\ broker \in [ClientIds -> BrokerStatus \cup {Absent}]
    /\ bracketForm \in BracketForms
    /\ rows \in Seq(Row)
    /\ cooldown \in BOOLEAN
    /\ att \in [pc : {"idle", "review", "post", "postPlain", "result", "saved"},
                openDup : BOOLEAN, status : TradeState,
                order : ClientIds \cup {None}]
    /\ recon \in [pc : {"idle", "start", "poll", "sweep", "finish", "wait", "gaveUp", "ended",
                        "hung"},
                  tries : 0..RECONCILIATION_MAX_RETRY_ATTEMPTS, work : Seq(Row),
                  failed : BOOLEAN, open : SUBSET ClientIds]
    /\ tradingReady \in BOOLEAN
    /\ orphanOrders \subseteq ClientIds
    /\ cleared \subseteq ClientIds
    /\ lapsed \in BOOLEAN
    /\ attempts \in 0..MaxAttempts
    /\ crashes \in 0..MaxCrashes

\* A BUY with a cooldown that has stood since its attempt reached the broker: it has not
\* expired, and no crash and no failing store kept it from being stored.  Crashes at
\* other times, lost answers and failed reads are all allowed.
CooledBuy == side = "buy" /\ symbolCooldownHours > 0 /\ ~lapsed

\* However often one order content is submitted on a day, it has one order at the broker.
\* SubmitTwoOrders.cfg shows the exception the next property leaves.
OneOrderAtMost == Exists # ClientIds

\* Double clicks, retries after lost answers, repeats after a crash that lost the row:
\* a second real order of the content needs both a broker that changed its mind about
\* the bracket form and a cooldown that is switched off, was lost or has expired.
OneOrderPerIntent == Exists = ClientIds => "bracketFlaky" \in Faults /\ ~CooledBuy

\* For such a BUY one broker order is one trade row: no order id is recorded by two
\* rows, so nothing that adds rows up counts an order twice.
OneRowPerOrder ==
    CooledBuy => \A i, j \in DOMAIN rows : rows[i].order # None /\ rows[i].order = rows[j].order => i = j

\* Whatever a row says became of its order is no further than what became of it
\* at the broker: a row is terminal only if its order is, in the same state.
RowsFollowBroker ==
    \A i \in DOMAIN rows : rows[i].order # None =>
        /\ broker[rows[i].order] # Absent
        /\ isTerminalTradeState(rows[i].status)
             => rows[i].status = mapBrokerStatusToTradeState(broker[rows[i].order])

\* A BUY order that exists at the broker has armed the cooldown by the time its attempt
\* is over, even if the broker's answer was lost, and a later crash does not undo it:
\* automation cannot go on buying a symbol whose first order it believes failed.  What
\* is left is a crash, or a store that throws, between the answer and the cooldown.
PlacedOrderArmsCooldown ==
    CooledBuy /\ MutexFree /\ Exists # {} => cooldown

\* A crash mid-order never leads to trading on unknown state: while BUYs are
\* open and no attempt is in progress, every live order of ours is recorded by its
\* order id or was reviewed and cleared by an admin.
TradingOnKnownState ==
    tradingReady /\ MutexFree /\ orphanOrders = {} => Live \subseteq Tracked \cup cleared

\* No order id is ever taken off the books.  A repeated SELL does overwrite the row of
\* its first attempt; SubmitClobber.cfg shows it.
EveryOrderStaysTracked == [][Tracked \subseteq Tracked']_vars

\* For such a BUY an order once recorded in a row stays recorded: no later attempt of the same
\* content and no stale save of a poll takes the order id off the books.
TrackedOrderStaysTracked ==
    [][CooledBuy => Tracked \subseteq Tracked']_vars

\* An orphan is never an order this very process placed and still knows of.  A SELL
\* passes while the reconciliation is pending, and a retry that sweeps between its POST
\* and its row takes it for an orphan; SubmitFalseOrphan.cfg shows it.
OrphansAreUnknown ==
    [][orphanOrders' \subseteq orphanOrders \/ att.order \notin orphanOrders']_vars

\* No BUY reaches the broker before the boot's reconciliation is over and its orphans are
\* cleared, though the gate is asked several awaits before the POST and retries,
\* clearings and restarts go on meanwhile.
BuyAwaitsReconciliation ==
    [][side = "buy" /\ Exists' # Exists => tradingReady /\ orphanOrders = {}]_vars

\* The reconciliation of a boot always ends, ready to trade or with the give-up alert: the
\* retry chain neither stalls nor runs forever.  What can stop it short is a broker read
\* that never ends, and a first try whose own records cannot be stored.
ReconciliationConcludes == []<>(tradingReady \/ recon.pc \in {"gaveUp", "ended", "hung"})

\* runStartupReconciliation is documented never to throw, so a reconciliation ends ready to
\* trade or with the give-up.  SubmitReconEnds.cfg shows the throw.
ReadyOrGaveUp == []<>(tradingReady \/ recon.pc = "gaveUp")
==============================================================================
