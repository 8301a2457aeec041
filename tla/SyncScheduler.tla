----------------------------- MODULE SyncScheduler -----------------------------
(***************************************************************************)
(* The autonomous sync loop of scheduler.ts as server.ts wires it: a chain *)
(* of timers, each re-armed when its tick is over, the single-flight guard, *)
(* the auto-pause after consecutive failed cycles, and the missed-cycle    *)
(* watchdog.  A cycle holds the appStore mutex from its first read to its  *)
(* end; manual syncs and every change of the configuration queue for the   *)
(* same mutex, first come first served.  The process may be stopped or die *)
(* at any step.                                                            *)
(*                                                                         *)
(* The time since the last completed cycle counts whole intervals, up to   *)
(* the first at which isCycleOverdue holds.                                *)
(***************************************************************************)
EXTENDS Naturals, Sequences

CONSTANTS
    MAX_CONSECUTIVE_FAILURES,
    MISSED_CYCLE_ALERT_MULTIPLIER,
    Faults,       \* see FaultKinds
    MaxRequests,  \* operator requests and manual syncs (bound)
    MaxRestarts   \* (bound)

\* hang:       a cycle or a manual sync awaits an answer that never comes
\* auditFails: the audit event of an auto-pause cannot be stored
FaultKinds == {"hang", "auditFails"}

ASSUME SchedulerAssumption ==
    /\ MAX_CONSECUTIVE_FAILURES \in Nat \ {0}
    /\ MISSED_CYCLE_ALERT_MULTIPLIER \in Nat \ {0}
    /\ Faults \subseteq FaultKinds
    /\ MaxRequests \in Nat
    /\ MaxRestarts \in Nat

VARIABLES
    autoTrading,     \* persisted: system.autoTrading
    alertsUsable,    \* persisted: the telegram section holds what an alert needs
    failureCount,    \* persisted: scheduler_consecutive_failure_count
    lastCompleted,   \* persisted: intervals since the last completed cycle, or Never
    alertedGap,      \* persisted: the overdue alert of the current gap was delivered
    proc,            \* "booting", "serving" or "stopping"
    tradingReady,
    timers,          \* armed tick timers
    queue,           \* the mutex: its holder, then the waiters in order
    cycle,           \* the scheduled cycle in flight
    manual,          \* the manual sync in flight
    operator,        \* the request about the configuration in flight
    strikes,         \* history: failed cycles since a success or an auto-pause
    requests, restarts

persisted == <<autoTrading, alertsUsable, failureCount, lastCompleted, alertedGap>>
vars == <<persisted, proc, tradingReady, timers, queue, cycle, manual, operator,
          strikes, requests, restarts>>

Overdue == MISSED_CYCLE_ALERT_MULTIPLIER + 1
Never == Overdue + 1   \* no cycle ever completed

Cycle == [pc : {"idle", "waiting", "running", "hung", "ended", "counting", "pausing",
                "alerting"},
          autoTrading : BOOLEAN, failed : BOOLEAN]
Manual == [pc : {"idle", "waiting", "running", "hung"}, autoTrading : BOOLEAN]
NoCycle == [pc |-> "idle", autoTrading |-> FALSE, failed |-> FALSE]
NoManual == [pc |-> "idle", autoTrading |-> FALSE]

\* What a request makes of autoTrading; a settings form posts what it was loaded with.
Requests == {"pause", "resume", "formOn", "formOff"}
Asked == [request \in Requests |-> request \in {"resume", "formOn"}]

Agents == {"cycle", "manual", "operator"}
Holds(agent) == queue # <<>> /\ Head(queue) = agent
cycleInFlight == cycle.pc # "idle"

Init ==
    /\ autoTrading \in BOOLEAN
    /\ alertsUsable \in BOOLEAN
    /\ failureCount = 0
    /\ lastCompleted = Never
    /\ alertedGap = FALSE
    /\ proc = "booting"
    /\ tradingReady = FALSE
    /\ timers = 0
    /\ queue = <<>>
    /\ cycle = NoCycle
    /\ manual = NoManual
    /\ operator = "none"
    /\ strikes = 0
    /\ requests = 0
    /\ restarts = 0

-------------------------------------------------------------------------------
(* Boot, reconciliation, shutdown *)

\* The first reconciliation try is over: listen and start the scheduler.
Start ==
    /\ proc = "booting"
    /\ proc' = "serving"
    /\ timers' = timers + 1
    /\ tradingReady' \in BOOLEAN
    /\ UNCHANGED <<persisted, queue, cycle, manual, operator, strikes, requests, restarts>>

\* A later try succeeds.
ReconciliationSucceeds ==
    /\ proc = "serving" /\ ~tradingReady
    /\ tradingReady' = TRUE
    /\ UNCHANGED <<persisted, proc, timers, queue, cycle, manual, operator, strikes,
                   requests, restarts>>

\* SIGTERM: stop() clears the armed timer; a cycle in flight runs on.
Stop ==
    /\ proc = "serving"
    /\ proc' = "stopping"
    /\ timers' = 0
    /\ UNCHANGED <<persisted, tradingReady, queue, cycle, manual, operator, strikes,
                   requests, restarts>>

\* The process ends, by itself or not, and is started again.
Restart ==
    /\ restarts < MaxRestarts
    /\ restarts' = restarts + 1
    /\ proc' = "booting"
    /\ tradingReady' = FALSE
    /\ timers' = 0
    /\ queue' = <<>>
    /\ cycle' = NoCycle
    /\ manual' = NoManual
    /\ operator' = "none"
    /\ UNCHANGED <<persisted, strikes, requests>>

-------------------------------------------------------------------------------
(* tick() *)

\* mutant of ArmedAfter: a stopped scheduler arms the next timer all the same
ArmedThoughStopped(n) == n + 1

\* armNext
ArmedAfter(n) == IF proc = "stopping" THEN n ELSE n + 1

\* A tick that starts no cycle.  It arms the next timer, except during a cycle
\* (single flight): that one will.
TickSkipped ==
    /\ timers > 0
    /\ cycleInFlight \/ ~autoTrading \/ ~tradingReady
    /\ timers' = IF cycleInFlight THEN timers - 1 ELSE ArmedAfter(timers - 1)
    /\ UNCHANGED <<persisted, proc, tradingReady, queue, cycle, manual, operator, strikes,
                   requests, restarts>>

\* mutant of TickStarts: the next timer is armed when the cycle starts
TickStartsAndArms ==
    /\ timers > 0 /\ ~cycleInFlight
    /\ autoTrading /\ tradingReady
    /\ timers' = ArmedAfter(timers - 1)
    /\ cycle' = [NoCycle EXCEPT !.pc = "waiting"]
    /\ queue' = Append(queue, "cycle")
    /\ UNCHANGED <<persisted, proc, tradingReady, manual, operator, strikes, requests,
                   restarts>>

\* runSyncCycle("scheduled") queues for the mutex.
TickStarts ==
    /\ timers > 0 /\ ~cycleInFlight
    /\ autoTrading /\ tradingReady
    /\ timers' = timers - 1
    /\ cycle' = [NoCycle EXCEPT !.pc = "waiting"]
    /\ queue' = Append(queue, "cycle")
    /\ UNCHANGED <<persisted, proc, tradingReady, manual, operator, strikes, requests,
                   restarts>>

\* The configuration is read once, under the mutex, and used to the end.
CycleBegins ==
    /\ cycle.pc = "waiting" /\ Holds("cycle")
    /\ cycle' = [cycle EXCEPT !.pc = "running", !.autoTrading = autoTrading]
    /\ UNCHANGED <<persisted, proc, tradingReady, timers, queue, manual, operator, strikes,
                   requests, restarts>>

\* mutant of CycleEnds: the mutex is not released
CycleKeepsMutex(failed) ==
    /\ cycle.pc = "running"
    /\ cycle' = [cycle EXCEPT !.pc = "ended", !.failed = failed]
    /\ UNCHANGED <<persisted, proc, tradingReady, timers, queue, manual, operator, strikes,
                   requests, restarts>>

\* It threw, every source or every order failed, the broker was out of reach, or not.
CycleEnds(failed) ==
    /\ cycle.pc = "running"
    /\ cycle' = [cycle EXCEPT !.pc = "ended", !.failed = failed]
    /\ queue' = Tail(queue)
    /\ UNCHANGED <<persisted, proc, tradingReady, timers, manual, operator, strikes,
                   requests, restarts>>

CycleHangs ==
    /\ "hang" \in Faults
    /\ cycle.pc = "running"
    /\ cycle' = [cycle EXCEPT !.pc = "hung"]
    /\ UNCHANGED <<persisted, proc, tradingReady, timers, queue, manual, operator, strikes,
                   requests, restarts>>

\* onCycleCompleted, whatever the outcome: a new gap begins.
CycleCompleted ==
    /\ cycle.pc = "ended"
    /\ lastCompleted' = 0
    /\ alertedGap' = FALSE
    /\ cycle' = [cycle EXCEPT !.pc = "counting"]
    /\ UNCHANGED <<autoTrading, alertsUsable, failureCount, proc, tradingReady, timers,
                   queue, manual, operator, strikes, requests, restarts>>

\* The tick is over: the guard is cleared and the next timer armed.
TickOver == cycle' = NoCycle /\ timers' = ArmedAfter(timers)

\* mutant of CycleSucceeded: a success leaves the count as it is
SuccessNotCounted ==
    /\ cycle.pc = "counting" /\ ~cycle.failed
    /\ strikes' = 0
    /\ TickOver
    /\ UNCHANGED <<persisted, proc, tradingReady, queue, manual, operator, requests,
                   restarts>>

CycleSucceeded ==
    /\ cycle.pc = "counting" /\ ~cycle.failed
    /\ failureCount' = 0
    /\ strikes' = 0
    /\ TickOver
    /\ UNCHANGED <<autoTrading, alertsUsable, lastCompleted, alertedGap, proc, tradingReady,
                   queue, manual, operator, requests, restarts>>

\* At the limit onAutoPause follows, which queues for the mutex.
CycleFailed ==
    /\ cycle.pc = "counting" /\ cycle.failed
    /\ failureCount' = failureCount + 1
    /\ strikes' = strikes + 1
    /\ IF failureCount' >= MAX_CONSECUTIVE_FAILURES
       THEN /\ cycle' = [cycle EXCEPT !.pc = "pausing"]
            /\ queue' = Append(queue, "cycle")
            /\ UNCHANGED timers
       ELSE TickOver /\ UNCHANGED queue
    /\ UNCHANGED <<autoTrading, alertsUsable, lastCompleted, alertedGap, proc, tradingReady,
                   manual, operator, requests, restarts>>

\* mutant of AutoPause: the configuration the cycle began with is saved back
AutoPauseSavesSnapshot ==
    /\ cycle.pc = "pausing" /\ Holds("cycle")
    /\ autoTrading' = cycle.autoTrading
    /\ queue' = Tail(queue)
    /\ strikes' = 0
    /\ cycle' = [cycle EXCEPT !.pc = "alerting"]
    /\ UNCHANGED <<alertsUsable, failureCount, lastCompleted, alertedGap, proc, tradingReady,
                   timers, manual, operator, requests, restarts>>

\* onAutoPause: updateConfig writes autoTrading and releases the mutex.
AutoPause ==
    /\ cycle.pc = "pausing" /\ Holds("cycle")
    /\ autoTrading' = FALSE
    /\ queue' = Tail(queue)
    /\ strikes' = 0
    /\ cycle' = [cycle EXCEPT !.pc = "alerting"]
    /\ UNCHANGED <<alertsUsable, failureCount, lastCompleted, alertedGap, proc, tradingReady,
                   timers, manual, operator, requests, restarts>>

\* The audit event is stored, the alert sent or not, and the count starts afresh;
\* if the audit event cannot be stored, tick() skips the rest.
AutoPaused(stored) ==
    /\ cycle.pc = "alerting"
    /\ failureCount' = IF stored THEN 0 ELSE failureCount
    /\ TickOver
    /\ UNCHANGED <<autoTrading, alertsUsable, lastCompleted, alertedGap, proc, tradingReady,
                   queue, manual, operator, strikes, requests, restarts>>

-------------------------------------------------------------------------------
(* Manual syncs and the operator, over HTTP and Telegram *)

ManualRequested ==
    /\ proc = "serving" /\ manual.pc = "idle" /\ requests < MaxRequests
    /\ requests' = requests + 1
    /\ manual' = [NoManual EXCEPT !.pc = "waiting"]
    /\ queue' = Append(queue, "manual")
    /\ UNCHANGED <<persisted, proc, tradingReady, timers, cycle, operator, strikes, restarts>>

ManualBegins ==
    /\ manual.pc = "waiting" /\ Holds("manual")
    /\ manual' = [pc |-> "running", autoTrading |-> autoTrading]
    /\ UNCHANGED <<persisted, proc, tradingReady, timers, queue, cycle, operator, strikes,
                   requests, restarts>>

\* A manual sync never feeds the failure count.
ManualEnds ==
    /\ manual.pc = "running"
    /\ manual' = NoManual
    /\ queue' = Tail(queue)
    /\ UNCHANGED <<persisted, proc, tradingReady, timers, cycle, operator, strikes,
                   requests, restarts>>

ManualHangs ==
    /\ "hang" \in Faults
    /\ manual.pc = "running"
    /\ manual' = [manual EXCEPT !.pc = "hung"]
    /\ UNCHANGED <<persisted, proc, tradingReady, timers, queue, cycle, operator, strikes,
                   requests, restarts>>

OperatorAsks(request) ==
    /\ proc = "serving" /\ operator = "none" /\ requests < MaxRequests
    /\ requests' = requests + 1
    /\ operator' = request
    /\ queue' = Append(queue, "operator")
    /\ UNCHANGED <<persisted, proc, tradingReady, timers, cycle, manual, strikes, restarts>>

\* mutant of OperatorApplies: a change of the configuration does not wait its turn
OperatorJumpsQueue ==
    /\ operator # "none"
    /\ autoTrading' = Asked[operator]
    /\ alertsUsable' = (alertsUsable /\ operator \notin {"formOn", "formOff"})
    /\ operator' = "none"
    /\ queue' = SelectSeq(queue, LAMBDA agent : agent # "operator")
    /\ UNCHANGED <<failureCount, lastCompleted, alertedGap, proc, tradingReady, timers,
                   cycle, manual, strikes, requests, restarts>>

\* A settings form replaces the whole system section, and stripPersistedSecrets
\* empties the bot token that sendTelegramAlert needs.
OperatorApplies ==
    /\ operator # "none" /\ Holds("operator")
    /\ autoTrading' = Asked[operator]
    /\ alertsUsable' = (alertsUsable /\ operator \notin {"formOn", "formOff"})
    /\ operator' = "none"
    /\ queue' = Tail(queue)
    /\ UNCHANGED <<failureCount, lastCompleted, alertedGap, proc, tradingReady, timers,
                   cycle, manual, strikes, requests, restarts>>

-------------------------------------------------------------------------------
(* The missed-cycle watchdog *)

IntervalPasses ==
    /\ lastCompleted \in 0..(Overdue - 1)
    /\ lastCompleted' = lastCompleted + 1
    /\ UNCHANGED <<autoTrading, alertsUsable, failureCount, alertedGap, proc, tradingReady,
                   timers, queue, cycle, manual, operator, strikes, requests, restarts>>

\* mutant of WatchdogAlerts: the watchdog waits for the cycle it watches
WatchdogOnTickChain ==
    /\ proc = "serving" /\ ~cycleInFlight
    /\ autoTrading /\ lastCompleted = Overdue /\ ~alertedGap
    /\ alertsUsable
    /\ alertedGap' = TRUE
    /\ UNCHANGED <<autoTrading, alertsUsable, failureCount, lastCompleted, proc, tradingReady,
                   timers, queue, cycle, manual, operator, strikes, requests, restarts>>

\* checkWatchdog finds an overdue gap it has not reported, and the alert is
\* delivered; one that is not delivered leaves everything as it was.
WatchdogAlerts ==
    /\ proc = "serving"
    /\ autoTrading /\ lastCompleted = Overdue /\ ~alertedGap
    /\ alertsUsable
    /\ alertedGap' = TRUE
    /\ UNCHANGED <<autoTrading, alertsUsable, failureCount, lastCompleted, proc, tradingReady,
                   timers, queue, cycle, manual, operator, strikes, requests, restarts>>

-------------------------------------------------------------------------------
TickStep ==
    \/ CycleBegins \/ (\E failed \in BOOLEAN : CycleEnds(failed))
    \/ CycleCompleted \/ CycleSucceeded \/ CycleFailed \/ AutoPause
    \/ \E stored \in IF "auditFails" \in Faults THEN BOOLEAN ELSE {TRUE} : AutoPaused(stored)

Next ==
    \/ Start \/ ReconciliationSucceeds \/ Stop \/ Restart
    \/ TickSkipped \/ TickStarts \/ TickStep \/ CycleHangs
    \/ ManualRequested \/ ManualBegins \/ ManualEnds \/ ManualHangs
    \/ (\E request \in Requests : OperatorAsks(request)) \/ OperatorApplies
    \/ IntervalPasses \/ WatchdogAlerts

Spec == Init /\ [][Next]_vars

\* What was started goes on unless it hangs; timers fire, time passes, Telegram
\* takes an alert in the end.
FairSpec ==
    /\ Spec
    /\ WF_vars(Start)
    /\ WF_vars(TickSkipped \/ TickStarts) /\ WF_vars(TickStep)
    /\ WF_vars(ManualBegins) /\ WF_vars(ManualEnds) /\ WF_vars(OperatorApplies)
    /\ WF_vars(IntervalPasses) /\ WF_vars(WatchdogAlerts)

-------------------------------------------------------------------------------
(* Properties *)

\* Who may stand in the queue: it asked for the mutex and has not released it.
Queued(agent) ==
    \/ agent = "cycle" /\ cycle.pc \in {"waiting", "running", "hung", "pausing"}
    \/ agent = "manual" /\ manual.pc # "idle"
    \/ agent = "operator" /\ operator # "none"

\* Type correctness; whoever queues for the mutex is in flight, once.
TypeOK ==
    /\ autoTrading \in BOOLEAN /\ alertsUsable \in BOOLEAN /\ alertedGap \in BOOLEAN
    /\ failureCount \in Nat /\ strikes \in Nat
    /\ lastCompleted \in 0..Never
    /\ proc \in {"booting", "serving", "stopping"}
    /\ tradingReady \in BOOLEAN
    /\ timers \in Nat
    /\ cycle \in Cycle
    /\ manual \in Manual
    /\ operator \in Requests \cup {"none"}
    /\ queue \in Seq(Agents)
    /\ \A i, j \in DOMAIN queue : queue[i] = queue[j] => i = j
    /\ \A i \in DOMAIN queue : Queued(queue[i])

\* While the process serves, exactly one tick is ahead: a timer is armed, or the
\* cycle in flight will arm it.  The chain neither dies nor doubles.
TickChainAlive ==
    proc = "serving" => timers + (IF cycleInFlight THEN 1 ELSE 0) = 1

\* After stop() no cycle is started any more: the one in flight does not re-arm.
NoCycleAfterStop == [][proc = "stopping" /\ ~cycleInFlight => cycle'.pc = "idle"]_vars

\* A cycle that trades does so while autoTrading is on in the store: a pause that
\* was confirmed to the operator is never followed by orders of a cycle that read
\* the configuration before it.
PausedMeansQuiet ==
    /\ cycle.pc = "running" /\ cycle.autoTrading => autoTrading
    /\ manual.pc = "running" /\ manual.autoTrading => autoTrading

\* A resumed loop has a fresh budget: it is paused again only after as many
\* consecutive failures, unless the process was restarted in between.
FreshStrikes ==
    restarts = 0 /\ cycle.pc = "pausing" => strikes >= MAX_CONSECUTIVE_FAILURES

\* Guardrail 7: the cycle that makes the failures too many pauses trading, however
\* manual syncs and requests queue for the mutex ahead of it, unless a manual sync
\* hangs with the mutex.
FailuresPauseTrading ==
    cycle.pc = "pausing" ~> ~autoTrading \/ manual.pc = "hung" \/ proc # "serving"

\* A loop that is stuck, in its cycle or behind a manual sync, is reported as long
\* as a first cycle ever completed and no settings form disables the alerts or
\* pauses trading first.
StallReported ==
    LET stuck == cycle.pc = "hung" \/ (cycle.pc = "waiting" /\ manual.pc = "hung")
    IN  autoTrading /\ lastCompleted # Never /\ stuck
            ~> alertedGap \/ ~alertsUsable \/ ~autoTrading \/ proc # "serving"

\* The queue, with its head inside once it has read the configuration, and
\* autoTrading implement StoreMutex: cycles, manual syncs, the auto-pause and the
\* operator are served in the order in which they asked, and nothing is written
\* while one of them works on what it read.
Inside == IF cycle.pc \in {"running", "hung"} THEN "cycle"
          ELSE IF manual.pc \in {"running", "hung"} THEN "manual" ELSE "nobody"
Store == INSTANCE StoreMutex
    WITH Users <- Agents, Values <- BOOLEAN, value <- autoTrading, holder <- Inside,
         waiting <- IF Inside = "nobody" THEN queue ELSE Tail(queue),
         read <- IF Inside = "cycle" THEN cycle.autoTrading
                 ELSE IF Inside = "manual" THEN manual.autoTrading ELSE "nothing"
ImplementsStore == Store!StoreSpec

\* With trading on, an overdue gap is always reported to the operator who had
\* alerts configured.
OverdueReported ==
    autoTrading /\ lastCompleted = Overdue ~> alertedGap \/ ~autoTrading \/ proc # "serving"
================================================================================
