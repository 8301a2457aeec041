-------------------------- MODULE SyncSchedulerProofs --------------------------
(***************************************************************************)
(* What the scheduler guarantees for every failure limit, every set of     *)
(* faults and any number of requests and restarts: types, the chain of     *)
(* timers, and the pause.                                                  *)
(***************************************************************************)
EXTENDS SyncScheduler, SequenceTheorems, TLAPS

-------------------------------------------------------------------------------
(* The queue of the mutex *)

Distinct(q) == \A i, j \in DOMAIN q : q[i] = q[j] => i = j

\* A new waiter joins at the end: the members stay, the holder too.
LEMMA JoinQueue ==
    ASSUME NEW q \in Seq(Agents), NEW agent \in Agents,
           Distinct(q), \A i \in DOMAIN q : q[i] # agent
    PROVE  /\ Append(q, agent) \in Seq(Agents)
           /\ Distinct(Append(q, agent))
           /\ \A i \in DOMAIN Append(q, agent) :
                 \/ Append(q, agent)[i] = agent
                 \/ \E j \in DOMAIN q : Append(q, agent)[i] = q[j]
           /\ q # <<>> => Append(q, agent) # <<>> /\ Head(Append(q, agent)) = Head(q)
<1>1. /\ Append(q, agent) \in Seq(Agents)
      /\ Len(Append(q, agent)) = Len(q) + 1
      /\ \A i \in 1..Len(q) : Append(q, agent)[i] = q[i]
      /\ Append(q, agent)[Len(q) + 1] = agent
  BY AppendProperties
<1>2. DOMAIN q = 1..Len(q) /\ Len(q) \in Nat /\ DOMAIN Append(q, agent) = 1..(Len(q) + 1)
  BY <1>1, LenProperties
<1>3. Distinct(Append(q, agent))
  BY <1>1, <1>2 DEF Distinct
<1>4. q # <<>> => Append(q, agent) # <<>> /\ Head(Append(q, agent)) = Head(q)
  BY <1>1, <1>2
<1> QED
  BY <1>1, <1>2, <1>3, <1>4

\* The holder leaves: the others stay, and it is not among them.
LEMMA LeaveQueue ==
    ASSUME NEW q \in Seq(Agents), q # <<>>, Distinct(q)
    PROVE  /\ Tail(q) \in Seq(Agents)
           /\ Distinct(Tail(q))
           /\ \A i \in DOMAIN Tail(q) :
                 Tail(q)[i] # Head(q) /\ \E j \in DOMAIN q : Tail(q)[i] = q[j]
<1>1. /\ Tail(q) \in Seq(Agents) /\ Len(Tail(q)) = Len(q) - 1
      /\ \A i \in 1..Len(Tail(q)) : Tail(q)[i] = q[i + 1]
      /\ Head(q) = q[1]
  BY HeadTailProperties
<1>2. DOMAIN q = 1..Len(q) /\ Len(q) \in Nat /\ DOMAIN Tail(q) = 1..Len(Tail(q))
  BY <1>1, LenProperties
<1> QED
  BY <1>1, <1>2 DEF Distinct

-------------------------------------------------------------------------------
(* Types and the mutex *)

\* A cycle or a manual sync past its wait is the holder.
MutexInv ==
    /\ cycle.pc \in {"running", "hung"} => Holds("cycle")
    /\ manual.pc \in {"running", "hung"} => Holds("manual")

TypeInv == TypeOK /\ MutexInv

LEMMA TypeInit == Init => TypeInv
<1> SUFFICES ASSUME Init PROVE TypeInv
  OBVIOUS
<1>1. NoCycle \in Cycle /\ NoManual \in Manual /\ Never \in Nat
  BY SchedulerAssumption DEF NoCycle, NoManual, Cycle, Manual, Never, Overdue
<1>2. queue \in Seq(Agents) /\ DOMAIN queue = {}
  BY DEF Init
<1>3. MutexInv
  BY DEF Init, MutexInv, NoCycle, NoManual
<1>4. Never \in 0..Never
  BY <1>1
<1>5. /\ \A i, j \in DOMAIN queue : queue[i] = queue[j] => i = j
      /\ \A i \in DOMAIN queue : Queued(queue[i])
  BY <1>2
<1>6. TypeOK
  BY <1>1, <1>2, <1>4, <1>5 DEF Init, TypeOK
<1> QED
  BY <1>3, <1>6 DEF TypeInv

\* The scalar part of TypeOK and its part about the queue.
ValuesOK ==
    /\ autoTrading \in BOOLEAN /\ alertsUsable \in BOOLEAN /\ alertedGap \in BOOLEAN
    /\ failureCount \in Nat /\ strikes \in Nat
    /\ lastCompleted \in 0..Never
    /\ proc \in {"booting", "serving", "stopping"}
    /\ tradingReady \in BOOLEAN
    /\ timers \in Nat
    /\ cycle \in Cycle
    /\ manual \in Manual
    /\ operator \in Requests \cup {"none"}
QueueOK ==
    /\ queue \in Seq(Agents)
    /\ Distinct(queue)
    /\ \A i \in DOMAIN queue : Queued(queue[i])

LEMMA Split == TypeOK <=> ValuesOK /\ QueueOK
BY DEF TypeOK, ValuesOK, QueueOK, Distinct

\* Every step keeps the scalar types.
LEMMA ValuesNext == TypeInv /\ [Next]_vars => ValuesOK'
<1> SUFFICES ASSUME TypeInv, [Next]_vars PROVE ValuesOK'
  OBVIOUS
<1> USE Split, SchedulerAssumption DEF TypeInv, ValuesOK
<1>0. NoCycle \in Cycle /\ NoManual \in Manual /\ Never \in Nat /\ Overdue \in Nat /\ Overdue < Never
  BY DEF NoCycle, NoManual, Cycle, Manual, Never, Overdue
<1>1. CASE Start
  BY <1>1 DEF Start, persisted
<1>2. CASE ReconciliationSucceeds
  BY <1>2 DEF ReconciliationSucceeds, persisted
<1>3. CASE Stop
  BY <1>3 DEF Stop, persisted
<1>4. CASE Restart
  BY <1>4, <1>0 DEF Restart, persisted
<1>5. CASE TickSkipped
  BY <1>5 DEF TickSkipped, ArmedAfter, persisted
<1>6. CASE TickStarts
  <2>1. [NoCycle EXCEPT !.pc = "waiting"] \in Cycle
    BY DEF NoCycle, Cycle
  <2> QED
    BY <1>6, <2>1 DEF TickStarts, persisted
<1>7. CASE CycleBegins
  BY <1>7 DEF CycleBegins, persisted, Cycle
<1>8. ASSUME NEW failed \in BOOLEAN, CycleEnds(failed) PROVE ValuesOK'
  BY <1>8 DEF CycleEnds, persisted, Cycle
<1>9. CASE CycleHangs
  BY <1>9 DEF CycleHangs, persisted, Cycle
<1>10. CASE CycleCompleted
  <2>1. cycle' \in Cycle
    BY <1>10 DEF CycleCompleted, Cycle
  <2>2. lastCompleted' \in 0..Never
    BY <1>10, <1>0 DEF CycleCompleted
  <2> QED
    BY <1>10, <2>1, <2>2 DEF CycleCompleted
<1>11. CASE CycleSucceeded
  BY <1>11, <1>0 DEF CycleSucceeded, TickOver, ArmedAfter
<1>12. CASE CycleFailed
  <2>1. cycle' \in Cycle
    BY <1>12, <1>0 DEF CycleFailed, TickOver, Cycle
  <2>2. timers' \in Nat
    BY <1>12 DEF CycleFailed, TickOver, ArmedAfter
  <2> QED
    BY <1>12, <2>1, <2>2 DEF CycleFailed
<1>13. CASE AutoPause
  BY <1>13 DEF AutoPause, Cycle
<1>14. ASSUME NEW stored \in BOOLEAN, AutoPaused(stored) PROVE ValuesOK'
  BY <1>14, <1>0 DEF AutoPaused, TickOver, ArmedAfter
<1>15. CASE ManualRequested
  BY <1>15 DEF ManualRequested, persisted, NoManual, Manual
<1>16. CASE ManualBegins
  BY <1>16 DEF ManualBegins, persisted, Manual
<1>17. CASE ManualEnds
  BY <1>17, <1>0 DEF ManualEnds, persisted
<1>18. CASE ManualHangs
  BY <1>18 DEF ManualHangs, persisted, Manual
<1>19. ASSUME NEW request \in Requests, OperatorAsks(request) PROVE ValuesOK'
  BY <1>19 DEF OperatorAsks, persisted
<1>20. CASE OperatorApplies
  <2>1. \A request \in Requests : Asked[request] \in BOOLEAN
    BY DEF Asked, Requests
  <2>2. operator \in Requests /\ autoTrading' = Asked[operator]
    BY <1>20 DEF OperatorApplies
  <2>3. autoTrading' \in BOOLEAN
    BY <2>1, <2>2
  <2>4. alertsUsable' \in BOOLEAN
    BY <1>20, Zenon DEF OperatorApplies
  <2> QED
    BY <1>20, <2>3, <2>4 DEF OperatorApplies
<1>21. CASE IntervalPasses
  BY <1>21, <1>0 DEF IntervalPasses
<1>22. CASE WatchdogAlerts
  BY <1>22 DEF WatchdogAlerts
<1>23. CASE UNCHANGED vars
  BY <1>23 DEF vars, persisted
<1> QED
  BY <1>1, <1>2, <1>3, <1>4, <1>5, <1>6, <1>7, <1>8, <1>9, <1>10, <1>11, <1>12, <1>13, <1>14,
     <1>15, <1>16, <1>17, <1>18, <1>19, <1>20, <1>21, <1>22, <1>23 DEF Next, TickStep

\* Every step keeps the queue in order: who joins was not in it, who leaves was
\* its head, and nobody leaves the states in which it queues without leaving it.
LEMMA QueueNext == TypeInv /\ [Next]_vars => QueueOK'
<1> SUFFICES ASSUME TypeInv, [Next]_vars PROVE QueueOK'
  OBVIOUS
<1> USE Split DEF TypeInv, QueueOK
<1>a. ASSUME NEW agent \in Agents, ~Queued(agent), queue' = Append(queue, agent),
             Queued(agent)', \A a \in Agents : Queued(a) => Queued(a)'
      PROVE  QueueOK'
  <2>1. \A i \in DOMAIN queue : queue[i] # agent /\ queue[i] \in Agents
    BY <1>a, ElementOfSeq, LenProperties
  <2>2. /\ Append(queue, agent) \in Seq(Agents)
        /\ Distinct(Append(queue, agent))
        /\ \A i \in DOMAIN Append(queue, agent) :
              \/ Append(queue, agent)[i] = agent
              \/ \E j \in DOMAIN queue : Append(queue, agent)[i] = queue[j]
    BY <2>1, JoinQueue
  <2>3. (\A i \in DOMAIN queue : Queued(queue[i]))'
    BY <1>a, <2>1, <2>2 DEF Queued
  <2> QED
    BY <1>a, <2>2, <2>3
<1>b. ASSUME NEW agent \in Agents, Holds(agent), queue' = Tail(queue),
             \A a \in Agents \ {agent} : Queued(a) => Queued(a)'
      PROVE  QueueOK'
  <2>1. \A i \in DOMAIN queue : queue[i] \in Agents
    BY ElementOfSeq, LenProperties
  <2>2. /\ Tail(queue) \in Seq(Agents)
        /\ Distinct(Tail(queue))
        /\ \A i \in DOMAIN Tail(queue) :
              Tail(queue)[i] # agent /\ \E j \in DOMAIN queue : Tail(queue)[i] = queue[j]
    BY <1>b, LeaveQueue DEF Holds
  <2>3. (\A i \in DOMAIN queue : Queued(queue[i]))'
    BY <1>b, <2>1, <2>2 DEF Queued
  <2> QED
    BY <1>b, <2>2, <2>3
<1>c. ASSUME UNCHANGED queue, \A a \in Agents : Queued(a) => Queued(a)'
      PROVE  QueueOK'
  <2>1. \A i \in DOMAIN queue : queue[i] \in Agents
    BY ElementOfSeq, LenProperties
  <2> QED
    BY <1>c, <2>1
<1>1. CASE Start \/ ReconciliationSucceeds \/ Stop \/ TickSkipped \/ IntervalPasses
           \/ WatchdogAlerts \/ UNCHANGED vars
  <2>1. UNCHANGED <<queue, cycle, manual, operator>>
    BY <1>1 DEF Start, ReconciliationSucceeds, Stop, TickSkipped, IntervalPasses,
                WatchdogAlerts, vars
  <2> QED
    BY <2>1, <1>c DEF Queued
<1>2. CASE Restart
  <2>1. queue' = <<>> /\ DOMAIN queue' = {}
    BY <1>2 DEF Restart
  <2> QED
    BY <2>1 DEF Distinct
<1>3. CASE TickStarts
  <2>1. ~Queued("cycle") /\ cycle'.pc = "waiting"
    BY <1>3 DEF TickStarts, Queued, cycleInFlight, NoCycle
  <2>2. \A a \in Agents : Queued(a) => Queued(a)'
    BY <1>3, <2>1 DEF TickStarts, Queued
  <2> QED
    BY <1>3, <2>1, <2>2, <1>a DEF TickStarts, Queued, Agents
<1>4. CASE CycleBegins \/ CycleHangs
  <2>1. /\ cycle.pc \in {"waiting", "running"} /\ cycle'.pc \in {"running", "hung"}
        /\ UNCHANGED <<queue, manual, operator>>
    BY <1>4 DEF CycleBegins, CycleHangs, ValuesOK, Cycle
  <2> QED
    BY <2>1, <1>c DEF Queued
<1>5. ASSUME NEW failed \in BOOLEAN, CycleEnds(failed) PROVE QueueOK'
  <2>1. Holds("cycle") /\ UNCHANGED <<manual, operator>>
    BY <1>5 DEF CycleEnds, MutexInv
  <2> QED
    BY <1>5, <2>1, <1>b DEF CycleEnds, Queued, Agents
<1>6. CASE CycleCompleted \/ CycleSucceeded \/ \E stored \in BOOLEAN : AutoPaused(stored)
  <2>1. ~Queued("cycle") /\ UNCHANGED <<queue, manual, operator>>
    BY <1>6 DEF CycleCompleted, CycleSucceeded, AutoPaused, Queued
  <2> QED
    BY <2>1, <1>c DEF Queued
<1>7. CASE CycleFailed
  <2>1. ~Queued("cycle") /\ UNCHANGED <<manual, operator>>
    BY <1>7 DEF CycleFailed, Queued
  <2>2. CASE failureCount' >= MAX_CONSECUTIVE_FAILURES
    <3>1. queue' = Append(queue, "cycle") /\ cycle'.pc = "pausing"
      BY <1>7, <2>2 DEF CycleFailed, ValuesOK, Cycle
    <3> QED
      BY <2>1, <3>1, <1>a DEF Queued, Agents
  <2>3. CASE ~(failureCount' >= MAX_CONSECUTIVE_FAILURES)
    <3>1. UNCHANGED queue
      BY <1>7, <2>3 DEF CycleFailed
    <3> QED
      BY <2>1, <3>1, <1>c DEF Queued
  <2> QED
    BY <2>2, <2>3
<1>8. CASE AutoPause
  BY <1>8, <1>b DEF AutoPause, Queued, Agents
<1>9. CASE ManualRequested
  <2>1. ~Queued("manual") /\ manual'.pc = "waiting" /\ UNCHANGED <<cycle, operator>>
    BY <1>9 DEF ManualRequested, Queued, NoManual
  <2> QED
    BY <1>9, <2>1, <1>a DEF ManualRequested, Queued, Agents
<1>10. CASE ManualBegins \/ ManualHangs
  <2>1. manual'.pc # "idle" /\ UNCHANGED <<queue, cycle, operator>>
    BY <1>10 DEF ManualBegins, ManualHangs, ValuesOK, Manual
  <2> QED
    BY <2>1, <1>c DEF Queued
<1>11. CASE ManualEnds
  <2>1. Holds("manual") /\ UNCHANGED <<cycle, operator>>
    BY <1>11 DEF ManualEnds, MutexInv
  <2> QED
    BY <1>11, <2>1, <1>b DEF ManualEnds, Queued, Agents
<1>12. ASSUME NEW request \in Requests, OperatorAsks(request) PROVE QueueOK'
  <2>1. ~Queued("operator") /\ operator' # "none" /\ UNCHANGED <<cycle, manual>>
    BY <1>12 DEF OperatorAsks, Queued, Requests
  <2> QED
    BY <1>12, <2>1, <1>a DEF OperatorAsks, Queued, Agents
<1>13. CASE OperatorApplies
  BY <1>13, <1>b DEF OperatorApplies, Queued, Agents
<1> QED
  BY <1>1, <1>2, <1>3, <1>4, <1>5, <1>6, <1>7, <1>8, <1>9, <1>10, <1>11, <1>12, <1>13
  DEF Next, TickStep

\* Every step keeps the holder at the head: who begins is the head, who joins
\* leaves it, and only the holder itself leaves.
LEMMA MutexNext == TypeInv /\ [Next]_vars => MutexInv'
<1> SUFFICES ASSUME TypeInv, [Next]_vars PROVE MutexInv'
  OBVIOUS
<1> USE Split DEF TypeInv, MutexInv, Holds
<1>a. \A agent : queue # <<>> =>
          Append(queue, agent) # <<>> /\ Head(Append(queue, agent)) = Head(queue)
  <2> SUFFICES ASSUME NEW agent, queue # <<>>
               PROVE  Append(queue, agent) # <<>> /\ Head(Append(queue, agent)) = Head(queue)
    OBVIOUS
  <2> QED
    BY DEF QueueOK
<1>1. CASE Start \/ ReconciliationSucceeds \/ Stop \/ TickSkipped \/ IntervalPasses
           \/ WatchdogAlerts \/ UNCHANGED vars
  BY <1>1 DEF Start, ReconciliationSucceeds, Stop, TickSkipped, IntervalPasses,
              WatchdogAlerts, vars
<1>2. CASE Restart
  BY <1>2 DEF Restart, NoCycle, NoManual
<1>3. CASE TickStarts
  BY <1>3, <1>a DEF TickStarts, NoCycle
<1>4. CASE CycleBegins \/ CycleHangs
  BY <1>4 DEF CycleBegins, CycleHangs
<1>5. ASSUME NEW failed \in BOOLEAN, CycleEnds(failed) PROVE MutexInv'
  <2>1. cycle'.pc = "ended" /\ manual' = manual /\ Holds("cycle")
    BY <1>5 DEF CycleEnds, ValuesOK, Cycle
  <2> QED
    BY <2>1
<1>6. CASE CycleCompleted \/ CycleSucceeded \/ \E stored \in BOOLEAN : AutoPaused(stored)
  <2>1. cycle'.pc \in {"counting", "idle"} /\ UNCHANGED <<queue, manual>>
    BY <1>6 DEF CycleCompleted, CycleSucceeded, AutoPaused, TickOver, NoCycle, ValuesOK, Cycle
  <2> QED
    BY <2>1
<1>7. CASE CycleFailed
  <2>1. cycle'.pc \in {"pausing", "idle"} /\ manual' = manual
    BY <1>7 DEF CycleFailed, TickOver, NoCycle, ValuesOK, Cycle
  <2>2. queue' \in {queue, Append(queue, "cycle")}
    BY <1>7 DEF CycleFailed
  <2> QED
    BY <2>1, <2>2, <1>a
<1>8. CASE AutoPause
  <2>1. cycle'.pc = "alerting" /\ manual' = manual /\ Holds("cycle")
    BY <1>8 DEF AutoPause, ValuesOK, Cycle
  <2> QED
    BY <2>1
<1>9. CASE ManualRequested
  BY <1>9, <1>a DEF ManualRequested, NoManual
<1>10. CASE ManualBegins \/ ManualHangs
  BY <1>10 DEF ManualBegins, ManualHangs
<1>11. CASE ManualEnds
  <2>1. manual'.pc = "idle" /\ cycle' = cycle /\ Holds("manual")
    BY <1>11 DEF ManualEnds, NoManual
  <2> QED
    BY <2>1
<1>12. ASSUME NEW request \in Requests, OperatorAsks(request) PROVE MutexInv'
  BY <1>12, <1>a DEF OperatorAsks
<1>13. CASE OperatorApplies
  BY <1>13 DEF OperatorApplies
<1> QED
  BY <1>1, <1>2, <1>3, <1>4, <1>5, <1>6, <1>7, <1>8, <1>9, <1>10, <1>11, <1>12, <1>13
  DEF Next, TickStep

LEMMA TypeNext == TypeInv /\ [Next]_vars => TypeInv'
<1> SUFFICES ASSUME TypeInv, [Next]_vars PROVE TypeInv'
  OBVIOUS
<1>1. ValuesOK' /\ QueueOK' /\ MutexInv'
  BY ValuesNext, QueueNext, MutexNext
<1>2. TypeOK'
  BY <1>1 DEF TypeOK, ValuesOK, QueueOK, Distinct
<1> QED
  BY <1>1, <1>2 DEF TypeInv

\* Every variable keeps its type, and the queue of the mutex (appStore's FIFO chain
\* of promises) holds whoever waits or works, once.
THEOREM TypesCorrect == Spec => []TypeOK
<1>1. TypeInv => TypeOK
  BY DEF TypeInv
<1> QED
  BY <1>1, TypeInit, TypeNext, PTL DEF Spec

-------------------------------------------------------------------------------
(* The chain of timers *)

\* TickChainAlive says what holds while the process serves.  Before it does nothing
\* is armed or in flight; after stop() nothing is armed and a cycle may run out.
ChainInv ==
    /\ TickChainAlive
    /\ proc = "booting" => timers = 0 /\ cycle = NoCycle
    /\ proc = "stopping" => timers = 0

LEMMA ChainInit == Init => ChainInv
BY DEF Init, ChainInv, TickChainAlive

\* Each tick, whatever way it ends, leaves one timer or one cycle ahead.
LEMMA ChainNext == TypeInv /\ ChainInv /\ [Next]_vars => ChainInv'
<1> SUFFICES ASSUME TypeInv, ChainInv, [Next]_vars PROVE ChainInv'
  OBVIOUS
<1> USE Split DEF TypeInv, ChainInv, TickChainAlive, cycleInFlight
<1>0. timers \in Nat /\ cycle \in Cycle /\ proc \in {"booting", "serving", "stopping"}
  BY DEF ValuesOK
<1>1. CASE Start
  BY <1>0, <1>1 DEF Start, NoCycle
<1>2. CASE Stop
  BY <1>0, <1>2 DEF Stop
<1>3. CASE Restart
  BY <1>3 DEF Restart
<1>4. CASE TickSkipped
  BY <1>0, <1>4 DEF TickSkipped, ArmedAfter
<1>5. CASE TickStarts
  <2>1. cycle'.pc = "waiting" /\ timers' = timers - 1 /\ proc' = proc /\ timers > 0
    BY <1>5 DEF TickStarts, NoCycle
  <2> QED
    BY <1>0, <1>5, <2>1 DEF TickStarts
<1>6. CASE CycleBegins \/ CycleHangs \/ CycleCompleted \/ AutoPause
           \/ \E failed \in BOOLEAN : CycleEnds(failed)
  <2>1. cycle.pc # "idle" /\ cycle'.pc # "idle" /\ UNCHANGED <<proc, timers>>
    BY <1>0, <1>6 DEF CycleBegins, CycleHangs, CycleCompleted, AutoPause, CycleEnds, Cycle
  <2> QED
    BY <1>0, <2>1 DEF NoCycle
<1>7. CASE CycleSucceeded \/ CycleFailed \/ \E stored \in BOOLEAN : AutoPaused(stored)
  <2>1. cycle.pc # "idle" /\ proc' = proc
    BY <1>7 DEF CycleSucceeded, CycleFailed, AutoPaused
  <2>2. \/ TickOver
        \/ cycle'.pc = "pausing" /\ UNCHANGED timers
    BY <1>0, <1>7 DEF CycleSucceeded, CycleFailed, AutoPaused, Cycle
  <2>3. CASE TickOver
    BY <1>0, <2>1, <2>3 DEF TickOver, ArmedAfter, NoCycle
  <2>4. CASE cycle'.pc = "pausing" /\ UNCHANGED timers
    BY <1>0, <2>1, <2>4 DEF NoCycle
  <2> QED
    BY <2>2, <2>3, <2>4
<1>8. CASE \/ ReconciliationSucceeds \/ ManualRequested \/ ManualBegins \/ ManualEnds
           \/ ManualHangs \/ OperatorApplies \/ IntervalPasses \/ WatchdogAlerts
           \/ (\E request \in Requests : OperatorAsks(request)) \/ UNCHANGED vars
  <2>1. UNCHANGED <<proc, timers, cycle>>
    BY <1>8 DEF ReconciliationSucceeds, ManualRequested, ManualBegins, ManualEnds, ManualHangs,
                OperatorApplies, IntervalPasses, WatchdogAlerts, OperatorAsks, vars
  <2> QED
    BY <2>1
<1> QED
  BY <1>1, <1>2, <1>3, <1>4, <1>5, <1>6, <1>7, <1>8 DEF Next, TickStep

\* While the process serves, exactly one tick is ahead, whatever becomes of cycles,
\* however the process was restarted before (scheduler.ts tick, armNext).
THEOREM ChainNeverBreaks == Spec => []TickChainAlive
<1>1. ChainInv => TickChainAlive
  BY DEF ChainInv
<1> QED
  BY <1>1, TypeInit, TypeNext, ChainInit, ChainNext, PTL DEF Spec

\* After stop() no cycle is started any more (scheduler.ts stop).
THEOREM StopIsFinal == Spec => NoCycleAfterStop
<1>1. TypeInv /\ ChainInv /\ [Next]_vars
        => [proc = "stopping" /\ ~cycleInFlight => cycle'.pc = "idle"]_vars
  <2> SUFFICES ASSUME TypeInv, ChainInv, [Next]_vars, proc = "stopping", cycle.pc = "idle",
                      ~UNCHANGED vars
               PROVE  cycle'.pc = "idle"
    BY DEF cycleInFlight
  <2>1. timers = 0
    BY DEF ChainInv
  <2>2. ~TickStarts
    BY <2>1 DEF TickStarts
  <2>3. ~TickStep /\ ~CycleHangs
    BY DEF TickStep, CycleBegins, CycleEnds, CycleCompleted, CycleSucceeded, CycleFailed,
           AutoPause, AutoPaused, CycleHangs
  <2>4. CASE Restart
    BY <2>4 DEF Restart, NoCycle
  <2>5. CASE ~Restart
    <3>1. UNCHANGED cycle
      BY <2>2, <2>3, <2>5 DEF Next, Start, ReconciliationSucceeds, Stop, TickSkipped,
         ManualRequested, ManualBegins, ManualEnds, ManualHangs, OperatorAsks, OperatorApplies,
         IntervalPasses, WatchdogAlerts
    <3> QED
      BY <3>1
  <2> QED
    BY <2>4, <2>5
<1> QED
  BY <1>1, TypeInit, TypeNext, ChainInit, ChainNext, PTL DEF Spec, NoCycleAfterStop

-------------------------------------------------------------------------------
(* The pause *)

\* Only a holder that is not a running cycle or manual sync writes autoTrading.
LEMMA QuietNext == TypeInv /\ PausedMeansQuiet /\ [Next]_vars => PausedMeansQuiet'
<1> SUFFICES ASSUME TypeInv, PausedMeansQuiet, [Next]_vars PROVE PausedMeansQuiet'
  OBVIOUS
<1> USE Split DEF TypeInv, MutexInv, PausedMeansQuiet, Holds
<1>0. cycle \in Cycle /\ manual \in Manual
  BY DEF ValuesOK
<1>1. CASE OperatorApplies \/ AutoPause
  <2>1. \/ Head(queue) = "operator" /\ UNCHANGED cycle
        \/ Head(queue) = "cycle" /\ cycle.pc = "pausing" /\ cycle'.pc = "alerting"
    BY <1>0, <1>1 DEF OperatorApplies, AutoPause, Cycle
  <2>2. UNCHANGED manual
    BY <1>1 DEF OperatorApplies, AutoPause
  <2> QED
    BY <2>1, <2>2
<1>2. CASE CycleBegins \/ ManualBegins
  <2>1. UNCHANGED autoTrading
    BY <1>2 DEF CycleBegins, ManualBegins, persisted
  <2>2. CASE CycleBegins
    <3>1. cycle'.autoTrading = autoTrading /\ UNCHANGED manual
      BY <1>0, <2>2 DEF CycleBegins, Cycle
    <3> QED
      BY <2>1, <3>1
  <2>3. CASE ManualBegins
    <3>1. manual'.autoTrading = autoTrading /\ UNCHANGED cycle
      BY <2>3 DEF ManualBegins
    <3> QED
      BY <2>1, <3>1
  <2> QED
    BY <1>2, <2>2, <2>3
<1>3. CASE Restart
  BY <1>3 DEF Restart, NoCycle, NoManual
<1>4. CASE \/ TickStarts \/ CycleHangs \/ CycleCompleted \/ CycleSucceeded \/ CycleFailed
           \/ (\E failed \in BOOLEAN : CycleEnds(failed))
           \/ \E stored \in BOOLEAN : AutoPaused(stored)
  <2>1. cycle'.pc # "running"
    <3>1. CASE TickStarts \/ CycleHangs \/ CycleCompleted
                \/ \E failed \in BOOLEAN : CycleEnds(failed)
      BY <1>0, <3>1 DEF TickStarts, CycleHangs, CycleCompleted, CycleEnds, NoCycle, Cycle
    <3>2. CASE CycleSucceeded \/ CycleFailed \/ \E stored \in BOOLEAN : AutoPaused(stored)
      BY <1>0, <3>2 DEF CycleSucceeded, CycleFailed, AutoPaused, TickOver, NoCycle, Cycle
    <3> QED
      BY <1>4, <3>1, <3>2
  <2>2. UNCHANGED <<manual, autoTrading>>
    BY <1>4 DEF TickStarts, CycleHangs, CycleCompleted, CycleSucceeded, CycleFailed,
                CycleEnds, AutoPaused, persisted
  <2> QED
    BY <2>1, <2>2
<1>5. CASE ManualRequested \/ ManualEnds \/ ManualHangs
  <2>1. manual'.pc # "running"
    BY <1>0, <1>5 DEF ManualRequested, ManualEnds, ManualHangs, NoManual, Manual
  <2>2. UNCHANGED <<cycle, autoTrading>>
    BY <1>5 DEF ManualRequested, ManualEnds, ManualHangs, persisted
  <2> QED
    BY <2>1, <2>2
<1>6. CASE \/ Start \/ ReconciliationSucceeds \/ Stop \/ TickSkipped
           \/ (\E request \in Requests : OperatorAsks(request))
           \/ IntervalPasses \/ WatchdogAlerts \/ UNCHANGED vars
  <2>1. UNCHANGED <<cycle, manual, autoTrading>>
    BY <1>6 DEF Start, ReconciliationSucceeds, Stop, TickSkipped, OperatorAsks, IntervalPasses,
                WatchdogAlerts, persisted, vars
  <2> QED
    BY <2>1
<1> QED
  BY <1>1, <1>2, <1>3, <1>4, <1>5, <1>6 DEF Next, TickStep

\* A pause that took effect is not followed by orders of a cycle or manual sync
\* that read the configuration before it (server.ts runSyncCycle, updateConfig).
THEOREM PauseRespected == Spec => []PausedMeansQuiet
<1>1. Init => PausedMeansQuiet
  BY DEF Init, PausedMeansQuiet, NoCycle, NoManual
<1> QED
  BY <1>1, TypeInit, TypeNext, QuietNext, PTL DEF Spec

-------------------------------------------------------------------------------
(* The mutex implements the store's promise *)

\* Every step of the scheduler is a step of the store or leaves the store alone.
LEMMA StepsImplement == TypeInv /\ [Next]_vars => [Store!StoreNext]_(Store!storeVars)
<1> SUFFICES ASSUME TypeInv, [Next]_vars PROVE [Store!StoreNext]_(Store!storeVars)
  OBVIOUS
<1> DEFINE waiting == IF Inside = "nobody" THEN queue ELSE Tail(queue)
           read == IF Inside = "cycle" THEN cycle.autoTrading
                   ELSE IF Inside = "manual" THEN manual.autoTrading ELSE "nothing"
           same == /\ autoTrading' = autoTrading /\ Inside' = Inside
                   /\ waiting' = waiting /\ read' = read
<1>0. /\ cycle \in Cycle /\ manual \in Manual /\ queue \in Seq(Agents)
      /\ Distinct(queue) /\ \A i \in DOMAIN queue : Queued(queue[i])
      /\ autoTrading \in BOOLEAN /\ operator \in Requests \cup {"none"}
      /\ MutexInv
  BY Split DEF TypeInv, ValuesOK, QueueOK
<1>1. Inside # "nobody" => Holds(Inside)
  BY <1>0 DEF Inside, MutexInv
<1>s. ASSUME same PROVE [Store!StoreNext]_(Store!storeVars)
  BY <1>s DEF Store!storeVars
<1>a. ASSUME NEW agent \in Agents, ~Queued(agent), queue' = Append(queue, agent),
             autoTrading' = autoTrading, Inside' = Inside, read' = read
      PROVE  Store!Ask(agent)
  <2>1. \A i \in DOMAIN queue : queue[i] # agent
    BY <1>0, <1>a
  <2>2. CASE Inside = "nobody"
    BY <1>a, <2>1, <2>2 DEF Store!Ask, Agents
  <2>3. CASE Inside # "nobody"
    <3>1. queue # <<>> /\ Inside = Head(queue)
      BY <1>1, <2>3 DEF Holds
    <3>2. Tail(Append(queue, agent)) = Append(Tail(queue), agent)
      BY <1>0, <3>1
    <3>3. \A i \in DOMAIN Tail(queue) : \E j \in DOMAIN queue : Tail(queue)[i] = queue[j]
      BY <1>0, <3>1, LeaveQueue
    <3>4. Inside # agent
      BY <1>0, <2>1, <3>1, HeadTailProperties, LenProperties
    <3> QED
      BY <1>a, <2>1, <2>3, <3>2, <3>3, <3>4 DEF Store!Ask
  <2> QED
    BY <2>2, <2>3
<1>b. ASSUME NEW agent, Holds(agent), agent # "nobody", Inside = "nobody", Inside' = agent,
             queue' = queue, autoTrading' = autoTrading, read' = autoTrading
      PROVE  Store!Enter
  BY <1>b DEF Store!Enter, Store!Nobody, Holds
<1>c. ASSUME Inside # "nobody", Inside' = "nobody", queue' = Tail(queue),
             autoTrading' = autoTrading
      PROVE  Store!Leave
  BY <1>c DEF Store!Leave, Store!Nobody, Store!Nothing
<1>d. ASSUME Inside = "nobody", Inside' = "nobody", queue # <<>>, queue' = Tail(queue),
             autoTrading' \in BOOLEAN
      PROVE  Store!Write(autoTrading')
  BY <1>d DEF Store!Write, Store!Nobody
<1>2. CASE \/ Start \/ ReconciliationSucceeds \/ Stop \/ TickSkipped \/ IntervalPasses
           \/ WatchdogAlerts \/ UNCHANGED vars
  <2>1. UNCHANGED <<autoTrading, queue, cycle, manual>>
    BY <1>2 DEF Start, ReconciliationSucceeds, Stop, TickSkipped, IntervalPasses,
                WatchdogAlerts, vars, persisted
  <2> QED
    BY <2>1, <1>s DEF Inside
<1>3. CASE Restart
  <2>1. Inside' = "nobody" /\ queue' = <<>> /\ autoTrading' = autoTrading
    BY <1>3 DEF Restart, Inside, NoCycle, NoManual, persisted
  <2>2. Store!StoreRestart
    BY <2>1 DEF Store!StoreRestart, Store!Nobody, Store!Nothing
  <2> QED
    BY <2>2 DEF Store!StoreNext
<1>4. CASE TickStarts
  <2>1. /\ ~Queued("cycle") /\ queue' = Append(queue, "cycle")
        /\ UNCHANGED <<autoTrading, manual>>
        /\ cycle.pc = "idle" /\ cycle'.pc = "waiting"
    BY <1>4 DEF TickStarts, Queued, cycleInFlight, NoCycle, persisted
  <2>2. Inside' = Inside /\ read' = read
    BY <2>1 DEF Inside
  <2> QED
    BY <2>1, <2>2, <1>a DEF Agents, Store!StoreNext
<1>5. CASE CycleBegins
  <2>1. /\ UNCHANGED <<queue, manual, autoTrading>> /\ Holds("cycle")
        /\ cycle.pc = "waiting" /\ cycle'.pc = "running" /\ cycle'.autoTrading = autoTrading
    BY <1>0, <1>5 DEF CycleBegins, Cycle, persisted
  <2>2. Inside = "nobody" /\ Inside' = "cycle" /\ read' = autoTrading
    BY <2>1, <1>0 DEF Inside, MutexInv, Holds
  <2> QED
    BY <2>1, <2>2, <1>b DEF Store!StoreNext
<1>6. CASE CycleHangs
  <2>1. /\ UNCHANGED <<queue, manual, autoTrading>> /\ cycle.pc = "running"
        /\ cycle'.pc = "hung" /\ cycle'.autoTrading = cycle.autoTrading
    BY <1>0, <1>6 DEF CycleHangs, Cycle, persisted
  <2> QED
    BY <2>1, <1>s DEF Inside
<1>7. ASSUME NEW failed \in BOOLEAN, CycleEnds(failed)
      PROVE  [Store!StoreNext]_(Store!storeVars)
  <2>1. /\ UNCHANGED <<manual, autoTrading>> /\ queue' = Tail(queue)
        /\ cycle.pc = "running" /\ cycle'.pc = "ended"
    BY <1>0, <1>7 DEF CycleEnds, Cycle, persisted
  <2>2. Inside # "nobody" /\ Inside' = "nobody"
    BY <2>1, <1>0 DEF Inside, MutexInv, Holds
  <2> QED
    BY <2>1, <2>2, <1>c DEF Store!StoreNext
<1>8. CASE CycleCompleted \/ CycleSucceeded \/ \E stored \in BOOLEAN : AutoPaused(stored)
  <2>1. /\ UNCHANGED <<queue, manual, autoTrading>>
        /\ cycle.pc \in {"ended", "counting", "alerting"}
        /\ cycle'.pc \in {"counting", "idle"}
    BY <1>0, <1>8 DEF CycleCompleted, CycleSucceeded, AutoPaused, TickOver, NoCycle, Cycle
  <2> QED
    BY <2>1, <1>s DEF Inside
<1>9. CASE CycleFailed
  <2>1. /\ ~Queued("cycle") /\ UNCHANGED <<manual, autoTrading>>
        /\ cycle.pc = "counting" /\ cycle'.pc \in {"pausing", "idle"}
        /\ queue' = queue \/ queue' = Append(queue, "cycle")
    BY <1>0, <1>9 DEF CycleFailed, Queued, TickOver, NoCycle, Cycle
  <2>2. Inside' = Inside /\ read' = read
    BY <2>1 DEF Inside
  <2>3. CASE queue' = queue
    BY <2>1, <2>2, <2>3, <1>s
  <2>4. CASE queue' = Append(queue, "cycle")
    BY <2>1, <2>2, <2>4, <1>a DEF Agents, Store!StoreNext
  <2> QED
    BY <2>1, <2>3, <2>4
<1>10. CASE AutoPause
  <2>1. /\ Holds("cycle") /\ queue' = Tail(queue) /\ autoTrading' \in BOOLEAN
        /\ UNCHANGED manual /\ cycle.pc = "pausing" /\ cycle'.pc = "alerting"
    BY <1>0, <1>10 DEF AutoPause, Cycle
  <2>2. Inside = "nobody" /\ Inside' = "nobody"
    BY <2>1, <1>0 DEF Inside, MutexInv, Holds
  <2> QED
    BY <2>1, <2>2, <1>d DEF Holds, Store!StoreNext
<1>11. CASE ManualRequested
  <2>1. /\ ~Queued("manual") /\ queue' = Append(queue, "manual")
        /\ UNCHANGED <<autoTrading, cycle>>
        /\ manual.pc = "idle" /\ manual'.pc = "waiting"
    BY <1>11 DEF ManualRequested, Queued, NoManual, persisted
  <2>2. Inside' = Inside /\ read' = read
    BY <2>1 DEF Inside
  <2> QED
    BY <2>1, <2>2, <1>a DEF Agents, Store!StoreNext
<1>12. CASE ManualBegins
  <2>1. /\ UNCHANGED <<queue, cycle, autoTrading>> /\ Holds("manual")
        /\ manual.pc = "waiting" /\ manual'.pc = "running"
        /\ manual'.autoTrading = autoTrading
    BY <1>12 DEF ManualBegins, persisted
  <2>2. Inside = "nobody" /\ Inside' = "manual" /\ read' = autoTrading
    BY <2>1, <1>0 DEF Inside, MutexInv, Holds
  <2> QED
    BY <2>1, <2>2, <1>b DEF Store!StoreNext
<1>13. CASE ManualEnds
  <2>1. /\ UNCHANGED <<cycle, autoTrading>> /\ queue' = Tail(queue)
        /\ manual.pc = "running" /\ manual'.pc = "idle"
    BY <1>13 DEF ManualEnds, NoManual, persisted
  <2>2. Inside # "nobody" /\ Inside' = "nobody"
    BY <2>1, <1>0 DEF Inside, MutexInv, Holds
  <2> QED
    BY <2>1, <2>2, <1>c DEF Store!StoreNext
<1>14. CASE ManualHangs
  <2>1. /\ UNCHANGED <<queue, cycle, autoTrading>> /\ manual.pc = "running"
        /\ manual'.pc = "hung" /\ manual'.autoTrading = manual.autoTrading
    BY <1>0, <1>14 DEF ManualHangs, Manual, persisted
  <2> QED
    BY <2>1, <1>s DEF Inside
<1>15. ASSUME NEW request \in Requests, OperatorAsks(request)
       PROVE  [Store!StoreNext]_(Store!storeVars)
  <2>1. /\ ~Queued("operator") /\ queue' = Append(queue, "operator")
        /\ UNCHANGED <<autoTrading, cycle, manual>>
    BY <1>15 DEF OperatorAsks, Queued, persisted
  <2>2. Inside' = Inside /\ read' = read
    BY <2>1 DEF Inside
  <2> QED
    BY <2>1, <2>2, <1>a DEF Agents, Store!StoreNext
<1>16. CASE OperatorApplies
  <2>1. \A request \in Requests : Asked[request] \in BOOLEAN
    BY DEF Asked, Requests
  <2>2. operator \in Requests /\ autoTrading' = Asked[operator]
    BY <1>0, <1>16 DEF OperatorApplies
  <2>3. /\ Holds("operator") /\ queue' = Tail(queue) /\ autoTrading' \in BOOLEAN
        /\ UNCHANGED <<cycle, manual>>
    BY <2>1, <2>2, <1>16 DEF OperatorApplies
  <2>4. Inside = "nobody" /\ Inside' = "nobody"
    BY <2>3, <1>0 DEF Inside, MutexInv, Holds
  <2> QED
    BY <2>3, <2>4, <1>d DEF Holds, Store!StoreNext
<1> QED
  BY <1>2, <1>3, <1>4, <1>5, <1>6, <1>7, <1>8, <1>9, <1>10, <1>11, <1>12, <1>13, <1>14,
     <1>15, <1>16 DEF Next, TickStep

\* The scheduler's use of the mutex and of autoTrading implements StoreMutex
\* (appStore.ts ConcurrencyMutex, updateConfig).
THEOREM SchedulerImplementsStore == Spec => ImplementsStore
<1>1. Init => Store!StoreInit
  BY DEF Init, Store!StoreInit, Store!Nobody, Store!Nothing, Inside, NoCycle, NoManual
<1> QED
  BY <1>1, TypeInit, TypeNext, StepsImplement, PTL DEF Spec, ImplementsStore, Store!StoreSpec

-------------------------------------------------------------------------------
(* The budget of failures *)

\* In a process that was not restarted, the persisted count is no more than the failures
\* since the last success or pause, save while a pause is being completed; and a pause is
\* only asked for at the limit.
StrikeInv ==
    /\ restarts \in Nat
    /\ restarts = 0 /\ cycle.pc # "alerting" => failureCount <= strikes
    /\ cycle.pc = "pausing" => failureCount >= MAX_CONSECUTIVE_FAILURES

\* The count and the failures move together where the audit event is always stored.
LEMMA StrikeNext ==
    ASSUME "auditFails" \notin Faults, TypeInv, StrikeInv, [Next]_vars
    PROVE  StrikeInv'
<1>0. /\ cycle \in Cycle /\ failureCount \in Nat /\ strikes \in Nat
      /\ MAX_CONSECUTIVE_FAILURES \in Nat
  BY Split, SchedulerAssumption DEF TypeInv, ValuesOK
<1> USE DEF StrikeInv
<1>1. CASE Restart
  BY <1>0, <1>1 DEF Restart, NoCycle
<1>2. CASE \/ TickStarts \/ CycleBegins \/ CycleHangs \/ CycleCompleted
           \/ \E failed \in BOOLEAN : CycleEnds(failed)
  <2>1. cycle'.pc \notin {"pausing", "alerting"} /\ cycle.pc # "alerting"
    BY <1>0, <1>2 DEF TickStarts, CycleBegins, CycleHangs, CycleCompleted, CycleEnds, NoCycle,
       Cycle, cycleInFlight
  <2>2. UNCHANGED <<restarts, failureCount, strikes>>
    BY <1>2 DEF TickStarts, CycleBegins, CycleHangs, CycleCompleted, CycleEnds, persisted
  <2> QED
    BY <2>1, <2>2
<1>3. CASE CycleSucceeded
  BY <1>3 DEF CycleSucceeded, TickOver, NoCycle
<1>4. CASE CycleFailed
  <2>1. /\ cycle.pc = "counting" /\ failureCount' = failureCount + 1 /\ strikes' = strikes + 1
        /\ restarts' = restarts
        /\ IF failureCount' >= MAX_CONSECUTIVE_FAILURES
           THEN cycle' = [cycle EXCEPT !.pc = "pausing"] ELSE cycle' = NoCycle
    BY <1>4 DEF CycleFailed, TickOver
  <2>2. cycle'.pc = "pausing" => failureCount' >= MAX_CONSECUTIVE_FAILURES
    BY <2>1 DEF NoCycle
  <2> QED
    BY <1>0, <2>1, <2>2
<1>5. CASE AutoPause
  <2>1. cycle'.pc = "alerting" /\ restarts' = restarts
    BY <1>0, <1>5 DEF AutoPause, Cycle
  <2> QED
    BY <2>1
<1>6. CASE AutoPaused(TRUE)
  BY <1>0, <1>6 DEF AutoPaused, TickOver, NoCycle
<1>7. CASE \/ Start \/ ReconciliationSucceeds \/ Stop \/ TickSkipped
           \/ ManualRequested \/ ManualBegins \/ ManualEnds \/ ManualHangs
           \/ (\E request \in Requests : OperatorAsks(request)) \/ OperatorApplies
           \/ IntervalPasses \/ WatchdogAlerts \/ UNCHANGED vars
  <2>1. UNCHANGED <<restarts, failureCount, strikes, cycle>>
    BY <1>7 DEF Start, ReconciliationSucceeds, Stop, TickSkipped, ManualRequested, ManualBegins,
       ManualEnds, ManualHangs, OperatorAsks, OperatorApplies, IntervalPasses, WatchdogAlerts,
       persisted, vars
  <2> QED
    BY <2>1
<1> QED
  BY <1>1, <1>2, <1>3, <1>4, <1>5, <1>6, <1>7 DEF Next, TickStep

\* A resumed loop has its whole budget of failures again, for any limit and any number of
\* pauses, requests and hangs, where the audit event of a pause is always stored
\* (server.ts onAutoPause; scheduler.ts tick).
THEOREM BudgetIsFresh ==
    ASSUME "auditFails" \notin Faults
    PROVE  Spec => []FreshStrikes
<1>1. Init => StrikeInv
  BY DEF Init, StrikeInv, NoCycle
<1>2. TypeInv /\ StrikeInv /\ [Next]_vars => StrikeInv'
  BY StrikeNext
<1>3. TypeInv /\ StrikeInv => FreshStrikes
  BY Split, SchedulerAssumption DEF StrikeInv, FreshStrikes, TypeInv, ValuesOK
<1> QED
  BY <1>1, <1>2, <1>3, TypeInit, TypeNext, PTL DEF Spec
===============================================================================
