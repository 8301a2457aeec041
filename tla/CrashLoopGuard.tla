---------------------------- MODULE CrashLoopGuard ----------------------------
(***************************************************************************)
(* The supervision of the process: every boot first consults the persisted *)
(* restart history and the clean-shutdown marker (performCrashLoopBootCheck *)
(* and evaluateCrashLoopOnBoot) and stays down after too many boots within *)
(* a window; a graceful shutdown stamps the marker.  Docker restarts what  *)
(* ended with an error, the operator starts what was stopped or stays down; *)
(* both are external.  The process may die between any two steps.          *)
(*                                                                         *)
(* Only differences of times matter, so a time is modelled by its age: the *)
(* ticks passed since, up to the window, at which every age is stale.      *)
(***************************************************************************)
EXTENDS Naturals, Sequences

CONSTANTS
    CRASH_LOOP_MAX_BOOTS,
    CRASH_LOOP_WINDOW_MS, \* in ticks of the clock
    StoreFaults,          \* app_state operations that may fail, see StoreFaultKinds
    MaxBoots              \* boots and causes remembered at once (bound)

\* marker:       the marker cannot be written, read or cleared
\* historyRead:  restart_history cannot be read
\* historyWrite: restart_history cannot be written
StoreFaultKinds == {"marker", "historyRead", "historyWrite"}

ASSUME CrashLoopAssumption ==
    /\ CRASH_LOOP_MAX_BOOTS \in Nat \ {0}
    /\ CRASH_LOOP_WINDOW_MS \in Nat \ {0}
    /\ StoreFaults \subseteq StoreFaultKinds
    /\ MaxBoots \in Nat

VARIABLES
    restart_history, clean_shutdown_marker,   \* app_state
    proc,       \* where the process is in its life
    hadCleanShutdownMarker,
    startedFrom, \* how the process had ended before the boot in progress
    served,     \* history: the counted boots within the window that went on to serve
    causes      \* history: unclean ends, stay-downs and lost markers within the window

guardVars == <<restart_history, clean_shutdown_marker, proc, hadCleanShutdownMarker,
               startedFrom, served, causes>>

Age == 0..CRASH_LOOP_WINDOW_MS
Booting == {"readMarker", "evaluate", "alert", "start"}
Outcomes(fault) == IF fault \in StoreFaults THEN BOOLEAN ELSE {TRUE}

\* The boots, or causes, of a list that are younger than the window.  Lists are kept
\* oldest first, so the filter keeps what follows the stale ones.
Within(ages) ==
    LET stale == CHOOSE n \in 0..Len(ages) :
                     \A i \in 1..Len(ages) : ages[i] < CRASH_LOOP_WINDOW_MS <=> i > n
    IN SubSeq(ages, stale + 1, Len(ages))

\* mutant of prunedHistory: the boot itself is left out
ForgetThisBoot(prior) == Within(prior)

prunedHistory(prior) ==
    IF hadCleanShutdownMarker THEN Within(prior) ELSE Append(Within(prior), 0)

GuardInit ==
    /\ restart_history = <<>>
    /\ clean_shutdown_marker = FALSE
    /\ proc = "stopped"
    /\ hadCleanShutdownMarker = FALSE
    /\ startedFrom = "stopped"
    /\ served = <<>>
    /\ causes = <<>>

-------------------------------------------------------------------------------
(* The boot check *)

\* The marker excuses this boot only: it is cleared at once.  If reading or
\* clearing it fails, the boot counts.
ReadMarker(ok) ==
    /\ proc = "readMarker"
    /\ proc' = "evaluate"
    /\ hadCleanShutdownMarker' = (ok /\ clean_shutdown_marker)
    /\ clean_shutdown_marker' = (~ok /\ clean_shutdown_marker)
    /\ causes' = IF ok THEN causes ELSE Append(causes, 0)
    /\ UNCHANGED <<restart_history, startedFrom, served>>

\* An unreadable history counts as empty; one that cannot be written stays as it was.
EvaluateBoot(readOk, writeOk) ==
    LET pruned == prunedHistory(IF readOk THEN restart_history ELSE <<>>)
    IN  /\ proc = "evaluate"
        /\ proc' = IF Len(pruned) >= CRASH_LOOP_MAX_BOOTS THEN "alert" ELSE "start"
        /\ restart_history' = IF writeOk THEN pruned ELSE restart_history
        /\ UNCHANGED <<clean_shutdown_marker, hadCleanShutdownMarker, startedFrom,
                       served, causes>>

\* The alert was sent or not; exit 0, which Docker does not restart.
StayDown ==
    /\ proc = "alert"
    /\ proc' = "down"
    /\ causes' = Append(causes, 0)
    /\ UNCHANGED <<restart_history, clean_shutdown_marker, hadCleanShutdownMarker,
                   startedFrom, served>>

\* Migration and reconciliation done: listen, install the process guards.
Serve ==
    /\ proc = "start"
    /\ proc' = "serving"
    /\ served' = IF hadCleanShutdownMarker THEN served ELSE Append(served, 0)
    /\ UNCHANGED <<restart_history, clean_shutdown_marker, hadCleanShutdownMarker,
                   startedFrom, causes>>

-------------------------------------------------------------------------------
(* processGuards.ts and the ends of the process *)

\* mutant of Shutdown: the marker is not stamped
ShutdownUnmarked(ok) ==
    /\ proc = "serving"
    /\ proc' = "stopping"
    /\ UNCHANGED <<restart_history, clean_shutdown_marker, hadCleanShutdownMarker,
                   startedFrom, served, causes>>

\* SIGTERM or SIGINT: stamp the marker, then close within the grace period.
Shutdown(ok) ==
    /\ proc = "serving"
    /\ proc' = "stopping"
    /\ clean_shutdown_marker' = (ok \/ clean_shutdown_marker)
    /\ causes' = IF ok THEN causes ELSE Append(causes, 0)
    /\ UNCHANGED <<restart_history, hadCleanShutdownMarker, startedFrom, served>>

Exit ==
    /\ proc = "stopping"
    /\ proc' = "stopped"
    /\ UNCHANGED <<restart_history, clean_shutdown_marker, hadCleanShutdownMarker,
                   startedFrom, served, causes>>

\* A signal before the guards are installed kills the process without a marker.
StopDuringBoot ==
    /\ proc \in Booting
    /\ proc' = "stopped"
    /\ causes' = Append(causes, 0)
    /\ UNCHANGED <<restart_history, clean_shutdown_marker, hadCleanShutdownMarker,
                   startedFrom, served>>

\* A fatal configuration, an uncaught error or SIGKILL.
Crash ==
    /\ proc \in Booting \cup {"serving"}
    /\ proc' = "crashed"
    /\ causes' = Append(causes, 0)
    /\ UNCHANGED <<restart_history, clean_shutdown_marker, hadCleanShutdownMarker,
                   startedFrom, served>>

-------------------------------------------------------------------------------
(* The supervisor, the operator and the clock (external) *)

Boot ==
    /\ Len(Within(restart_history)) < MaxBoots /\ Len(causes) < MaxBoots
    /\ proc' = "readMarker"
    /\ startedFrom' = proc
    /\ UNCHANGED <<restart_history, clean_shutdown_marker, hadCleanShutdownMarker,
                   served, causes>>

DockerRestarts == proc = "crashed" /\ Boot
OperatorStarts == proc \in {"stopped", "down"} /\ Boot

Older(ages) ==
    [i \in DOMAIN ages |-> IF ages[i] < CRASH_LOOP_WINDOW_MS THEN ages[i] + 1 ELSE ages[i]]

\* Time passes; a boot takes none at the scale of the window.
Tick ==
    /\ proc \notin Booting
    /\ restart_history' = Older(restart_history)
    /\ served' = Within(Older(served))
    /\ causes' = Within(Older(causes))
    /\ UNCHANGED <<clean_shutdown_marker, proc, hadCleanShutdownMarker, startedFrom>>

GuardNext ==
    \/ \E ok \in Outcomes("marker") : ReadMarker(ok)
    \/ \E readOk \in Outcomes("historyRead"), writeOk \in Outcomes("historyWrite") :
          EvaluateBoot(readOk, writeOk)
    \/ StayDown \/ Serve
    \/ \E ok \in Outcomes("marker") : Shutdown(ok)
    \/ Exit \/ StopDuringBoot \/ Crash
    \/ DockerRestarts \/ OperatorStarts \/ Tick

GuardSpec == GuardInit /\ [][GuardNext]_guardVars

-------------------------------------------------------------------------------
(* Properties *)

\* Type correctness of the persisted state and of the boot in progress; the boot
\* check leaves no stale entry in a history it can write.
GuardTypeOK ==
    /\ restart_history \in Seq(Age)
    /\ clean_shutdown_marker \in BOOLEAN
    /\ proc \in Booting \cup {"serving", "stopping", "stopped", "crashed", "down"}
    /\ hadCleanShutdownMarker \in BOOLEAN
    /\ startedFrom \in {"stopped", "crashed", "down"}
    /\ served \in Seq(Age)
    /\ causes \in Seq(Age)
    /\ "historyWrite" \notin StoreFaults /\ proc \in {"alert", "start"} =>
          \A i \in DOMAIN restart_history : restart_history[i] < CRASH_LOOP_WINDOW_MS

\* A crash-looping process does not thrash: with a readable and writable history,
\* fewer boots than the limit that did not follow a clean shutdown go on to serve
\* within one window, however crashes, stops and restarts interleave.
NoThrash == Len(served) < CRASH_LOOP_MAX_BOOTS

\* The process stays down only for a reason: all but one of the boots it counts
\* within the window followed an unclean end, an earlier stay-down or a lost
\* marker.  Deliberate restarts through a clean shutdown never add up to one.
CleanRestartsNeverTrip ==
    proc = "alert" => Len(causes) >= CRASH_LOOP_MAX_BOOTS - 1

\* After a stay-down, a fixed process that is started again boots fine when fewer
\* than the limit of the counted boots before it are left in the window.
FixedProcessBoots ==
    proc = "alert" /\ startedFrom = "down" => Len(restart_history) > CRASH_LOOP_MAX_BOOTS
==============================================================================
