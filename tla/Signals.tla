------------------------------- MODULE Signals -------------------------------
(***************************************************************************)
(* surfaces/hx/signals.go: the signals of a production session.  A watcher   *)
(* hands the first signal to the lifecycle (Stop, Wait, Cleanup).  The       *)
(* second one it hands to the lifecycle too, which kills the agent and gives *)
(* the rest a deadline; outside the lifecycle it closes the lease, if that   *)
(* was armed, and exits itself.                                              *)
(***************************************************************************)
EXTENDS Naturals

CONSTANTS
    MaxSignals,         \* bound: signals the user sends
    StdinFull           \* may the adapter's stdin be full, with nobody reading it?

VARIABLES
    queued, sent,       \* signalCh (capacity 2) and the signals sent so far
    watch,              \* watcher: first, second, decide, hand, cleanup, exit, over
    first, second,      \* the channels of that name: is a signal in them?
    secondSignal,       \* the second signal was assigned to the lifecycle
    lifecycleRun, forceCleanup, pendingExit, stopped,
    main,               \* where Launch and its caller are
    graceful,           \* gracefulStarted is closed
    waited, cleaned,    \* the results of Wait and of Cleanup are there
    escalated, timer, kills,
    lease,              \* none, active, closing (Close was called), closed
    recorded, reason,   \* session/end is durable; the reason the terminal message gives
    exit                \* how the process ended: none, normal, direct, fallback, late

watcher == <<queued, sent, watch, first, second, secondSignal>>
shared == <<lifecycleRun, forceCleanup, pendingExit, stopped>>
results == <<graceful, waited, cleaned>>
escalation == <<escalated, timer, kills>>
ending == <<recorded, reason>>
vars == <<watcher, shared, main, results, escalation, lease, ending, exit>>

Init ==
    /\ queued = 0 /\ sent = 0 /\ watch = "first" /\ first = FALSE /\ second = FALSE
    /\ secondSignal = FALSE
    /\ lifecycleRun = FALSE /\ forceCleanup = FALSE /\ pendingExit = FALSE /\ stopped = FALSE
    /\ main = "activate" /\ graceful = FALSE /\ waited = FALSE /\ cleaned = FALSE
    /\ escalated = FALSE /\ timer = "off" /\ kills = 0
    /\ lease = "none" /\ recorded = FALSE /\ reason = "none" /\ exit = "none"

Alive == exit = "none"

----------------------------------------------------------------------------
\* The watcher: watch.

signal ==
    /\ Alive /\ sent < MaxSignals /\ ~stopped
    /\ sent' = sent + 1 /\ queued' = IF queued < 2 THEN queued + 1 ELSE queued
    /\ UNCHANGED <<watch, first, second, secondSignal, shared, main, results, escalation, lease, ending, exit>>

watchFirst ==
    /\ Alive /\ watch = "first" /\ queued > 0
    /\ queued' = queued - 1 /\ first' = TRUE /\ watch' = "second"
    /\ UNCHANGED <<sent, second, secondSignal, shared, main, results, escalation, lease, ending, exit>>

watchSecond ==
    /\ Alive /\ watch = "second" /\ queued > 0
    /\ queued' = queued - 1 /\ watch' = "decide"
    /\ UNCHANGED <<sent, first, second, secondSignal, shared, main, results, escalation, lease, ending, exit>>

watchStops ==
    /\ Alive /\ watch \in {"first", "second"} /\ stopped /\ watch' = "over"
    /\ UNCHANGED <<queued, sent, first, second, secondSignal, shared, main, results, escalation, lease, ending, exit>>

\* Under the mutex: whose is the second signal?
watchDecides ==
    /\ Alive /\ watch = "decide"
    /\ \/ lifecycleRun /\ secondSignal' = TRUE /\ watch' = "hand"
       \/ ~lifecycleRun /\ watch' = (IF forceCleanup THEN "cleanup" ELSE "exit") /\ UNCHANGED secondSignal
    /\ UNCHANGED <<queued, sent, first, second, shared, main, results, escalation, lease, ending, exit>>

watchHands ==
    /\ Alive /\ watch = "hand" /\ second' = TRUE /\ watch' = "over"
    /\ UNCHANGED <<queued, sent, first, secondSignal, shared, main, results, escalation, lease, ending, exit>>

\* Close, for a second at most: it is called and may be cut off.
ForceClosed == IF lease = "active" THEN "closing" ELSE lease

watchCleans ==
    /\ Alive /\ watch = "cleanup" /\ lease' = ForceClosed /\ watch' = "exit"
    /\ UNCHANGED <<queued, sent, first, second, secondSignal, shared, main, results, escalation, ending, exit>>

watchExits ==
    /\ Alive /\ watch = "exit" /\ exit' = "direct"
    /\ UNCHANGED <<watcher, shared, main, results, escalation, lease, ending>>

----------------------------------------------------------------------------
\* startProductionWorld: the lease is active, the adapter is started, the
\* forced cleanup is armed.  A failure of either ends the launch.

activate ==
    /\ Alive /\ main = "activate" /\ lease' = "active" /\ main' = "adapter"
    /\ UNCHANGED <<watcher, shared, results, escalation, ending, exit>>

activateFails ==
    /\ Alive /\ main = "activate" /\ main' = "record"
    /\ UNCHANGED <<watcher, shared, results, escalation, lease, ending, exit>>

adapterFails ==
    /\ Alive /\ main = "adapter" /\ lease' = "closed" /\ main' = "record"
    /\ UNCHANGED <<watcher, shared, results, escalation, ending, exit>>

armForcedLeaseCleanup ==
    /\ Alive /\ main = "adapter" /\ forceCleanup' = TRUE /\ main' = "begin"
    /\ UNCHANGED <<watcher, lifecycleRun, pendingExit, stopped, results, escalation, lease, ending, exit>>

beginLifecycle ==
    /\ Alive /\ main = "begin" /\ lifecycleRun' = TRUE /\ main' = "wait"
    /\ UNCHANGED <<watcher, forceCleanup, pendingExit, stopped, results, escalation, lease, ending, exit>>

----------------------------------------------------------------------------
\* runProductionLifecycle.

\* The goroutines of Wait and Cleanup send their results when there are any.
waitReturns ==
    /\ Alive /\ main \in {"wait", "stopping", "waiting"} /\ ~waited /\ waited' = TRUE
    /\ UNCHANGED <<watcher, shared, main, graceful, cleaned, escalation, lease, ending, exit>>

\* Cleanup calls Close, which another call may finish for it.
cleanupCloses ==
    /\ Alive /\ main = "cleanup" /\ ~cleaned /\ lease' = ForceClosed
    /\ UNCHANGED <<watcher, shared, main, results, escalation, ending, exit>>

leaseCloses ==
    /\ Alive /\ lease = "closing" /\ lease' = "closed"
    /\ UNCHANGED <<watcher, shared, main, results, escalation, ending, exit>>

cleanupReturns ==
    /\ Alive /\ main \in {"cleanup", "fallback"} /\ ~cleaned /\ lease \notin {"none", "active"} /\ cleaned' = TRUE
    /\ UNCHANGED <<watcher, shared, main, graceful, waited, escalation, lease, ending, exit>>

gotResult ==
    /\ Alive /\ main \in {"wait", "waiting"} /\ waited /\ main' = "cleanup"
    /\ UNCHANGED <<watcher, shared, results, escalation, lease, ending, exit>>

\* The first signal: markGracefulStarted, and StopWithResult, which writes to
\* the adapter's stdin; the write ends when the adapter reads or is gone.
gotFirst ==
    /\ Alive /\ main = "wait" /\ first /\ first' = FALSE /\ graceful' = TRUE /\ main' = "stopping"
    /\ UNCHANGED <<queued, sent, watch, second, secondSignal, shared, waited, cleaned, escalation, lease, ending, exit>>

stopWritten ==
    /\ Alive /\ main = "stopping" /\ (StdinFull => waited) /\ main' = "waiting"
    /\ UNCHANGED <<watcher, shared, results, escalation, lease, ending, exit>>

escalate ==
    \/ escalated /\ UNCHANGED escalation
    \/ ~escalated /\ escalated' = TRUE /\ timer' = "on" /\ kills' = kills + 1

gotSecond ==
    /\ Alive /\ main \in {"waiting", "cleanup"} /\ second /\ second' = FALSE /\ escalate
    /\ UNCHANGED <<queued, sent, watch, first, secondSignal, shared, main, results, lease, ending, exit>>

\* Slip: the cleanup's loop does not watch the deadline.
DeadlineLoopsWait == {"waiting"}

DeadlineLoops == {"waiting", "cleanup"}

\* forceFallback: Close, for a second at most, and exit.
deadline ==
    /\ Alive /\ timer = "on" /\ main \in DeadlineLoops
    /\ timer' = "fired" /\ lease' = ForceClosed /\ main' = "fallback"
    /\ UNCHANGED <<watcher, shared, results, escalated, kills, ending, exit>>

fallbackExits ==
    /\ Alive /\ main = "fallback" /\ exit' = "fallback"
    /\ UNCHANGED <<watcher, shared, main, results, escalation, lease, ending>>

gotCleanup ==
    /\ Alive /\ main = "cleanup" /\ cleaned /\ main' = "end"
    /\ UNCHANGED <<watcher, shared, results, escalation, lease, ending, exit>>

\* Slip: only the channel is looked at, and the watcher has not sent yet.
LateSecondSent == second

\* endLifecycle closes the gate and returns the second signal under one lock.
LateSecond == secondSignal

endLifecycle ==
    /\ Alive /\ main = "end" /\ lifecycleRun' = FALSE /\ main' = "pending"
    /\ IF LateSecond THEN escalate ELSE UNCHANGED escalation
    /\ UNCHANGED <<watcher, forceCleanup, pendingExit, stopped, results, lease, ending, exit>>

setPending ==
    /\ Alive /\ main = "pending" /\ pendingExit' = escalated /\ timer' = "off" /\ main' = "record"
    /\ UNCHANGED <<watcher, lifecycleRun, forceCleanup, stopped, results, escalated, kills, lease, ending, exit>>

----------------------------------------------------------------------------
\* runProduction: session/end and the terminal message, then the deferred
\* calls: stop, and after it forceExitAfterLifecycle.

sessionEnd ==
    /\ Alive /\ main = "record" /\ recorded' = TRUE /\ main' = "terminal"
    /\ UNCHANGED <<watcher, shared, results, escalation, lease, reason, exit>>

terminalReason ==
    /\ Alive /\ main = "terminal" /\ main' = "stop"
    /\ reason' = IF ~graceful THEN "none" ELSE IF secondSignal THEN "escalated" ELSE "signal"
    /\ UNCHANGED <<watcher, shared, results, escalation, lease, recorded, exit>>

stop ==
    /\ Alive /\ main = "stop" /\ stopped' = TRUE /\ main' = "after"
    /\ UNCHANGED <<watcher, lifecycleRun, forceCleanup, pendingExit, results, escalation, lease, ending, exit>>

forceExitAfterLifecycle ==
    /\ Alive /\ main = "after" /\ exit' = IF pendingExit THEN "late" ELSE "normal"
    /\ UNCHANGED <<watcher, shared, main, results, escalation, lease, ending>>

Finished == ~Alive /\ UNCHANGED vars

----------------------------------------------------------------------------
\* The steps of the watcher and of the lifecycle that touch neither the lease
\* nor the process itself.
Quiet ==
    \/ watchFirst \/ watchSecond \/ watchStops \/ watchDecides \/ watchHands
    \/ gotResult \/ gotFirst \/ stopWritten \/ gotSecond \/ gotCleanup \/ endLifecycle
    \/ setPending \/ sessionEnd \/ terminalReason \/ stop

Next ==
    \/ signal \/ Quiet \/ watchCleans \/ watchExits
    \/ activate \/ activateFails \/ adapterFails \/ armForcedLeaseCleanup \/ beginLifecycle
    \/ waitReturns \/ cleanupCloses \/ leaseCloses \/ cleanupReturns
    \/ deadline \/ fallbackExits \/ forceExitAfterLifecycle
    \/ Finished

Spec == Init /\ [][Next]_vars

----------------------------------------------------------------------------
\* "a signal already assigned to this lifecycle is escalated": a process whose
\* lifecycle was given a second signal, at whatever moment, does not end as if
\* there had been none, and one whose terminal message tells of an escalation
\* ends with the code of that signal (the gate and the signal share a mutex).
SecondIsNotForgotten ==
    /\ exit = "normal" => ~secondSignal
    /\ reason = "escalated" => pendingExit /\ exit \in {"none", "late"}

\* A second signal ends the process although the activation, the agent's
\* session and the collection may hang, whoever it is given to; one that finds
\* the forced cleanup armed ends it only after Close was called on the lease.
SecondSignalEnds ==
    /\ (watch = "decide") ~> ~Alive
    /\ (watch = "cleanup") ~> (~Alive /\ lease # "active")

\* "containers, brokers, and networks cannot be orphaned": no forced exit leaves
\* a lease that nobody tried to close.
NoOrphan == ~Alive => lease # "active"

\* "terminal evidence may be absent only in that fallback": a session that was
\* collected has its session/end when the process exits in any other way.
TerminalIsRecorded == ~Alive /\ cleaned /\ exit # "fallback" => recorded
=============================================================================
