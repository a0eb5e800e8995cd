--------------------------- MODULE ProductionSession ---------------------------
(***************************************************************************)
(* WorldLease and Signals together: runProduction of                         *)
(* surfaces/hx/run_production.go.  The launch, the finalizer and the two     *)
(* forced closes of WorldLease happen where the lifecycle and the watcher of *)
(* Signals call them, and the process ends when one of them ends it.         *)
(***************************************************************************)
EXTENDS WorldLease

CONSTANTS MaxSignals, StdinFull

VARIABLES queued, sent, watch, first, second, secondSignal, lifecycleRun, forceCleanup,
    pendingExit, stopped, main, graceful, waited, cleaned, escalated, timer, kills,
    ended, reason, exit

signals == <<queued, sent, watch, first, second, secondSignal, lifecycleRun, forceCleanup,
             pendingExit, stopped, main, graceful, waited, cleaned, escalated, timer, kills,
             ended, reason, exit>>
session == <<leaseVars, signals>>

\* Where the session sees its lease.
Lease ==
    CASE leaseClosed -> "closed"
      [] ~leaseClosed /\ \E c \in Callers : closer[c] # "none" -> "closing"
      [] ~leaseClosed /\ (\A c \in Callers : closer[c] = "none") /\ progress >= Len(Launch) -> "active"
      [] OTHER -> "none"

Session == INSTANCE Signals WITH lease <- Lease, recorded <- ended

SessionInit == LeaseInit /\ Session!Init

----------------------------------------------------------------------------
\* startProductionWorld: the last step of Activate hands the lease over, the
\* adapter is started, and then the forced cleanup is armed.

LaunchStep ==
    /\ launchStep
    /\ IF Launch[progress] = "process" THEN Session!activate ELSE UNCHANGED signals
LaunchFails ==
    /\ launchFails
    /\ IF Launch[progress] = "adapter" THEN Session!adapterFails ELSE Session!activateFails
Arm == Active /\ UNCHANGED leaseVars /\ Session!armForcedLeaseCleanup

----------------------------------------------------------------------------
\* The calls of Close: Cleanup's goroutine, which may outlive Cleanup; the
\* watcher's forced cleanup; the fallback after the deadline.

Cleanup == callClose("final") /\ Session!cleanupCloses
WatchCleans == callClose("force") /\ Session!watchCleans
Deadline == callClose("force") /\ Session!deadline

ClosePhase(c) ==
    /\ closePhase(c)
    /\ IF leaseClosed' THEN Session!leaseCloses ELSE UNCHANGED signals

\* The sandbox, and the goroutines of Close and FinalizeCollection.
Goroutines ==
    /\ \/ agentWrites \/ agentEnds
       \/ \E c \in Callers : takeToken(c) \/ tokenTimeout(c)
       \/ drain \/ diff \/ CommitCollection \/ AcknowledgeCollection
    /\ UNCHANGED signals

----------------------------------------------------------------------------
SessionExit ==
    /\ processExits
    /\ Session!watchExits \/ Session!fallbackExits \/ Session!forceExitAfterLifecycle

Environment ==
    /\ UNCHANGED leaseVars
    /\ Session!signal \/ Session!beginLifecycle \/ Session!waitReturns \/ Session!cleanupReturns

Quiet == UNCHANGED leaseVars /\ Session!Quiet

SessionNext ==
    \/ LaunchStep \/ LaunchFails \/ Arm
    \/ Cleanup \/ WatchCleans \/ Deadline \/ \E c \in Callers : ClosePhase(c)
    \/ Goroutines \/ SessionExit \/ Environment \/ Quiet
    \/ Exited /\ UNCHANGED signals

\* The watcher, the lifecycle and the timer run.  Nothing is promised of the
\* activation, the agent's session, a Close or the collection: each may hang.
SessionSpec ==
    /\ SessionInit /\ [][SessionNext]_session
    /\ WF_session(Quiet \/ WatchCleans \/ SessionExit \/ Deadline)

----------------------------------------------------------------------------
\* endLifecycle: a process whose lifecycle was given a second signal does not
\* end as if there had been none, and ends as its terminal message says.
SecondIsNotForgotten == Session!SecondIsNotForgotten

\* watch and forceFallback: a second signal ends the process although the launch,
\* a Close, the agent or the collection hangs, with Close called if it was armed.
SecondSignalEnds == Session!SecondSignalEnds

\* world.go: no exit leaves an active lease that nobody tried to close.
NoOrphan == Session!NoOrphan

\* CHANGELOG: a session that was cleaned up has its session/end when the process
\* exits, except by the last fallback.
TerminalIsRecorded == Session!TerminalIsRecorded
=============================================================================
