------------------------------ MODULE WorldLease ------------------------------
(***************************************************************************)
(* The life of a sandbox: startProductionWorld and FinalizeCollection        *)
(* (surfaces/hx/world.go) over Prepare, Activate, Close, Abort and           *)
(* AcknowledgeCollection of seams/world/local/local.go, with the receipts of *)
(* core/world/world.go.  A lease may be closed twice at a time: by the       *)
(* session's finalizer and by the cleanup of a second signal, which then     *)
(* ends the process.                                                         *)
(***************************************************************************)
EXTENDS Naturals, Sequences, FiniteSets

CONSTANTS
    FaultSets,  \* sets of what may fail together: "launch", "stop", "rm", "drain", "collect"
    MaxWrites   \* bound: changes of the agent to its upper directory

VARIABLES
    progress,       \* next step of startProductionWorld, or one of its ends
    left,       \* resources that exist
    spawned,    \* subagent/spawn is in the log
    running,    \* the agent's process runs
    written,    \* changes in the upper directory
    fsChanged,  \* collector/fs_changed in the log: {} or the set of one snapshot
    snapshot,   \* the diff in hand
    closer,     \* [final, force]: where each call of Close is
    owner,      \* holder of closeToken
    leaseClosed,
    faults,     \* what may fail in this session
    faulted,    \* a cleanup command has failed
    exited      \* hx has ended

life == <<progress, spawned>>
evidenceVars == <<written, fsChanged, snapshot>>
closingVars == <<closer, owner, leaseClosed>>
leaseVars == <<life, left, running, evidenceVars, closingVars, faulted, exited, faults>>

Callers == {"final", "force"}

\* The launch, and what each step leaves.
Launch == <<"overlay", "spawn", "secret", "broker", "approval", "netInt", "netExt",
            "proxy", "ready", "agent", "process", "adapter">>
Makes == [overlay |-> {"state", "upper", "work"}, spawn |-> {}, secret |-> {}, broker |-> {"broker"},
          approval |-> {"approval"}, netInt |-> {"netInt"}, netExt |-> {"netExt"}, proxy |-> {"proxy"},
          ready |-> {}, agent |-> {"agent"}, process |-> {"process"}, adapter |-> {}]
Dirs == {"state", "upper", "work"}
Runtime == {"broker", "approval", "netInt", "netExt", "proxy", "agent", "process"}

\* The phases of Close, and what each removes.
Phases == <<"quiesce", "process", "proxyStop", "audit", "agent", "proxy", "nets", "sockets", "work">>

\* Slip: a network is forgotten.
RemovesLess == [quiesce |-> {}, process |-> {"process"}, proxyStop |-> {}, audit |-> {"broker"},
                agent |-> {"agent"}, proxy |-> {"proxy"}, nets |-> {"netInt"},
                sockets |-> {"approval"}, work |-> {"work"}]

Removes == [quiesce |-> {}, process |-> {"process"}, proxyStop |-> {}, audit |-> {"broker"},
            agent |-> {"agent"}, proxy |-> {"proxy"}, nets |-> {"netInt", "netExt"},
            sockets |-> {"approval"}, work |-> {"work"}]
FaultOf(ph) == CASE ph \in {"process", "proxyStop"} -> "stop" [] ph \in {"quiesce", "audit"} -> "drain" [] OTHER -> "rm"

LeaseInit ==
    /\ progress = 1 /\ left = {} /\ spawned = FALSE /\ running = FALSE
    /\ written = 0 /\ fsChanged = {} /\ snapshot = 0
    /\ closer = [c \in Callers |-> "none"] /\ owner = "none"
    /\ leaseClosed = FALSE /\ faulted = FALSE /\ exited = FALSE /\ faults \in FaultSets

Launching == progress \in 1..Len(Launch) /\ ~exited
Active == progress = Len(Launch) + 1

----------------------------------------------------------------------------
\* startProductionWorld.

AtSpawn == Launch[progress] = "spawn"

launchStep ==
    /\ Launching
    /\ progress' = progress + 1 /\ left' = left \union Makes[Launch[progress]]
    /\ spawned' = (spawned \/ AtSpawn) /\ running' = (running \/ Launch[progress] = "adapter")
    /\ UNCHANGED <<evidenceVars, closingVars, faulted, exited, faults>>

\* The step fails and its caller cleans up: nothing to clean; Abort; the
\* early returns of activate; cleanupOpen with the removal of the state
\* directory; Close for a failed adapter, which keeps the upper directory.

CleanedUp(ph) ==
    CASE ph \in {"overlay", "spawn", "secret"} -> left \ Dirs
      [] ph \in {"broker", "approval"} -> left \ {"broker"}
      [] ph = "adapter" -> left \intersect {"state", "upper"}
      [] OTHER -> left \ (Dirs \union Runtime)

launchFails ==
    /\ Launching /\ "launch" \in faults
    /\ left' = CleanedUp(Launch[progress]) /\ progress' = 0 /\ leaseClosed' = (leaseClosed \/ Launch[progress] = "adapter")
    /\ UNCHANGED <<spawned, running, evidenceVars, closer, owner, faulted, exited, faults>>

----------------------------------------------------------------------------
\* The agent, until it ends, is stopped, or its container is removed.

agentWrites ==
    /\ running /\ written < MaxWrites /\ written' = written + 1
    /\ UNCHANGED <<life, left, running, fsChanged, snapshot, closingVars, faulted, exited, faults>>
agentEnds ==
    /\ running /\ running' = FALSE
    /\ UNCHANGED <<life, left, evidenceVars, closingVars, faulted, exited, faults>>

----------------------------------------------------------------------------
\* Close.

Goto(c, l) == closer' = [closer EXCEPT ![c] = l]
At(c, l) == closer[c] = l /\ ~exited

AfterClose(c) == IF c = "final" THEN "drain" ELSE "exit"

\* The session is over, or a second signal forces the close.
callClose(c) ==
    /\ Active /\ At(c, "none")
    /\ Goto(c, "token")
    /\ UNCHANGED <<life, left, running, evidenceVars, owner, leaseClosed, faulted, exited, faults>>

\* The token, or the end of the caller's context while another one has it; the
\* drain and the diff then fail with the same context.
takeToken(c) ==
    /\ At(c, "token") /\ owner = "none"
    /\ \/ leaseClosed /\ Goto(c, AfterClose(c)) /\ UNCHANGED owner
       \/ ~leaseClosed /\ owner' = c /\ Goto(c, Phases[1])
    /\ UNCHANGED <<life, left, running, evidenceVars, leaseClosed, faulted, exited, faults>>
tokenTimeout(c) ==
    /\ At(c, "token") /\ owner # "none" /\ Goto(c, IF c = "final" THEN "end" ELSE "exit")
    /\ UNCHANGED <<life, left, running, evidenceVars, owner, leaseClosed, faulted, exited, faults>>

Index(ph) == CHOOSE i \in DOMAIN Phases : Phases[i] = ph

\* Slip: the agent is not removed when its stop has failed.
RunsOnAfterRm(ph, ok) == running /\ ~(ok /\ ph = "process")

RunsOn(ph, ok) == running /\ ~(ok /\ ph \in {"process", "agent"})

Returned == "none"

\* One phase; an error is joined and the next phase follows.
closePhase(c) ==
    /\ closer[c] \in {Phases[i] : i \in DOMAIN Phases} /\ ~exited
    /\ LET ph == closer[c]
       IN \E ok \in BOOLEAN :
            /\ ~ok => FaultOf(ph) \in faults
            /\ left' = IF ok THEN left \ Removes[ph] ELSE left
            /\ running' = RunsOn(ph, ok)
            /\ faulted' = (faulted \/ ~ok)
            /\ \/ ph # "work" /\ Goto(c, Phases[Index(ph) + 1]) /\ UNCHANGED <<owner, leaseClosed>>
               \/ ph = "work" /\ Goto(c, AfterClose(c)) /\ owner' = Returned /\ leaseClosed' = TRUE
    /\ UNCHANGED <<life, evidenceVars, exited, faults>>

\* hx ends: its session is over, or a second signal does not wait any longer,
\* whatever the calls of Close are doing.
processExits ==
    /\ ~exited /\ exited' = TRUE
    /\ UNCHANGED <<life, left, running, evidenceVars, closingVars, faulted, faults>>

----------------------------------------------------------------------------
\* FinalizeCollection after Close: drain, diff, commit, acknowledge.

\* Effects not drained in time, or not recorded: the upper directory stays.
drain ==
    /\ At("final", "drain")
    /\ \/ Goto("final", "diff")
       \/ faults \intersect {"drain", "collect"} # {} /\ Goto("final", "end")
    /\ UNCHANGED <<life, left, running, evidenceVars, owner, leaseClosed, faulted, exited, faults>>
diff ==
    /\ At("final", "diff")
    /\ \/ snapshot' = written /\ Goto("final", "commit")
       \/ "collect" \in faults /\ Goto("final", "end") /\ UNCHANGED snapshot
    /\ UNCHANGED <<life, left, running, written, fsChanged, owner, leaseClosed, faulted, exited, faults>>

CommitFails == "end"

CommitCollection ==
    /\ At("final", "commit")
    /\ \/ fsChanged' = {snapshot} /\ Goto("final", "ack")
       \/ "collect" \in faults /\ Goto("final", CommitFails) /\ UNCHANGED fsChanged
    /\ UNCHANGED <<life, left, running, written, snapshot, owner, leaseClosed, faulted, exited, faults>>

AcknowledgeCollection ==
    /\ At("final", "ack") /\ Goto("final", "end")
    /\ \/ leaseClosed /\ left' = left \ {"upper"}
       \/ (~leaseClosed \/ "rm" \in faults) /\ UNCHANGED left
    /\ UNCHANGED <<life, running, evidenceVars, owner, leaseClosed, faulted, exited, faults>>

----------------------------------------------------------------------------
Exited == exited /\ UNCHANGED leaseVars

LeaseNext ==
    \/ launchStep \/ launchFails \/ agentWrites \/ agentEnds
    \/ \E c \in Callers : callClose(c) \/ takeToken(c) \/ tokenTimeout(c) \/ closePhase(c)
    \/ processExits \/ drain \/ diff \/ CommitCollection \/ AcknowledgeCollection
    \/ Exited

LeaseSpec == LeaseInit /\ [][LeaseNext]_leaseVars

----------------------------------------------------------------------------
\* FinalizeCollection "commits the complete fs snapshot, and only then presents
\* the opaque receipt that permits the backend to remove upper": the upper
\* directory is gone only when the log has everything the agent wrote to it.
EvidenceIsKept == written > 0 /\ "upper" \notin left => written \in fsChanged

\* "A writer failure therefore cannot start a container", and Close removes every
\* one: a broker, a network or a container exists only after its spawn is durable,
\* and neither after a launch that failed, whichever step that was, nor after a
\* Close, whichever of its two callers ran it, unless a removal itself failed.
RuntimeIsAccounted ==
    left \intersect Runtime # {} \/ running => spawned /\ progress # 0 /\ (leaseClosed => faulted)

\* A lease leaves nothing behind and takes nothing away unrecorded, whichever step
\* of launch, collection or Close failed or ran twice.
LeaseIsAccounted == EvidenceIsKept /\ RuntimeIsAccounted

\* "From this point the backend owns cleanup even when activation fails": a
\* failed launch leaves no state directory.
FailedLaunchLeavesNoState == progress = 0 => left \intersect Dirs \in {{}, {"state", "upper"}}
=============================================================================
