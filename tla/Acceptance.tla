----------------------------- MODULE Acceptance -----------------------------
(***************************************************************************)
(* seams/accept and the pipeline of surfaces/hx/run_production.go that uses *)
(* it: runs of hx with the same idempotency key race to claim it, one of    *)
(* them initialises the session, marks it launched and launches.  A process *)
(* may crash or fail at every step, the machine may lose power, an operator *)
(* may delete the session file, and hx audit-accept compares the registry   *)
(* with the log meanwhile.  Keys do not interact: one key is modelled.      *)
(***************************************************************************)
EXTENDS Naturals, Sequences, FiniteSets

CONSTANTS Runs,          \* runs of hx run; a run is also the trace id it draws
          Audits,        \* runs of hx audit-accept
          Requests,      \* what they ask for: [fp, policy], fingerprint and policy hash
          OrderedDirs,   \* does fsync of a new directory persist its own entry?
          PowerLosses    \* bound: how often the machine loses power

ASSUME OrderedDirsAssumption == OrderedDirs \in BOOLEAN
ASSUME TraceAssumption == "none" \notin Runs

VARIABLES
    dir,        \* the key directory as processes see it
    disk,       \* the key directory as it would be found after a power loss
    entry,      \* is the key directory's own entry in the root durable?
    pc,         \* run -> step
    req,        \* run -> its fingerprint and policy hash
    seen,       \* run or audit -> what its Lookup has read
    told,       \* run -> control message it has written
    launched,   \* history: runs that have launched
    outages

runVars == <<pc, req, told, launched>>
vars == <<dir, disk, entry, seen, outages, runVars>>

NoClaim == [trace |-> "none", fp |-> "none", policy |-> "none"]
NoSession == [exists |-> FALSE, events |-> <<>>]
EmptyDir == [claim |-> NoClaim, db |-> FALSE, launch |-> FALSE, session |-> NoSession]
NoMessage == [status |-> "none", trace |-> "none"]
NoStatus == [pc |-> "idle", db |-> FALSE, launch |-> FALSE, session |-> FALSE, claim |-> NoClaim, issues |-> {}]

Init ==
    /\ dir = EmptyDir /\ disk = EmptyDir /\ entry = FALSE /\ outages = 0
    /\ pc = [p \in Runs |-> "idle"]
    /\ req = [p \in Runs |-> [fp |-> "none", policy |-> "none"]]
    /\ seen = [x \in Runs \cup Audits |-> NoStatus]
    /\ told = [p \in Runs |-> NoMessage] /\ launched = {}

Go(p, to) == pc' = [pc EXCEPT ![p] = to]
Tell(p, status, trace) == told' = [told EXCEPT ![p] = [status |-> status, trace |-> trace]]
Reject(p) == Go(p, "end") /\ Tell(p, "rejected", "none")

\* Slip: the directory is not synced.
syncDirNot == UNCHANGED <<disk, entry>>

\* fsync of the key directory.
syncDir == disk' = dir /\ entry' = (entry \/ OrderedDirs)

----------------------------------------------------------------------------
\* Claim.

start(p, r) ==
    /\ pc[p] = "idle"
    /\ req' = [req EXCEPT ![p] = r]
    /\ Go(p, "claim")
    /\ UNCHANGED <<dir, disk, entry, seen, told, launched, outages>>

ClaimOf(p) == [trace |-> p, fp |-> req[p].fp, policy |-> req[p].policy]

\* Slip: a duplicate goes on like the first.
AfterDuplicateOpen == "open"

AfterDuplicate == "lookup"

\* Link the claim's file to its name, which fails when the name exists.
claimLink(p) ==
    /\ pc[p] = "claim"
    /\ \/ /\ dir.claim = NoClaim
          /\ dir' = [dir EXCEPT !.claim = ClaimOf(p)]
          /\ Go(p, "claimSync") /\ UNCHANGED told
       \/ /\ dir.claim # NoClaim /\ dir.claim.fp # req[p].fp
          /\ Reject(p) /\ UNCHANGED dir
       \/ /\ dir.claim # NoClaim /\ dir.claim.fp = req[p].fp
          /\ IF dir.claim.policy # req[p].policy THEN Reject(p) ELSE Go(p, AfterDuplicate) /\ UNCHANGED told
          /\ UNCHANGED dir
    /\ UNCHANGED <<disk, entry, req, seen, launched, outages>>

claimSync(p) ==
    /\ pc[p] = "claimSync"
    /\ syncDir
    /\ Go(p, "open")
    /\ UNCHANGED <<dir, req, seen, told, launched, outages>>

----------------------------------------------------------------------------
\* Lookup: three stats, one after the other.

lookupDB(x) ==
    seen' = [seen EXCEPT ![x].db = dir.db, ![x].claim = dir.claim, ![x].pc = "launch"]
lookupLaunch(x) ==
    /\ seen[x].pc = "launch"
    /\ seen' = [seen EXCEPT ![x].launch = dir.launch, ![x].pc = "session"]
lookupSession(x) ==
    /\ seen[x].pc = "session"
    /\ seen' = [seen EXCEPT ![x].session = dir.session.exists, ![x].pc = "read"]

replayLookup(p) ==
    /\ pc[p] = "lookup"
    /\ \/ seen[p].pc = "idle" /\ dir.claim # NoClaim /\ lookupDB(p)
       \/ lookupLaunch(p) \/ lookupSession(p)
    /\ UNCHANGED <<dir, disk, entry, runVars, outages>>

\* Slip: the duplicate is answered with the trace id it has just drawn.
ReplayedTraceOwn(p) == p

\* The trace a duplicate is answered with.
ReplayedTrace(p) == dir.claim.trace

replayAcceptance(p) ==
    /\ pc[p] = "lookup" /\ seen[p].pc = "read"
    /\ Go(p, "end")
    /\ CASE ~seen[p].db -> Tell(p, "initializing", "none")
         [] seen[p].db /\ ~seen[p].session -> Tell(p, "unknown", "none")
         [] OTHER -> Tell(p, "accepted", ReplayedTrace(p))
    /\ UNCHANGED <<dir, disk, entry, req, seen, launched, outages>>

----------------------------------------------------------------------------
\* The winner initialises the session.

Record(p, kind) == [kind |-> kind, trace |-> p, fp |-> req[p].fp, policy |-> req[p].policy]

\* A commit is durable on its own.
Commit(p, kind) ==
    /\ dir' = [dir EXCEPT !.session.events = Append(@, Record(p, kind))]
    /\ disk' = [disk EXCEPT !.session = dir'.session]

openLog(p) ==
    /\ pc[p] = "open"
    /\ dir' = [dir EXCEPT !.session.exists = TRUE]
    /\ Go(p, "init")
    /\ UNCHANGED <<disk, entry, req, seen, told, launched, outages>>

AfterInit == "db"

initBatch(p) ==
    /\ pc[p] = "init"
    /\ IF dir.session.events = <<>> THEN Commit(p, "start") /\ Go(p, AfterInit) /\ UNCHANGED told
       ELSE Reject(p) /\ UNCHANGED <<dir, disk>>
    /\ UNCHANGED <<entry, req, seen, launched, outages>>

\* mark: the claim must be there; create the marker, then sync.
markDB(p) ==
    /\ pc[p] = "db" /\ dir.claim # NoClaim
    /\ dir' = [dir EXCEPT !.db = TRUE]
    /\ Go(p, IF dir.db THEN "accepted" ELSE "dbSync")
    /\ UNCHANGED <<disk, entry, req, seen, told, launched, outages>>

markDBSync(p) ==
    /\ pc[p] = "dbSync"
    /\ syncDir
    /\ Go(p, "accepted")
    /\ UNCHANGED <<dir, req, seen, told, launched, outages>>

emitAccepted(p) ==
    /\ pc[p] = "accepted"
    /\ Tell(p, "accepted", p)
    /\ Go(p, "mark")
    /\ UNCHANGED <<dir, disk, entry, req, seen, launched, outages>>

AfterLaunchMark == "markSync"

markLaunched(p) ==
    /\ pc[p] = "mark" /\ dir.claim # NoClaim
    /\ \/ ~dir.launch /\ dir' = [dir EXCEPT !.launch = TRUE] /\ Go(p, AfterLaunchMark)
       \/ dir.launch /\ Go(p, "end") /\ UNCHANGED dir
    /\ UNCHANGED <<disk, entry, req, seen, told, launched, outages>>

markLaunchedSync(p) ==
    /\ pc[p] = "markSync"
    /\ syncDir
    /\ Go(p, "launch")
    /\ UNCHANGED <<dir, req, seen, told, launched, outages>>

\* Launch spawns and records the spawn, or fails before it; the session is
\* ended in the log either way.
launch(p) ==
    /\ pc[p] = "launch"
    /\ \/ Commit(p, "spawn") /\ launched' = launched \cup {p}
       \/ UNCHANGED <<dir, disk, launched>>
    /\ Go(p, "sessionEnd")
    /\ UNCHANGED <<entry, req, seen, told, outages>>

sessionEnd(p) ==
    /\ pc[p] = "sessionEnd"
    /\ Commit(p, "end")
    /\ Go(p, "end")
    /\ UNCHANGED <<entry, req, seen, told, launched, outages>>

----------------------------------------------------------------------------
\* hx audit-accept of a claimed key: Lookup, open the log if it was there, compare.

auditLookup(a) ==
    /\ \/ seen[a].pc = "idle" /\ dir.claim # NoClaim /\ lookupDB(a)
       \/ lookupLaunch(a) \/ lookupSession(a)
    /\ UNCHANGED <<dir, disk, entry, runVars, outages>>

\* sqlite.Open creates what does not exist.
auditOpen(a) ==
    /\ seen[a].pc = "read" /\ seen[a].session
    /\ dir' = [dir EXCEPT !.session.exists = TRUE]
    /\ seen' = [seen EXCEPT ![a].pc = "compare"]
    /\ UNCHANGED <<disk, entry, runVars, outages>>

Has(events, kind) == \E i \in DOMAIN events : events[i].kind = kind
Start(events) == events[CHOOSE i \in DOMAIN events : events[i].kind = "start"]

\* Slip: an assembly failure counts as a launch that never spawned.
LaunchExplainedSpawn(events) == Has(events, "spawn")

LaunchExplained(events) == Has(events, "spawn") \/ Has(events, "end")

Issues(s, events) ==
    (IF ~Has(events, "start") THEN {"binding_missing"}
     ELSE (IF Start(events).fp # s.claim.fp THEN {"fingerprint_mismatch"} ELSE {})
          \cup (IF Start(events).policy # s.claim.policy THEN {"policy_hash_mismatch"} ELSE {})
          \cup (IF Start(events).trace # s.claim.trace THEN {"trace_id_mismatch"} ELSE {}))
    \cup (IF ~s.db THEN {"db_marker_missing"} ELSE {})
    \cup (IF Has(events, "spawn") /\ ~s.launch THEN {"spawn_without_launch_claim"} ELSE {})
    \cup (IF s.launch /\ ~LaunchExplained(events) THEN {"launch_without_spawn"} ELSE {})

auditCompare(a) ==
    /\ seen[a].pc = "compare"
    /\ seen' = [seen EXCEPT ![a].pc = "end", ![a].issues = Issues(seen[a], dir.session.events)]
    /\ UNCHANGED <<dir, disk, entry, runVars, outages>>

----------------------------------------------------------------------------
\* The environment.

\* A run dies, or one of its file operations fails.
Crash(p) ==
    /\ pc[p] \notin {"idle", "end", "dead"}
    /\ Go(p, "dead")
    /\ UNCHANGED <<dir, disk, entry, req, seen, told, launched, outages>>

\* The machine loses power: what was not synced may be gone.
PowerLoss ==
    /\ outages < PowerLosses
    /\ outages' = outages + 1
    /\ dir' = IF entry THEN disk ELSE EmptyDir
    /\ disk' = dir'
    /\ pc' = [p \in Runs |-> IF pc[p] \in {"idle", "end"} THEN pc[p] ELSE "dead"]
    /\ seen' = [x \in Runs \cup Audits |-> IF seen[x].pc \in {"idle", "end"} THEN seen[x]
                                           ELSE [NoStatus EXCEPT !.pc = "dead"]]
    /\ UNCHANGED <<entry, req, told, launched>>

\* An operator removes a session file that no run has open.
DeleteSession ==
    /\ dir.session.events # <<>>
    /\ \A p \in Runs : pc[p] \in {"idle", "claim", "lookup", "end", "dead"}
    /\ dir' = [dir EXCEPT !.session = NoSession]
    /\ disk' = [disk EXCEPT !.session = NoSession]
    /\ UNCHANGED <<entry, seen, outages, runVars>>

Run(p) ==
    \/ \E r \in Requests : start(p, r)
    \/ claimLink(p) \/ claimSync(p) \/ replayLookup(p) \/ replayAcceptance(p)
    \/ openLog(p) \/ initBatch(p) \/ markDB(p) \/ markDBSync(p) \/ emitAccepted(p)
    \/ markLaunched(p) \/ markLaunchedSync(p) \/ launch(p) \/ sessionEnd(p)

Next ==
    \/ \E p \in Runs : Run(p) \/ Crash(p)
    \/ \E a \in Audits : auditLookup(a) \/ auditOpen(a) \/ auditCompare(a)
    \/ PowerLoss \/ DeleteSession

Spec == Init /\ [][Next]_vars

----------------------------------------------------------------------------
\* Properties.

\* One spawn per scoped key, whatever crashes, outages and retries happen.
LaunchOnce == Cardinality(launched) <= 1

\* The log belongs to the claim: its binding is the claim's, on disk as well
\* as in sight.
LogMatchesClaim ==
    \A d \in {dir, disk} : Has(d.session.events, "start") =>
        LET s == Start(d.session.events) IN
        d.claim = [trace |-> s.trace, fp |-> s.fp, policy |-> s.policy]

\* Whoever is told accepted, first or duplicate, is given the trace of the
\* claim that will still be there after a power loss.
AcceptedStands ==
    \A p \in Runs : told[p].status = "accepted" => disk.claim.trace = told[p].trace /\ entry

\* A claim is what the log and every answer go by, also after a power loss.
ClaimStands == LogMatchesClaim /\ AcceptedStands

\* The audit raises no false alarm: whatever goes on at the same time, it never
\* finds the log bound to another request than the claim, and a session that
\* ended by itself, its launch claimed and its file in place, passes.
AuditIsFair ==
    /\ \A a \in Audits :
         seen[a].issues \cap {"fingerprint_mismatch", "policy_hash_mismatch", "trace_id_mismatch"} = {}
    /\ Has(dir.session.events, "end") =>
         Issues([db |-> dir.db, launch |-> dir.launch, claim |-> dir.claim], dir.session.events) = {}

\* A spawn never runs without a launch claim, so no audit reports one.
NoFalseSpawnAlarm ==
    \A a \in Audits : "spawn_without_launch_claim" \notin seen[a].issues

\* Looking at a session never creates its file: a deleted session stays so.
DeletedStaysDeleted ==
    [][dir.db /\ ~dir.session.exists => ~dir'.session.exists]_vars
=============================================================================
