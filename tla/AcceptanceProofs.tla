-------------------------- MODULE AcceptanceProofs --------------------------
(***************************************************************************)
(* LaunchOnce, ClaimStands and AuditIsFair of Acceptance for every set of    *)
(* runs, audits and requests and any number of power losses, on a file       *)
(* system that keeps a directory's own entry with the directory.             *)
(***************************************************************************)
EXTENDS Acceptance, FiniteSetTheorems, TLAPS

\* The steps of the run whose claim it is, before and after claimSync, the ones
\* in which its log has been written, and the ones after both markers.
Logged == {"db", "dbSync", "accepted", "mark", "markSync", "launch", "sessionEnd"}
Ready == {"open", "init"} \cup Logged
Winner == {"claimSync"} \cup Ready
Steps == {"idle", "claim", "lookup", "end", "dead"} \cup Winner

Fingerprints == {r.fp : r \in Requests} \cup {"none"}
Policies == {r.policy : r \in Requests} \cup {"none"}
Claims == [trace : Runs \cup {"none"}, fp : Fingerprints, policy : Policies]
Events == [kind : {"start", "spawn", "end"}, trace : Runs, fp : Fingerprints, policy : Policies]
Dirs == [claim : Claims, db : BOOLEAN, launch : BOOLEAN, session : [exists : BOOLEAN, events : Seq(Events)]]
Mismatches == {"fingerprint_mismatch", "policy_hash_mismatch", "trace_id_mismatch"}
AllIssues == Mismatches \cup {"binding_missing", "db_marker_missing", "spawn_without_launch_claim", "launch_without_spawn"}
Answers == [status : {"none", "rejected", "initializing", "unknown", "accepted"}, trace : Runs \cup {"none"}]
Stages == {"idle", "launch", "session", "read", "compare", "end", "dead"}
Statuses == [pc : Stages, db : BOOLEAN, launch : BOOLEAN, session : BOOLEAN, claim : Claims, issues : SUBSET AllIssues]

TypeOK ==
    /\ dir \in Dirs /\ disk \in Dirs /\ entry \in BOOLEAN
    /\ pc \in [Runs -> Steps]
    /\ req \in [Runs -> Requests \cup {[fp |-> "none", policy |-> "none"]}]
    /\ seen \in [Runs \cup Audits -> Statuses]
    /\ told \in [Runs -> Answers]
    /\ launched \subseteq Runs

Binding(e) == [trace |-> e.trace, fp |-> e.fp, policy |-> e.policy]

\* The claim in sight is the winner's; once it is on disk it is there for good,
\* and only then is anything else marked or anybody told.
ClaimInv ==
    /\ \A p \in Runs : pc[p] \in Winner => dir.claim = ClaimOf(p)
    /\ \A p \in Runs : pc[p] \in Ready => disk.claim # NoClaim
    /\ disk.claim # NoClaim => entry /\ disk.claim = dir.claim
    /\ dir.db \/ disk.db \/ dir.launch \/ disk.launch => disk.claim # NoClaim
    /\ \A x \in Runs \cup Audits : seen[x].db => disk.claim # NoClaim
    /\ \A p \in Runs : told[p].status = "accepted" => disk.claim # NoClaim /\ disk.claim.trace = told[p].trace

\* Every event is bound to the claim, the first one is the start, and what an
\* event presupposes has been marked.
LogInv ==
    /\ disk.session.events = dir.session.events
    /\ dir.session.events # <<>> => dir.session.events[1].kind = "start"
    /\ \A i \in DOMAIN dir.session.events :
         LET e == dir.session.events[i] IN
         /\ disk.claim # NoClaim /\ Binding(e) = disk.claim
         /\ e.kind = "end" => disk.db
         /\ e.kind = "spawn" => disk.launch
    /\ \A p \in Runs : pc[p] \in Logged => dir.session.events # <<>>

\* The markers are set once, in sight before on disk; a launch needs a marker
\* that nobody had set, and leaves one that nobody can.
MarkInv ==
    /\ disk.db => dir.db
    /\ disk.launch => dir.launch
    /\ \A p \in Runs : pc[p] \in {"claimSync", "open", "init", "db"} => ~dir.db
    /\ \A p \in Runs : pc[p] \in {"accepted", "mark", "markSync", "launch", "sessionEnd"} => disk.db
    /\ \A p \in Runs : pc[p] = "dbSync" => dir.db
    /\ \A p \in Runs : pc[p] = "markSync" => dir.launch
    /\ \A p \in Runs : pc[p] \in {"launch", "sessionEnd"} => disk.launch
    /\ \A p \in Runs : pc[p] \in {"markSync", "launch"} => launched = {}
    /\ launched # {} => disk.launch
    /\ \A p, q \in launched : p = q

\* What an audit has read of the claim is still so when it compares.
AuditInv ==
    \A x \in Runs \cup Audits :
        /\ seen[x].pc \in {"launch", "session", "read", "compare"} => dir.claim # NoClaim /\ seen[x].claim = dir.claim
        /\ seen[x].issues \cap Mismatches = {}

AcceptInv == TypeOK /\ ClaimInv /\ LogInv /\ MarkInv /\ AuditInv

----------------------------------------------------------------------------
\* What an update of one field of the key directory leaves alone.
LEMMA SetClaim ==
    ASSUME NEW d \in Dirs, NEW v \in Claims, NEW e, e = [d EXCEPT !.claim = v]
    PROVE  e \in Dirs /\ e.claim = v /\ e.db = d.db /\ e.launch = d.launch /\ e.session = d.session
  BY Zenon DEF Dirs

LEMMA SetDB ==
    ASSUME NEW d \in Dirs, NEW v \in BOOLEAN, NEW e, e = [d EXCEPT !.db = v]
    PROVE  e \in Dirs /\ e.db = v /\ e.claim = d.claim /\ e.launch = d.launch /\ e.session = d.session
  BY Zenon DEF Dirs

LEMMA SetLaunch ==
    ASSUME NEW d \in Dirs, NEW v \in BOOLEAN, NEW e, e = [d EXCEPT !.launch = v]
    PROVE  e \in Dirs /\ e.launch = v /\ e.claim = d.claim /\ e.db = d.db /\ e.session = d.session
  BY Zenon DEF Dirs

LEMMA SetSession ==
    ASSUME NEW d \in Dirs, NEW v \in [exists : BOOLEAN, events : Seq(Events)], NEW e, e = [d EXCEPT !.session = v]
    PROVE  e \in Dirs /\ e.session = v /\ e.claim = d.claim /\ e.db = d.db /\ e.launch = d.launch
  BY Zenon DEF Dirs

LEMMA SetExists ==
    ASSUME NEW d \in Dirs, NEW v \in BOOLEAN, NEW e, e = [d EXCEPT !.session.exists = v]
    PROVE  e \in Dirs /\ e.session.events = d.session.events /\ e.claim = d.claim /\ e.db = d.db /\ e.launch = d.launch
  BY Zenon DEF Dirs

LEMMA SetEvents ==
    ASSUME NEW d \in Dirs, NEW v \in Events, NEW e, e = [d EXCEPT !.session.events = Append(@, v)]
    PROVE  e \in Dirs /\ e.session.events = Append(d.session.events, v) /\ e.claim = d.claim /\ e.db = d.db /\ e.launch = d.launch
  <1>1. d.session.events \in Seq(Events)
    BY Zenon DEF Dirs
  <1>2. Append(d.session.events, v) \in Seq(Events)
    BY <1>1
  <1> DEFINE new == [d.session EXCEPT !.events = Append(d.session.events, v)]
  <1>3. e = [d EXCEPT !.session = new]
    BY Zenon DEF Dirs
  <1>4. d.session \in [exists : BOOLEAN, events : Seq(Events)]
    BY Zenon DEF Dirs
  <1>5. new \in [exists : BOOLEAN, events : Seq(Events)] /\ new.events = Append(d.session.events, v)
    BY <1>2, <1>4, Zenon
  <1> HIDE DEF new
  <1> QED
    BY <1>3, <1>5, Zenon DEF Dirs

\* The claim of a run, and what it records, have their types.
LEMMA ClaimType ==
    ASSUME TypeOK, NEW p \in Runs
    PROVE  ClaimOf(p) \in Claims /\ ClaimOf(p).trace = p /\ ClaimOf(p) # NoClaim
  <1>1. req[p] \in Requests \cup {[fp |-> "none", policy |-> "none"]}
    BY Zenon DEF TypeOK
  <1>2. req[p].fp \in Fingerprints /\ req[p].policy \in Policies
    BY <1>1 DEF Fingerprints, Policies
  <1> QED
    BY <1>2, TraceAssumption, Zenon DEF ClaimOf, Claims, NoClaim

LEMMA RecordType ==
    ASSUME TypeOK, NEW p \in Runs, NEW k \in {"start", "spawn", "end"}
    PROVE  Record(p, k) \in Events /\ Record(p, k).kind = k /\ Binding(Record(p, k)) = ClaimOf(p)
  <1>1. req[p] \in Requests \cup {[fp |-> "none", policy |-> "none"]}
    BY Zenon DEF TypeOK
  <1>2. req[p].fp \in Fingerprints /\ req[p].policy \in Policies
    BY <1>1 DEF Fingerprints, Policies
  <1> QED
    BY <1>2, Zenon DEF Record, Events, Binding, ClaimOf

----------------------------------------------------------------------------
\* The empty key directory.
LEMMA AcceptInvInit == Init => AcceptInv
  <1> SUFFICES ASSUME Init PROVE AcceptInv
    BY Zenon
  <1>1. NoClaim \in Claims
    BY Zenon DEF NoClaim, Claims, Fingerprints, Policies
  <1>2. NoSession \in [exists : BOOLEAN, events : Seq(Events)] /\ NoSession.events = <<>>
    BY DEF NoSession
  <1>3. EmptyDir \in Dirs /\ NoStatus \in Statuses
    BY <1>1, <1>2, Zenon DEF Dirs, EmptyDir, NoStatus, Statuses, Stages
  <1>4. NoMessage \in Answers
    BY Zenon DEF NoMessage, Answers
  <1>5. TypeOK
    BY <1>3, <1>4, Zenon DEF Init, TypeOK, Steps
  <1>6. /\ dir.claim = NoClaim /\ disk.claim = NoClaim /\ ~dir.db /\ ~disk.db /\ ~dir.launch /\ ~disk.launch
        /\ dir.session.events = <<>> /\ disk.session.events = <<>>
    BY <1>2, Zenon DEF Init, EmptyDir
  <1>7. \A x \in Runs \cup Audits : seen[x].pc = "idle" /\ seen[x].issues = {} /\ ~seen[x].db
    BY Zenon DEF Init, NoStatus
  <1>8. \A p \in Runs : pc[p] = "idle" /\ told[p].status = "none"
    BY Zenon DEF Init, NoMessage
  <1>9. ClaimInv
    BY <1>6, <1>7, <1>8, Zenon DEF ClaimInv, Winner, Ready, Logged
  <1>10. LogInv
    BY <1>6, <1>8 DEF LogInv, Logged
  <1>11. MarkInv
    BY <1>6, <1>8, Zenon DEF MarkInv, Init
  <1>12. AuditInv
    BY <1>7, Zenon DEF AuditInv
  <1> QED
    BY <1>5, <1>9, <1>10, <1>11, <1>12, Zenon DEF AcceptInv

\* A run takes the key, or finds it taken.
LEMMA ClaimLinkKeeps ==
    ASSUME AcceptInv, NEW p \in Runs, claimLink(p) PROVE AcceptInv'
  <1> USE DEF AcceptInv, Winner, Ready, Logged
  <1>1. CASE dir.claim = NoClaim
    <2>1. dir' = [dir EXCEPT !.claim = ClaimOf(p)] /\ pc' = [pc EXCEPT ![p] = "claimSync"] /\ told' = told
      BY <1>1, Zenon DEF claimLink, Go
    <2>2. dir' \in Dirs /\ dir'.claim = ClaimOf(p) /\ dir'.db = dir.db /\ dir'.launch = dir.launch /\ dir'.session = dir.session
      BY <2>1, SetClaim, ClaimType DEF TypeOK
    <2>3. TypeOK'
      BY <2>1, <2>2, Zenon DEF TypeOK, claimLink, Steps
    <2>4. ClaimInv'
      BY <1>1, <2>1, <2>2, ClaimType DEF TypeOK, ClaimInv, claimLink, ClaimOf
    <2>5. LogInv'
      BY <2>1, <2>2 DEF TypeOK, LogInv, claimLink
    <2>6. MarkInv'
      BY <1>1, <2>1, <2>2 DEF TypeOK, MarkInv, ClaimInv, claimLink
    <2>7. AuditInv'
      BY <1>1, <2>2, Zenon DEF AuditInv, claimLink
    <2> QED
      BY <2>3, <2>4, <2>5, <2>6, <2>7, Zenon
  <1>2. CASE dir.claim # NoClaim
    <2>1. pc' \in {[pc EXCEPT ![p] = "end"], [pc EXCEPT ![p] = "lookup"]}
      BY <1>2, Zenon DEF claimLink, Go, Reject, AfterDuplicate
    <2>2. told' \in {told, [told EXCEPT ![p] = [status |-> "rejected", trace |-> "none"]]}
      BY <1>2, Zenon DEF claimLink, Go, Reject, AfterDuplicate, Tell
    <2>3. UNCHANGED <<dir, disk, entry, req, seen, launched>>
      BY <1>2, Zenon DEF claimLink
    <2>4. TypeOK'
      BY <2>1, <2>2, <2>3 DEF TypeOK, Steps, Answers
    <2>5. ClaimInv'
      BY <2>1, <2>2, <2>3 DEF TypeOK, ClaimInv, ClaimOf
    <2>6. LogInv' /\ MarkInv'
      BY <2>1, <2>3, SMTT(20) DEF TypeOK, LogInv, MarkInv
    <2>7. AuditInv'
      BY <2>3, Zenon DEF AuditInv
    <2> QED
      BY <2>4, <2>5, <2>6, <2>7, Zenon
  <1> QED
    BY <1>1, <1>2, Zenon

\* What a sync of the key directory makes durable.
LEMMA SyncKeeps ==
    ASSUME AcceptInv, OrderedDirs = TRUE, NEW p \in Runs, NEW to \in Ready,
           dir.claim = ClaimOf(p), pc[p] \in Winner,
           syncDir, Go(p, to), UNCHANGED <<dir, req, seen, told, launched>>,
           to \in Logged => pc[p] \in Logged,
           to \in {"open", "init", "db"} => ~dir.db,
           to \in {"accepted", "mark", "markSync", "launch", "sessionEnd"} => dir.db,
           to = "dbSync" => dir.db,
           to \in {"launch", "sessionEnd"} => dir.launch,
           to \in {"markSync", "launch"} => launched = {} /\ dir.launch
    PROVE  AcceptInv'
  <1> USE DEF AcceptInv, Winner, Ready, Logged
  <1>1. disk' = dir /\ entry' = TRUE /\ pc' = [pc EXCEPT ![p] = to] /\ dir' = dir
    BY Zenon DEF syncDir, Go, TypeOK
  <1>2. dir.claim # NoClaim
    BY ClaimType, Zenon
  <1>3. TypeOK'
    BY <1>1, Zenon DEF TypeOK, Steps
  <1>4. ClaimInv'
    BY <1>1, <1>2, SMTT(20) DEF TypeOK, ClaimInv, ClaimOf
  <1>5. LogInv'
    BY <1>1, <1>2, SMTT(20) DEF TypeOK, LogInv, ClaimInv, MarkInv
  <1>6. MarkInv'
    BY <1>1 DEF TypeOK, MarkInv
  <1>7. AuditInv'
    BY <1>1, Zenon DEF AuditInv
  <1> QED
    BY <1>3, <1>4, <1>5, <1>6, <1>7, Zenon

\* claimSync, markDBSync and markLaunchedSync.
LEMMA SyncsKeep ==
    ASSUME AcceptInv, OrderedDirs = TRUE, NEW p \in Runs,
           claimSync(p) \/ markDBSync(p) \/ markLaunchedSync(p)
    PROVE  AcceptInv'
  <1> USE DEF AcceptInv, Winner, Ready, Logged
  <1>1. CASE claimSync(p)
    BY <1>1, SyncKeeps, Zenon DEF claimSync, ClaimInv, MarkInv
  <1>2. CASE markDBSync(p)
    BY <1>2, SyncKeeps, Zenon DEF markDBSync, ClaimInv, MarkInv
  <1>3. CASE markLaunchedSync(p)
    <2>1. disk.db => dir.db
      BY Zenon DEF MarkInv
    <2> QED
      BY <1>3, <2>1, SyncKeeps, Zenon DEF markLaunchedSync, ClaimInv, MarkInv
  <1> QED
    BY <1>1, <1>2, <1>3, Zenon

\* What a commit leaves alone, and that the log stays the claim's.
LEMMA CommitKeeps ==
    ASSUME AcceptInv, NEW p \in Runs, NEW k \in {"start", "spawn", "end"}, pc[p] \in Ready, Commit(p, k),
           dir.session.events = <<>> => k = "start", k = "end" => disk.db, k = "spawn" => disk.launch
    PROVE  /\ dir' \in Dirs /\ dir'.claim = dir.claim /\ dir'.db = dir.db /\ dir'.launch = dir.launch
           /\ disk' \in Dirs /\ disk'.claim = disk.claim /\ disk'.db = disk.db /\ disk'.launch = disk.launch
           /\ disk'.session.events = dir'.session.events
           /\ dir'.session.events # <<>> /\ dir'.session.events[1].kind = "start"
           /\ \A i \in DOMAIN dir'.session.events :
                LET e == dir'.session.events[i] IN
                /\ disk.claim # NoClaim /\ Binding(e) = disk.claim
                /\ e.kind = "end" => disk.db
                /\ e.kind = "spawn" => disk.launch
  <1> DEFINE old == dir.session.events
             new == dir'.session.events
             r == Record(p, k)
  <1>1. r \in Events /\ r.kind = k /\ Binding(r) = ClaimOf(p)
    BY RecordType, Zenon DEF AcceptInv
  <1>2. /\ dir' \in Dirs /\ new = Append(old, r)
        /\ dir'.claim = dir.claim /\ dir'.db = dir.db /\ dir'.launch = dir.launch
    <2>1. dir \in Dirs /\ dir' = [dir EXCEPT !.session.events = Append(@, r)]
      BY Zenon DEF Commit, AcceptInv, TypeOK
    <2> HIDE DEF r
    <2> QED
      BY <1>1, <2>1, SetEvents
  <1>3. dir'.session \in [exists : BOOLEAN, events : Seq(Events)]
    BY <1>2, Zenon DEF Dirs
  <1>4. /\ disk' \in Dirs /\ disk'.session = dir'.session
        /\ disk'.claim = disk.claim /\ disk'.db = disk.db /\ disk'.launch = disk.launch
    BY <1>3, Zenon DEF Commit, AcceptInv, TypeOK, Dirs
  <1>5. old \in Seq(Events)
    BY Zenon DEF AcceptInv, TypeOK, Dirs
  <1>6. Binding(r) = disk.claim /\ disk.claim # NoClaim
    BY <1>1, Zenon DEF AcceptInv, ClaimInv, Winner
  <1>7. /\ DOMAIN new = 1 .. Len(old) + 1 /\ DOMAIN old = 1 .. Len(old) /\ Len(old) \in Nat
        /\ \A i \in 1 .. Len(old) : new[i] = old[i]
        /\ new[Len(old) + 1] = r
    BY <1>1, <1>2, <1>5
  <1>8. new # <<>> /\ new[1].kind = "start"
    <2>1. CASE old = <<>>
      BY <1>1, <1>7, <2>1
    <2>2. CASE old # <<>>
      BY <1>5, <1>7, <2>2 DEF AcceptInv, LogInv
    <2> QED
      BY <2>1, <2>2, Zenon
  <1>9. ASSUME NEW i \in DOMAIN new
        PROVE  Binding(new[i]) = disk.claim /\ (new[i].kind = "end" => disk.db) /\ (new[i].kind = "spawn" => disk.launch)
    <2>1. CASE i \in 1 .. Len(old)
      BY <1>7, <2>1, Zenon DEF AcceptInv, LogInv
    <2>2. CASE i = Len(old) + 1
      BY <1>1, <1>6, <1>7, <2>2, Zenon
    <2> QED
      BY <1>7, <1>9, <2>1, <2>2
  <1> QED
    BY <1>2, <1>4, <1>6, <1>8, <1>9, Zenon

\* openLog, markDB and markLaunched change the directory in sight.
LEMMA WritesKeep ==
    ASSUME AcceptInv, NEW p \in Runs, openLog(p) \/ markDB(p) \/ markLaunched(p)
    PROVE  AcceptInv'
  <1> USE DEF AcceptInv, Winner, Ready, Logged
  <1>1. CASE openLog(p)
    <2>1. dir' = [dir EXCEPT !.session.exists = TRUE] /\ pc' = [pc EXCEPT ![p] = "init"] /\ pc[p] = "open"
          /\ UNCHANGED <<disk, entry, req, seen, told, launched>>
      BY <1>1, Zenon DEF openLog, Go
    <2>2. /\ dir' \in Dirs /\ dir'.session.events = dir.session.events
          /\ dir'.claim = dir.claim /\ dir'.db = dir.db /\ dir'.launch = dir.launch
      BY <2>1, SetExists, Zenon DEF TypeOK
    <2>3. TypeOK'
      BY <2>1, <2>2, Zenon DEF TypeOK, Steps
    <2>4. ClaimInv' /\ AuditInv'
      BY <2>1, <2>2 DEF TypeOK, ClaimInv, ClaimOf, AuditInv
    <2>5. LogInv'
      BY <2>1, <2>2, Zenon DEF TypeOK, LogInv
    <2>6. MarkInv'
      BY <2>1, <2>2 DEF TypeOK, MarkInv
    <2> QED
      BY <2>3, <2>4, <2>5, <2>6, Zenon
  <1>2. CASE markDB(p)
    <2>1. dir' = [dir EXCEPT !.db = TRUE] /\ pc' = [pc EXCEPT ![p] = "dbSync"] /\ pc[p] = "db"
          /\ UNCHANGED <<disk, entry, req, seen, told, launched>>
      BY <1>2, Zenon DEF markDB, Go, MarkInv
    <2>2. /\ dir' \in Dirs /\ dir'.session = dir.session
          /\ dir'.claim = dir.claim /\ dir'.db = TRUE /\ dir'.launch = dir.launch
      BY <2>1, SetDB, Zenon DEF TypeOK
    <2>3. TypeOK'
      BY <2>1, <2>2, Zenon DEF TypeOK, Steps
    <2>4. ClaimInv' /\ AuditInv'
      BY <2>1, <2>2 DEF TypeOK, ClaimInv, ClaimOf, AuditInv
    <2>5. \A q \in Runs : pc[q] \in Winner => q = p
      BY <2>1, ClaimType DEF ClaimInv
    <2>6. LogInv' /\ MarkInv'
      BY <2>1, <2>2, <2>5 DEF TypeOK, LogInv, MarkInv
    <2> QED
      BY <2>3, <2>4, <2>6, Zenon
  <1>3. CASE markLaunched(p) /\ ~dir.launch
    <2>1. dir' = [dir EXCEPT !.launch = TRUE] /\ pc' = [pc EXCEPT ![p] = "markSync"] /\ pc[p] = "mark"
          /\ UNCHANGED <<disk, entry, req, seen, told, launched>>
      BY <1>3, Zenon DEF markLaunched, Go, AfterLaunchMark
    <2>2. /\ dir' \in Dirs /\ dir'.session = dir.session
          /\ dir'.claim = dir.claim /\ dir'.launch = TRUE /\ dir'.db = dir.db
      BY <2>1, SetLaunch, Zenon DEF TypeOK
    <2>3. TypeOK'
      BY <2>1, <2>2, Zenon DEF TypeOK, Steps
    <2>4. ClaimInv' /\ AuditInv'
      BY <2>1, <2>2 DEF TypeOK, ClaimInv, ClaimOf, AuditInv
    <2>5. LogInv' /\ MarkInv'
      BY <1>3, <2>1, <2>2 DEF TypeOK, LogInv, MarkInv
    <2> QED
      BY <2>3, <2>4, <2>5
  <1>4. CASE markLaunched(p) /\ dir.launch
    <2>1. pc' = [pc EXCEPT ![p] = "end"] /\ UNCHANGED <<dir, disk, entry, req, seen, told, launched>>
      BY <1>4, Zenon DEF markLaunched, Go
    <2>2. TypeOK' /\ ClaimInv' /\ AuditInv'
      BY <2>1, Zenon DEF TypeOK, Steps, ClaimInv, ClaimOf, AuditInv
    <2>3. LogInv' /\ MarkInv'
      BY <2>1, Zenon DEF TypeOK, LogInv, MarkInv
    <2> QED
      BY <2>2, <2>3, Zenon
  <1> QED
    BY <1>1, <1>2, <1>3, <1>4, Zenon

\* initBatch, launch and sessionEnd commit events, or give up.
LEMMA CommitsKeep ==
    ASSUME AcceptInv, NEW p \in Runs, initBatch(p) \/ launch(p) \/ sessionEnd(p)
    PROVE  AcceptInv'
  <1> USE DEF AcceptInv, Winner, Ready, Logged
  <1>1. CASE initBatch(p) /\ dir.session.events = <<>>
    <2>1. Commit(p, "start") /\ pc' = [pc EXCEPT ![p] = "db"] /\ pc[p] = "init"
          /\ UNCHANGED <<entry, req, seen, told, launched>>
      BY <1>1, Zenon DEF initBatch, Go, AfterInit
    <2>2. TypeOK'
      BY <2>1, CommitKeeps, Zenon DEF TypeOK, Steps
    <2>c. /\ dir'.claim = dir.claim /\ dir'.db = dir.db /\ dir'.launch = dir.launch
          /\ disk'.claim = disk.claim /\ disk'.db = disk.db /\ disk'.launch = disk.launch
      BY <2>1, CommitKeeps, Zenon
    <2>d. ClaimInv'
      BY <2>1, <2>c, Zenon DEF TypeOK, ClaimInv, ClaimOf
    <2>e. AuditInv'
      BY <2>1, <2>c, Zenon DEF AuditInv
    <2>3. ClaimInv' /\ AuditInv'
      BY <2>d, <2>e, Zenon
    <2>4. LogInv' /\ MarkInv'
      BY <2>1, CommitKeeps, Zenon DEF TypeOK, LogInv, MarkInv
    <2> QED
      BY <2>2, <2>3, <2>4
  <1>2. CASE initBatch(p) /\ dir.session.events # <<>>
    <2>1. pc' = [pc EXCEPT ![p] = "end"] /\ told' = [told EXCEPT ![p] = [status |-> "rejected", trace |-> "none"]]
          /\ UNCHANGED <<dir, disk, entry, req, seen, launched>>
      BY <1>2, Zenon DEF initBatch, Reject, Go, Tell
    <2>2. TypeOK'
      BY <2>1, Zenon DEF TypeOK, Steps, Answers
    <2>3. ClaimInv' /\ AuditInv'
      BY <2>1 DEF TypeOK, ClaimInv, ClaimOf, AuditInv
    <2>4. LogInv' /\ MarkInv'
      BY <2>1 DEF TypeOK, LogInv, MarkInv
    <2> QED
      BY <2>2, <2>3, <2>4
  <1>3. CASE launch(p)
    <2>1. pc' = [pc EXCEPT ![p] = "sessionEnd"] /\ pc[p] = "launch" /\ UNCHANGED <<entry, req, seen, told>>
      BY <1>3, Zenon DEF launch, Go
    <2>2. disk.launch /\ launched = {} /\ dir.session.events # <<>>
      BY <2>1, Zenon DEF MarkInv, LogInv
    <2>3. \A q \in Runs : pc[q] \in Winner => q = p
      BY <2>1, ClaimType DEF ClaimInv
    <2>4. CASE Commit(p, "spawn") /\ launched' = launched \cup {p}
      <3>1. TypeOK'
        BY <2>1, <2>2, <2>4, CommitKeeps, Zenon DEF TypeOK, Steps
      <3>c. /\ dir'.claim = dir.claim /\ dir'.db = dir.db /\ dir'.launch = dir.launch
            /\ disk'.claim = disk.claim /\ disk'.db = disk.db /\ disk'.launch = disk.launch
        BY <2>1, <2>2, <2>4, CommitKeeps, Zenon
      <3>d. ClaimInv'
        BY <2>1, <3>c, Zenon DEF TypeOK, ClaimInv, ClaimOf
      <3>2. ClaimInv' /\ AuditInv'
        BY <2>1, <3>c, <3>d, Zenon DEF AuditInv
      <3>3. LogInv'
        BY <2>1, <2>2, <2>4, CommitKeeps, Zenon DEF TypeOK, LogInv
      <3>4. MarkInv'
        BY <2>1, <2>2, <2>3, <2>4, CommitKeeps, Zenon DEF TypeOK, MarkInv
      <3> QED
        BY <3>1, <3>2, <3>3, <3>4
    <2>5. CASE UNCHANGED <<dir, disk, launched>>
      <3>1. TypeOK' /\ ClaimInv' /\ AuditInv'
        BY <2>1, <2>5, Zenon DEF TypeOK, Steps, ClaimInv, ClaimOf, AuditInv
      <3>2. LogInv' /\ MarkInv'
        BY <2>1, <2>2, <2>5, Zenon DEF TypeOK, LogInv, MarkInv
      <3> QED
        BY <3>1, <3>2
    <2> QED
      BY <1>3, <2>4, <2>5, Zenon DEF launch
  <1>4. CASE sessionEnd(p)
    <2>1. Commit(p, "end") /\ pc' = [pc EXCEPT ![p] = "end"] /\ pc[p] = "sessionEnd"
          /\ UNCHANGED <<entry, req, seen, told, launched>>
      BY <1>4, Zenon DEF sessionEnd, Go
    <2>2. disk.db /\ dir.session.events # <<>>
      BY <2>1, Zenon DEF MarkInv, LogInv
    <2>3. TypeOK'
      BY <2>1, <2>2, CommitKeeps, Zenon DEF TypeOK, Steps
    <2>c. /\ dir'.claim = dir.claim /\ dir'.db = dir.db /\ dir'.launch = dir.launch
          /\ disk'.claim = disk.claim /\ disk'.db = disk.db /\ disk'.launch = disk.launch
      BY <2>1, <2>2, CommitKeeps, Zenon
    <2>d. ClaimInv'
      BY <2>1, <2>c, Zenon DEF TypeOK, ClaimInv, ClaimOf
    <2>4. ClaimInv' /\ AuditInv'
      BY <2>1, <2>c, <2>d, Zenon DEF AuditInv
    <2>5. LogInv' /\ MarkInv'
      BY <2>1, <2>2, CommitKeeps, Zenon DEF TypeOK, LogInv, MarkInv
    <2> QED
      BY <2>3, <2>4, <2>5
  <1> QED
    BY <1>1, <1>2, <1>3, <1>4, Zenon

\* start, emitAccepted, replayAcceptance and the death of a run leave the
\* directory alone; what a duplicate is told was marked before.
LEMMA AnswersKeep ==
    ASSUME AcceptInv, NEW p \in Runs,
           (\E r \in Requests : start(p, r)) \/ emitAccepted(p) \/ replayAcceptance(p) \/ Crash(p)
    PROVE  AcceptInv'
  <1> USE DEF AcceptInv, Winner, Ready, Logged
  <1>1. CASE \E r \in Requests : start(p, r)
    <2>1. PICK r \in Requests : start(p, r)
      BY <1>1, Zenon
    <2>2. /\ pc' = [pc EXCEPT ![p] = "claim"] /\ pc[p] = "idle" /\ req' = [req EXCEPT ![p] = r]
          /\ UNCHANGED <<dir, disk, entry, seen, told, launched>>
      BY <2>1, Zenon DEF start, Go
    <2>3. TypeOK' /\ AuditInv'
      BY <2>2, Zenon DEF TypeOK, Steps, AuditInv
    <2>4. ClaimInv'
      BY <2>2, Zenon DEF TypeOK, ClaimInv, ClaimOf
    <2>5. LogInv' /\ MarkInv'
      BY <2>2, Zenon DEF TypeOK, LogInv, MarkInv
    <2> QED
      BY <2>3, <2>4, <2>5, Zenon
  <1>2. CASE emitAccepted(p)
    <2>1. /\ pc' = [pc EXCEPT ![p] = "mark"] /\ pc[p] = "accepted"
          /\ told' = [told EXCEPT ![p] = [status |-> "accepted", trace |-> p]]
          /\ UNCHANGED <<dir, disk, entry, req, seen, launched>>
      BY <1>2, Zenon DEF emitAccepted, Go, Tell
    <2>2. disk.claim # NoClaim /\ disk.claim.trace = p
      BY <2>1, ClaimType, Zenon DEF ClaimInv
    <2>3. TypeOK' /\ AuditInv'
      BY <2>1, Zenon DEF TypeOK, Steps, Answers, AuditInv
    <2>4. ClaimInv'
      BY <2>1, <2>2, Zenon DEF TypeOK, ClaimInv, ClaimOf
    <2>5. LogInv' /\ MarkInv'
      BY <2>1, Zenon DEF TypeOK, LogInv, MarkInv
    <2> QED
      BY <2>3, <2>4, <2>5, Zenon
  <1>3. CASE replayAcceptance(p)
    <2>1. /\ pc' = [pc EXCEPT ![p] = "end"]
          /\ UNCHANGED <<dir, disk, entry, req, seen, launched>>
      BY <1>3, Zenon DEF replayAcceptance, Go
    <2>2. \/ told' = [told EXCEPT ![p] = [status |-> "initializing", trace |-> "none"]]
          \/ told' = [told EXCEPT ![p] = [status |-> "unknown", trace |-> "none"]]
          \/ seen[p].db /\ told' = [told EXCEPT ![p] = [status |-> "accepted", trace |-> dir.claim.trace]]
      BY <1>3, Zenon DEF replayAcceptance, Tell, ReplayedTrace
    <2>3. dir.claim.trace \in Runs \cup {"none"}
      BY Zenon DEF TypeOK, Dirs, Claims
    <2>4. TypeOK' /\ AuditInv'
      <3>1. told' \in [Runs -> Answers]
        BY <2>2, <2>3 DEF TypeOK, Answers
      <3>2. TypeOK'
        BY <2>1, <3>1, Zenon DEF TypeOK, Steps
      <3> QED
        BY <2>1, <3>2, Zenon DEF AuditInv
    <2>5. ClaimInv'
      BY <2>1, <2>2, SMTT(20) DEF TypeOK, ClaimInv, ClaimOf
    <2>6. LogInv' /\ MarkInv'
      BY <2>1, Zenon DEF TypeOK, LogInv, MarkInv
    <2> QED
      BY <2>4, <2>5, <2>6
  <1>4. CASE Crash(p)
    <2>1. pc' = [pc EXCEPT ![p] = "dead"] /\ UNCHANGED <<dir, disk, entry, req, seen, told, launched>>
      BY <1>4, Zenon DEF Crash, Go
    <2>2. TypeOK' /\ ClaimInv' /\ AuditInv'
      BY <2>1, Zenon DEF TypeOK, Steps, ClaimInv, ClaimOf, AuditInv
    <2>3. LogInv' /\ MarkInv'
      BY <2>1, Zenon DEF TypeOK, LogInv, MarkInv
    <2> QED
      BY <2>2, <2>3, Zenon
  <1> QED
    BY <1>1, <1>2, <1>3, <1>4, Zenon

\* A stat of Lookup, by a duplicate or an audit.
LEMMA LookupKeeps ==
    ASSUME AcceptInv, NEW x \in Runs \cup Audits,
           (dir.claim # NoClaim /\ lookupDB(x)) \/ lookupLaunch(x) \/ lookupSession(x),
           UNCHANGED <<dir, disk, entry, runVars>>
    PROVE  AcceptInv'
  <1> USE DEF AcceptInv
  <1>1. seen \in [Runs \cup Audits -> Statuses] /\ dir \in Dirs
    BY Zenon DEF TypeOK
  <1>2. dir.claim \in Claims /\ dir.db \in BOOLEAN /\ dir.launch \in BOOLEAN /\ dir.session.exists \in BOOLEAN
    BY <1>1, Zenon DEF Dirs
  <1>3. /\ seen' \in [Runs \cup Audits -> Statuses]
        /\ \A y \in Runs \cup Audits : y # x => seen'[y] = seen[y]
        /\ seen'[x].issues = seen[x].issues
        /\ seen'[x].db => seen[x].db \/ dir.db
        /\ \/ seen'[x].claim = dir.claim /\ dir.claim # NoClaim
           \/ seen'[x].claim = seen[x].claim /\ seen[x].pc \in {"launch", "session"}
    BY <1>1, <1>2 DEF lookupDB, lookupLaunch, lookupSession, Statuses, Stages
  <1>4. UNCHANGED <<dir, disk, entry, pc, req, told, launched>>
    BY Zenon DEF runVars
  <1>5. TypeOK'
    BY <1>3, <1>4, Zenon DEF TypeOK
  <1>6. ClaimInv'
    <2>1. \A y \in Runs \cup Audits : seen'[y].db => disk.claim # NoClaim
      BY <1>3, Zenon DEF ClaimInv
    <2> QED
      BY <1>4, <2>1, SMTT(20) DEF ClaimInv, ClaimOf
  <1>7. LogInv' /\ MarkInv'
    BY <1>4, Zenon DEF LogInv, MarkInv
  <1>8. AuditInv'
    BY <1>3, <1>4, Zenon DEF AuditInv
  <1> QED
    BY <1>5, <1>6, <1>7, <1>8, Zenon

\* The log an audit compares is bound to the claim it has read.
LEMMA IssuesAreOthers ==
    ASSUME AcceptInv, NEW s, s.claim = dir.claim
    PROVE  /\ Issues(s, dir.session.events) \subseteq AllIssues
           /\ Issues(s, dir.session.events) \cap Mismatches = {}
  <1> DEFINE ev == dir.session.events
  <1>1. ASSUME Has(ev, "start") PROVE Binding(Start(ev)) = dir.claim
    <2>1. \E i \in DOMAIN ev : ev[i].kind = "start"
      BY <1>1, Zenon DEF Has
    <2>2. PICK i \in DOMAIN ev : Start(ev) = ev[i]
      BY <2>1, Zenon DEF Start
    <2> QED
      BY <2>2, Zenon DEF AcceptInv, LogInv, ClaimInv
  <1>2. ASSUME Has(ev, "start")
        PROVE  Start(ev).fp = s.claim.fp /\ Start(ev).policy = s.claim.policy /\ Start(ev).trace = s.claim.trace
    BY <1>1, <1>2 DEF Binding
  <1> HIDE DEF ev
  <1> QED
    BY <1>2, Zenon DEF Issues, AllIssues, Mismatches, ev

\* The steps of an audit.
LEMMA AuditsKeep ==
    ASSUME AcceptInv, NEW a \in Audits, auditLookup(a) \/ auditOpen(a) \/ auditCompare(a)
    PROVE  AcceptInv'
  <1> USE DEF AcceptInv
  <1>1. CASE auditLookup(a)
    BY <1>1, LookupKeeps, Zenon DEF auditLookup
  <1>2. CASE auditOpen(a)
    <2>1. /\ dir' = [dir EXCEPT !.session.exists = TRUE] /\ seen' = [seen EXCEPT ![a].pc = "compare"]
          /\ seen[a].pc = "read" /\ UNCHANGED <<disk, entry, pc, req, told, launched>>
      BY <1>2, Zenon DEF auditOpen, runVars
    <2>2. /\ dir' \in Dirs /\ dir'.session.events = dir.session.events
          /\ dir'.claim = dir.claim /\ dir'.db = dir.db /\ dir'.launch = dir.launch
      BY <2>1, SetExists, Zenon DEF TypeOK
    <2>3. /\ seen' \in [Runs \cup Audits -> Statuses]
          /\ \A y \in Runs \cup Audits : y # a => seen'[y] = seen[y]
          /\ seen'[a].issues = seen[a].issues /\ seen'[a].db = seen[a].db /\ seen'[a].claim = seen[a].claim
      BY <2>1, Zenon DEF TypeOK, Statuses, Stages
    <2>4. TypeOK'
      BY <2>1, <2>2, <2>3, Zenon DEF TypeOK
    <2>5. ClaimInv' /\ AuditInv'
      BY <2>1, <2>2, <2>3 DEF ClaimInv, ClaimOf, AuditInv
    <2>e. LogInv'
      BY <2>1, <2>2, Zenon DEF LogInv
    <2>6. LogInv' /\ MarkInv'
      BY <2>1, <2>2, <2>e, Zenon DEF MarkInv
    <2> QED
      BY <2>4, <2>5, <2>6
  <1>3. CASE auditCompare(a)
    <2> DEFINE found == Issues(seen[a], dir.session.events)
    <2>1. /\ seen' = [seen EXCEPT ![a].pc = "end", ![a].issues = found]
          /\ seen[a].pc = "compare" /\ UNCHANGED <<dir, disk, entry, pc, req, told, launched>>
      BY <1>3, Zenon DEF auditCompare, runVars
    <2>2. seen[a].claim = dir.claim
      BY <2>1, Zenon DEF AuditInv
    <2>3. found \subseteq AllIssues /\ found \cap Mismatches = {}
      BY <2>2, IssuesAreOthers, Zenon
    <2> HIDE DEF found
    <2>4. /\ seen' \in [Runs \cup Audits -> Statuses]
          /\ \A y \in Runs \cup Audits : y # a => seen'[y] = seen[y]
          /\ seen'[a].issues = found /\ seen'[a].db = seen[a].db /\ seen'[a].pc = "end"
      <3>1. seen[a] \in Statuses /\ seen \in [Runs \cup Audits -> Statuses] /\ a \in Runs \cup Audits
        BY Zenon DEF TypeOK
      <3>2. seen' = [seen EXCEPT ![a] = [seen[a] EXCEPT !.pc = "end", !.issues = found]]
        BY <2>1, Zenon
      <3>3. /\ [seen[a] EXCEPT !.pc = "end", !.issues = found] \in Statuses
            /\ [seen[a] EXCEPT !.pc = "end", !.issues = found].issues = found
            /\ [seen[a] EXCEPT !.pc = "end", !.issues = found].db = seen[a].db
            /\ [seen[a] EXCEPT !.pc = "end", !.issues = found].pc = "end"
        BY <2>3, <3>1, Zenon DEF Statuses, Stages
      <3> QED BY <3>1, <3>2, <3>3, Zenon
    <2>5. TypeOK'
      BY <2>1, <2>4, Zenon DEF TypeOK
    <2>6. ClaimInv'
      BY <2>1, <2>4, Zenon DEF ClaimInv, ClaimOf
    <2>7. LogInv' /\ MarkInv'
      BY <2>1, Zenon DEF LogInv, MarkInv
    <2>8. AuditInv'
      BY <2>1, <2>3, <2>4 DEF AuditInv
    <2> QED
      BY <2>5, <2>6, <2>7, <2>8, Zenon
  <1> QED
    BY <1>1, <1>2, <1>3, Zenon

\* A power loss ends every run and leaves what was durable.
LEMMA PowerLossKeeps ==
    ASSUME AcceptInv, PowerLoss PROVE AcceptInv'
  <1> USE DEF AcceptInv, Winner, Ready, Logged
  <1>1. disk' = dir' /\ UNCHANGED <<entry, req, told, launched>>
    BY Zenon DEF PowerLoss
  <1>2. \A p \in Runs : pc'[p] \in {"idle", "end", "dead"}
    BY Zenon DEF PowerLoss, TypeOK
  <1>3. \A x \in Runs \cup Audits :
          /\ seen'[x].pc \in {"idle", "end", "dead"}
          /\ seen'[x].db => seen[x].db
          /\ seen'[x].issues \in {seen[x].issues, {}}
    BY Zenon DEF PowerLoss, NoStatus
  <1>4. NoClaim \in Claims /\ NoSession \in [exists : BOOLEAN, events : Seq(Events)]
    BY DEF NoClaim, Claims, Fingerprints, Policies, NoSession
  <1>5. EmptyDir \in Dirs /\ NoStatus \in Statuses
    BY <1>4, Zenon DEF Dirs, EmptyDir, NoStatus, Statuses, Stages
  <1>6. seen' \in [Runs \cup Audits -> Statuses]
    <2>1. [NoStatus EXCEPT !.pc = "dead"] \in Statuses
      BY <1>5, Zenon DEF Statuses, Stages
    <2> QED
      BY <2>1, Zenon DEF PowerLoss, TypeOK
  <1>7. TypeOK'
    BY <1>1, <1>5, <1>6, Zenon DEF PowerLoss, TypeOK, Steps
  <1>8. CASE disk.claim # NoClaim
    <2>1. dir' = disk /\ disk' = disk
      BY <1>8, Zenon DEF PowerLoss, ClaimInv
    <2>2. ClaimInv' /\ AuditInv'
      BY <1>1, <1>2, <1>3, <1>8, <2>1, Zenon DEF ClaimInv, AuditInv
    <2>e. LogInv'
      BY <1>1, <1>2, <2>1 DEF LogInv
    <2>3. LogInv' /\ MarkInv'
      BY <1>1, <1>2, <2>1, <2>e DEF MarkInv
    <2> QED
      BY <1>7, <2>2, <2>3, Zenon
  <1>9. CASE disk.claim = NoClaim
    <2>1. dir.session.events = <<>>
      BY <1>9 DEF LogInv, TypeOK, Dirs
    <2>2. /\ dir'.claim = NoClaim /\ ~dir'.db /\ ~dir'.launch /\ dir'.session.events = <<>>
      BY <1>9, <2>1, Zenon DEF PowerLoss, EmptyDir, NoSession, ClaimInv, LogInv
    <2>3. ClaimInv' /\ AuditInv'
      BY <1>1, <1>2, <1>3, <1>9, <2>2, Zenon DEF ClaimInv, AuditInv
    <2>4. LogInv'
      BY <1>1, <1>2, <2>2, SMTT(20) DEF LogInv
    <2>5. MarkInv'
      BY <1>1, <1>2, <1>9, <2>2, Zenon DEF MarkInv, ClaimInv
    <2> QED
      BY <1>7, <2>3, <2>4, <2>5, Zenon
  <1> QED
    BY <1>8, <1>9, Zenon

\* The session file is removed while no run has it open.
LEMMA DeleteKeeps ==
    ASSUME AcceptInv, DeleteSession PROVE AcceptInv'
  <1> USE DEF AcceptInv, Winner, Ready, Logged
  <1>1. /\ dir' = [dir EXCEPT !.session = NoSession] /\ disk' = [disk EXCEPT !.session = NoSession]
        /\ UNCHANGED <<entry, pc, req, seen, told, launched>>
    BY Zenon DEF DeleteSession, runVars
  <1>2. NoSession \in [exists : BOOLEAN, events : Seq(Events)] /\ NoSession.events = <<>>
    BY DEF NoSession
  <1>3. /\ dir' \in Dirs /\ dir'.session = NoSession /\ dir'.claim = dir.claim /\ dir'.db = dir.db /\ dir'.launch = dir.launch
        /\ disk' \in Dirs /\ disk'.session = NoSession /\ disk'.claim = disk.claim /\ disk'.db = disk.db
        /\ disk'.launch = disk.launch
    BY <1>1, <1>2, SetSession DEF TypeOK
  <1>4. TypeOK' /\ ClaimInv' /\ AuditInv'
    BY <1>1, <1>3 DEF TypeOK, ClaimInv, ClaimOf, AuditInv
  <1>5. \A p \in Runs : pc[p] \notin Winner
    BY Zenon DEF DeleteSession
  <1>6. LogInv' /\ MarkInv'
    BY <1>1, <1>2, <1>3, <1>5 DEF LogInv, MarkInv
  <1> QED
    BY <1>4, <1>6, Zenon

----------------------------------------------------------------------------
\* The invariant holds throughout.
THEOREM AcceptanceInvariant ==
    ASSUME OrderedDirs = TRUE PROVE Spec => []AcceptInv
  <1>1. AcceptInv /\ [Next]_vars => AcceptInv'
    <2> SUFFICES ASSUME AcceptInv, [Next]_vars PROVE AcceptInv'
      BY Zenon
    <2>1. ASSUME NEW p \in Runs, Run(p) PROVE AcceptInv'
      <3>1. CASE replayLookup(p)
        BY <3>1, LookupKeeps, Zenon DEF replayLookup
      <3> QED
        BY <2>1, <3>1, ClaimLinkKeeps, SyncsKeep, WritesKeep, CommitsKeep, AnswersKeep, Zenon DEF Run
    <2>2. CASE \E p \in Runs : Run(p) \/ Crash(p)
      BY <2>1, <2>2, AnswersKeep, Zenon
    <2>3. CASE \E a \in Audits : auditLookup(a) \/ auditOpen(a) \/ auditCompare(a)
      BY <2>3, AuditsKeep, Zenon
    <2>4. CASE PowerLoss \/ DeleteSession
      BY <2>4, PowerLossKeeps, DeleteKeeps, Zenon
    <2>5. CASE UNCHANGED vars
      <3>1. UNCHANGED <<dir, disk, entry, pc, req, seen, told, launched>>
        BY <2>5, Zenon DEF vars, runVars
      <3> QED
        BY <3>1, Zenon DEF AcceptInv, TypeOK, ClaimInv, ClaimOf, LogInv, MarkInv, AuditInv
    <2> QED
      BY <2>2, <2>3, <2>4, <2>5, Zenon DEF Next
  <1> QED
    BY <1>1, AcceptInvInit, PTL DEF Spec

\* Any number of runs with one idempotency key, of deaths and of power losses:
\* at most one run launches (Claim, MarkLaunched and the order of their syncs).
THEOREM AcceptanceLaunchesOnce ==
    ASSUME OrderedDirs = TRUE PROVE Spec => []LaunchOnce
  <1>1. AcceptInv => LaunchOnce
    <2> SUFFICES ASSUME AcceptInv PROVE LaunchOnce
      BY Zenon
    <2>1. CASE launched = {}
      BY <2>1, FS_EmptySet DEF LaunchOnce
    <2>2. CASE launched # {}
      <3>1. PICK p : launched = {p}
        BY <2>2 DEF AcceptInv, MarkInv
      <3>2. Cardinality(launched) = 1
        BY <3>1, FS_Singleton, Zenon
      <3> QED
        BY <3>2 DEF LaunchOnce
    <2> QED
      BY <2>1, <2>2, Zenon
  <1> QED
    BY <1>1, AcceptanceInvariant, PTL

\* The log is bound to the claim, and whoever was told accepted, first or
\* duplicate, was given the trace of a claim that a power loss leaves.
THEOREM AcceptanceStands ==
    ASSUME OrderedDirs = TRUE PROVE Spec => []ClaimStands
  <1>1. AcceptInv => LogMatchesClaim
    <2> SUFFICES ASSUME AcceptInv, NEW d \in {dir, disk}, Has(d.session.events, "start")
                 PROVE  d.claim = Binding(Start(d.session.events))
      BY Zenon DEF LogMatchesClaim, Binding
    <2> DEFINE ev == d.session.events
    <2>1. ev = dir.session.events
      BY Zenon DEF AcceptInv, LogInv
    <2>2. \E i \in DOMAIN ev : ev[i].kind = "start"
      BY Zenon DEF Has
    <2>3. PICK i \in DOMAIN ev : Start(ev) = ev[i]
      BY <2>2, Zenon DEF Start
    <2>4. Binding(ev[i]) = disk.claim /\ disk.claim # NoClaim
      BY <2>1, Zenon DEF AcceptInv, LogInv
    <2> QED
      BY <2>3, <2>4, Zenon DEF AcceptInv, ClaimInv
  <1>2. AcceptInv => AcceptedStands
    BY Zenon DEF AcceptInv, ClaimInv, AcceptedStands
  <1> QED
    BY <1>1, <1>2, AcceptanceInvariant, PTL DEF ClaimStands

\* However its steps interleave with the runs, an audit finds no log that is
\* bound to another request than the claim, and a session that ended passes.
THEOREM AuditRaisesNoFalseAlarm ==
    ASSUME OrderedDirs = TRUE PROVE Spec => []AuditIsFair
  <1>1. ASSUME AcceptInv, NEW a \in Audits
        PROVE  seen[a].issues \cap {"fingerprint_mismatch", "policy_hash_mismatch", "trace_id_mismatch"} = {}
    BY <1>1, Zenon DEF AcceptInv, AuditInv, Mismatches
  <1>2. ASSUME AcceptInv, Has(dir.session.events, "end")
        PROVE  Issues([db |-> dir.db, launch |-> dir.launch, claim |-> dir.claim], dir.session.events) = {}
    <2> DEFINE ev == dir.session.events
               s == [db |-> dir.db, launch |-> dir.launch, claim |-> dir.claim]
    <2>1. s.claim = dir.claim /\ s.db = dir.db /\ s.launch = dir.launch
      BY Zenon
    <2>2. ev \in Seq(Events) /\ ev # <<>>
      BY <1>2 DEF AcceptInv, TypeOK, Dirs, Has
    <2>3. Has(ev, "start")
      BY <1>2, <2>2 DEF AcceptInv, LogInv, Has
    <2>4. dir.db
      BY <1>2, Zenon DEF AcceptInv, LogInv, MarkInv, Has
    <2>5. Has(ev, "spawn") => dir.launch
      BY <1>2, Zenon DEF AcceptInv, LogInv, MarkInv, Has
    <2>6. Issues(s, ev) \cap Mismatches = {}
      BY <1>2, <2>1, IssuesAreOthers, Zenon
    <2>7. LaunchExplained(ev)
      BY <1>2, Zenon DEF LaunchExplained
    <2> HIDE DEF s, ev
    <2>8. Issues(s, ev) \subseteq Mismatches
      BY <2>1, <2>3, <2>4, <2>5, <2>7, Zenon DEF Issues, Mismatches
    <2> QED
      BY <2>6, <2>8, Zenon DEF s, ev
  <1>3. AcceptInv => AuditIsFair
    BY <1>1, <1>2, Zenon DEF AuditIsFair
  <1> QED
    BY <1>3, AcceptanceInvariant, PTL
=============================================================================
